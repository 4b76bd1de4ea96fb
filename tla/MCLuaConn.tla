----------------------------- MODULE MCLuaConn -----------------------------
(* Instances of LuaConn for TLC: every input over two bytes up to a length. *)
EXTENDS LuaConn

CONSTANTS Letter, MaxInput

MCInputs == UNION {[1 .. n -> {Letter, Newline}] : n \in 0 .. MaxInput}
\* A newline alone, and one with a letter behind it that spans two reads.
MCDelims == {<<Newline>>, <<Newline, Letter>>}

=============================================================================

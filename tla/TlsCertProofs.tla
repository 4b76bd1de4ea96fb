---------------------------- MODULE TlsCertProofs ---------------------------
(***************************************************************************)
(* Proofs about the certificate directory, for any number of processes,    *)
(* pairs, failing calls and crashes.                                       *)
(***************************************************************************)
EXTENDS TlsCert, TLAPS

\* A command that has met no other command and no failing call is the only one
\* in progress, and knows what the files hold that it has dealt with.
Lone(p) == Busy(p) /\ ~run[p].hit

Alone == \A p, q \in Procs : Lone(p) /\ q # p => ~Busy(q)

Same(f, g) == disk[f] = g
Gone(f) == disk[f] = Absent

RemovingStage(p) ==
  At(p, "removing") =>
    /\ run[p].phase = (IF run[p].cmd = "force" THEN "force" ELSE "reload")
    /\ run[p].file = "cert" /\ run[p].cmd # "force" => disk["cert"] \in 1 .. expired
    /\ run[p].file \in {"key", "ca"} => Gone("cert")
    /\ run[p].file = "ca" => Gone("key")

\* Who reads, exports or writes a pair has one.
Carries(p) == run[p].at \in {"readKey", "statCA", "create", "write"} => run[p].pair \in Pairs

NewPairStage(p) ==
  run[p].at \in {"create", "write"} =>
    /\ At(p, "write") => disk[run[p].file] = p
    /\ run[p].file = "cert" => (At(p, "create") => Gone("cert")) /\ Gone("key")
    /\ run[p].file = "key" => Same("cert", run[p].pair) /\ (At(p, "create") => Gone("key"))
    /\ run[p].file = "ca" => Same("cert", run[p].pair) /\ Same("key", run[p].pair)

LoadStage(p) ==
  /\ At(p, "noCert") => Gone("cert")
  /\ At(p, "readKey") => Same("cert", run[p].pair)
  /\ At(p, "statCA") => Same("cert", run[p].pair) /\ Same("key", run[p].pair)

ForceStage(p) ==
  run[p].cmd = "force" =>
    /\ run[p].at \notin {"certFound", "statCA"}
    /\ run[p].at \in {"statCert", "noCert"} => \A f \in Files : Gone(f)
    /\ run[p].at \in {"create", "write"} /\ (At(p, "create") \/ run[p].file # "ca") => Gone("ca")
    /\ run[p].at \in {"create", "write", "readCert", "readKey", "verifyCA", "expiry"} =>
         run[p].pair \in Pairs /\ run[p].pair > expired /\ run[p].own = run[p].pair
    /\ run[p].at \in {"readCert", "readKey", "verifyCA", "expiry"} =>
         run[p].phase = "verify" /\ \A f \in Files : Same(f, run[p].pair)

Stage(p) == RemovingStage(p) /\ NewPairStage(p) /\ LoadStage(p) /\ ForceStage(p)

\* While nothing went wrong, what a command in progress leaves of the directory.
CalmStage(p) ==
  /\ run[p].at \notin {"removing", "create", "write"} => Whole
  /\ At(p, "removing") /\ run[p].file = "cert" => Whole
  /\ At(p, "removing") /\ run[p].file = "key" => Same("key", disk["ca"])
  /\ run[p].at \in {"create", "write"} => (At(p, "create") \/ run[p].file # "ca" => Gone("ca"))

CalmInv ==
  calm => /\ \A p \in Procs : Busy(p) => ~run[p].hit /\ CalmStage(p)
          /\ (\A p \in Procs : ~Busy(p)) => Whole

\* While a pair is shown it is on the disk, and whatever is in progress loads it
\* or is about to remove it.
Follows(p) ==
  /\ run[p].at # "noCert"
  /\ run[p].at \in {"readKey", "statCA", "create", "write"} => run[p].pair = shown
  /\ run[p].at \in {"create", "write"} => run[p].file = "ca"

ShownInv ==
  shown # Absent =>
    /\ Same("cert", shown) /\ Same("key", shown)
    /\ \A p \in Procs : Busy(p) => Follows(p)

CertInv ==
  /\ TlsTypeOK
  /\ Alone
  /\ \A p \in Procs : Carries(p) /\ (Lone(p) => Stage(p))
  /\ CalmInv
  /\ ShownInv

-----------------------------------------------------------------------------
(* One step of one process *)

Tuple == [cmd : Commands,
          at : Resting \cup {"removing", "statCert", "certFound", "noCert", "readCert",
                             "readKey", "statCA", "create", "write", "verifyCA", "expiry"},
          phase : {"force", "load", "reload", "verify"},
          file : Files, pair : {Absent} \cup Pairs, own : {Absent} \cup Pairs, hit : BOOLEAN]

\* Process p alone moves, and keeps its history of whom it met.
Moves(p) ==
  /\ run' \in [Procs -> Tuple']
  /\ \A q \in Procs : q # p => run'[q] = run[q]
  /\ run'[p].cmd = run[p].cmd
  /\ run[p].hit => run'[p].hit

LEMMA Assemble ==
  ASSUME CertInv, NEW p \in Procs, Busy(p), Moves(p), TlsTypeOK',
         Carries(p)', Lone(p)' => Stage(p)', made <= made',
         calm' => calm /\ ~run'[p].hit,
         calm' /\ Busy(p)' => CalmStage(p)',
         calm' /\ ~Busy(p)' => Whole',
         shown' # Absent => /\ Same("cert", shown)' /\ Same("key", shown)'
                            /\ Busy(p)' => Follows(p)'
                            /\ shown' = shown \/ Lone(p)
  PROVE  CertInv'
<1>1. \A q \in Procs : q # p => (Busy(q)' <=> Busy(q)) /\ (Lone(q)' <=> Lone(q))
  BY DEF Moves, Busy, Lone
<1>2. \A q \in Procs : Lone(q) => q = p
  BY DEF CertInv, Alone
<1>3. Lone(p)' => Lone(p)
  BY DEF Moves, Lone
<1>4. Alone'
  BY <1>1, <1>2, <1>3 DEF CertInv, Alone
<1>5. (\A q \in Procs : Carries(q) /\ (Lone(q) => Stage(q)))'
  <2>1. ASSUME NEW q \in Procs, q # p PROVE Carries(q)'
    <3>1. made \in Nat /\ made' \in Nat /\ Carries(q)
      BY TlsCertAssumption DEF CertInv, TlsTypeOK
    <3> QED BY <2>1, <3>1 DEF Moves, Carries, Pairs
  <2> QED BY <1>1, <1>2, <2>1
<1>6. calm' => Lone(p) /\ \A q \in Procs : q # p => ~Busy(q)
  BY DEF CertInv, CalmInv, Lone, Alone
<1>7. CalmInv'
  BY <1>1, <1>6 DEF CalmInv
<1>8. ASSUME NEW q \in Procs, q # p, Busy(q)', shown' # Absent PROVE Follows(q)'
  <2>1. shown' = shown /\ Follows(q)
    BY <1>1, <1>2, <1>8 DEF CertInv, Alone, ShownInv
  <2> QED BY <1>8, <2>1 DEF Follows, Moves, At
<1>9. ShownInv'
  BY <1>8 DEF ShownInv
<1> QED BY <1>4, <1>5, <1>7, <1>9 DEF CertInv

\* What follows from the types alone.
LEMMA Types ==
  ASSUME TlsTypeOK, NEW p \in Procs
  PROVE  /\ made \in Nat /\ expired \in Nat /\ expired <= made /\ Pairs = 1 .. made
         /\ run \in [Procs -> Tuple] /\ run[p] \in Tuple
         /\ p \notin Pairs /\ p # Absent /\ shown \in {Absent} \cup Pairs
         /\ disk \in [Files -> {Absent} \cup Pairs \cup Procs]
<1>1. made \in Nat /\ expired \in Nat /\ expired <= made
  BY TlsCertAssumption DEF TlsTypeOK
<1> QED BY <1>1, TlsCertAssumption DEF TlsTypeOK, Pairs, Tuple, Absent

\* No process but p moves.
Others(p) == \A q \in Procs : q # p => run'[q] = run[q]

LEMMA Going ==
  ASSUME TlsTypeOK, NEW p \in Procs, Busy(p),
         run' \in [Procs -> Tuple'], Others(p),
         run'[p].cmd = run[p].cmd, run[p].hit => run'[p].hit,
         made' \in Nat, expired' \in 0 .. made',
         disk' \in [Files -> {Absent} \cup Pairs' \cup Procs],
         errors' \in 0 .. MaxErrors, crashes' \in 0 .. MaxCrashes, crashes <= crashes',
         calm' \in BOOLEAN, shown' \in {Absent} \cup Pairs',
         \A f \in Files, q \in Procs : disk'[f] = q =>
           IF q = p THEN Writing(p, f)' \/ crashes' > 0 ELSE disk[f] = q
  PROVE  TlsTypeOK' /\ Moves(p)
<1>5. \A q \in Procs, f \in Files : disk'[f] = q => Writing(q, f)' \/ crashes' > 0
  <2> SUFFICES ASSUME NEW q \in Procs, NEW f \in Files, disk'[f] = q, q # p
               PROVE  Writing(q, f)' \/ crashes' > 0
    OBVIOUS
  <2>1. Writing(q, f) \/ crashes > 0
    BY DEF TlsTypeOK
  <2> QED BY <2>1 DEF Writing, TlsTypeOK, Others
<1>6. TlsTypeOK'
  BY <1>5 DEF TlsTypeOK, Tuple
<1> QED BY <1>6 DEF Moves, Others

LEMMA RemoveStep == ASSUME CertInv, NEW p \in Procs, Remove(p) PROVE CertInv'
<1> USE DEF At, Goto, Exists, Kept, Busy, Resting
<1>1. TlsTypeOK /\ Busy(p) /\ run[p] \in Tuple /\ run \in [Procs -> Tuple]
  BY Types DEF CertInv, Remove
<1>2. /\ run' \in [Procs -> Tuple] /\ Others(p)
      /\ run'[p].cmd = run[p].cmd /\ run'[p].hit = run[p].hit
      /\ run'[p].own = run[p].own /\ run'[p].pair = run[p].pair
      /\ \/ /\ run[p].file = "cert" /\ run'[p].file = "key" /\ At(p, "removing")'
            /\ run'[p].phase = run[p].phase
         \/ /\ run[p].file = "key" /\ run'[p].file = "ca" /\ At(p, "removing")'
            /\ run'[p].phase = run[p].phase
         \/ /\ run[p].file = "ca" /\ run[p].phase = "force"
            /\ At(p, "statCert")' /\ run'[p].phase = "load"
         \/ /\ run[p].file = "ca" /\ run[p].phase # "force"
            /\ At(p, "readCert")' /\ run'[p].phase = run[p].phase
  <2>2. CASE run[p].file = "cert"
    <3>1. run' = [run EXCEPT ![p].file = "key"] /\ At(p, "removing")
      BY <2>2 DEF Remove, After
    <3> QED BY <1>1, <2>2, <3>1 DEF Tuple, Files, Others
  <2>3. CASE run[p].file = "key"
    <3>1. run' = [run EXCEPT ![p].file = "ca"] /\ At(p, "removing")
      BY <2>3 DEF Remove, After
    <3> QED BY <1>1, <2>3, <3>1 DEF Tuple, Files, Others
  <2>4. CASE run[p].file = "ca" /\ run[p].phase = "force"
    <3>1. run' = [run EXCEPT ![p].at = "statCert", ![p].phase = "load"]
      BY <2>4 DEF Remove, After
    <3> QED BY <1>1, <2>4, <3>1 DEF Tuple, Files, Others
  <2>5. CASE run[p].file = "ca" /\ run[p].phase # "force"
    <3>1. run' = [run EXCEPT ![p].at = "readCert"]
      BY <2>5 DEF Remove, After
    <3> QED BY <1>1, <2>5, <3>1 DEF Tuple, Files, Others
  <2> QED BY <1>1, <2>2, <2>3, <2>4, <2>5 DEF Tuple, Files
<1>3. /\ disk' = [disk EXCEPT ![run[p].file] = Absent] /\ shown' = Absent
      /\ UNCHANGED <<made, expired, errors, crashes, calm>>
  BY DEF Remove
<1>4. TlsTypeOK' /\ Moves(p)
  <2>1. Pairs' = Pairs /\ Tuple' = Tuple
    BY <1>3 DEF Pairs, Tuple
  <2>2. disk' \in [Files -> {Absent} \cup Pairs \cup Procs]
    BY <1>1, <1>3, Types DEF Tuple
  <2>3. \A f \in Files, q \in Procs : disk'[f] = q => disk[f] = q
    BY <1>1, <1>3, Types DEF Tuple
  <2>4. \A f \in Files : disk[f] = p => crashes > 0
    BY <1>1 DEF TlsTypeOK, Writing, Remove
  <2>5. /\ made' \in Nat /\ expired' \in 0 .. made' /\ errors' \in 0 .. MaxErrors
        /\ crashes' \in 0 .. MaxCrashes /\ crashes <= crashes' /\ calm' \in BOOLEAN
        /\ shown' \in {Absent} \cup Pairs'
    BY <1>1, <1>3, TlsCertAssumption DEF TlsTypeOK
  <2> QED BY <1>1, <1>2, <1>3, <2>1, <2>2, <2>3, <2>4, <2>5, Going
<1>5. Lone(p)' => Stage(p)'
  <2> SUFFICES ASSUME Lone(p)' PROVE Stage(p)'
    OBVIOUS
  <2>1. Lone(p) /\ Stage(p)
    BY <1>1, <1>2 DEF CertInv, Lone
  <2>2. RemovingStage(p)'
    BY <1>1, <1>2, <1>3, <2>1, Types DEF Stage, RemovingStage, Gone, Files, Tuple, Remove
  <2>3. NewPairStage(p)' /\ LoadStage(p)'
    BY <1>2 DEF NewPairStage, LoadStage
  <2>4. ForceStage(p)'
    BY <1>1, <1>2, <1>3, <2>1, Types DEF Stage, RemovingStage, ForceStage, Gone, Same, Files, Tuple, Remove
  <2> QED BY <2>2, <2>3, <2>4 DEF Stage
<1>6. /\ calm' => calm /\ ~run'[p].hit
      /\ calm' /\ Busy(p)' => CalmStage(p)'
      /\ calm' /\ ~Busy(p)' => Whole'
  <2>1. calm => Lone(p) /\ Stage(p) /\ CalmStage(p)
    BY <1>1 DEF CertInv, CalmInv, Lone
  <2>2. ASSUME calm, run[p].file = "ca" PROVE Whole'
    <3>1. Gone("cert") /\ Gone("key") /\ disk["ca"]' = Absent
      BY <1>1, <1>3, <2>1, <2>2, Types DEF Stage, RemovingStage, Remove, Files
    <3> QED BY <1>1, <1>3, <2>2, <3>1, Types DEF Whole, Gone, Files
  <2>3. calm /\ At(p, "removing")' /\ run'[p].file = "key" => Same("key", disk["ca"])'
    BY <1>1, <1>2, <1>3, <2>1, Types DEF CalmStage, Whole, Same, Files, Remove
  <2> QED BY <1>2, <1>3, <2>1, <2>2, <2>3 DEF CalmStage, Lone
<1>7. made <= made' /\ Carries(p)'
  BY <1>1, <1>2, <1>3, Types DEF Carries
<1> QED BY <1>1, <1>3, <1>4, <1>5, <1>6, <1>7, Assemble

-----------------------------------------------------------------------------
(* Steps of a command on the directory as it is *)

\* Process p goes on to its next step, having changed at most one file; a
\* listener that has its pair shows it.
LEMMA Acting ==
  ASSUME CertInv, NEW p \in Procs, Busy(p),
         run' \in [Procs -> Tuple], Others(p),
         run'[p].cmd = run[p].cmd, run'[p].hit = run[p].hit,
         UNCHANGED <<made, expired, errors, crashes, calm>>,
         disk' \in [Files -> {Absent} \cup Pairs \cup Procs],
         \A f \in Files, q \in Procs : disk'[f] = q =>
           IF q = p THEN Writing(p, f)' \/ crashes > 0 ELSE disk[f] = q,
         Carries(p)', Lone(p) /\ Stage(p) /\ Busy(p)' => Stage(p)',
         calm /\ Lone(p) /\ Stage(p) /\ CalmStage(p) =>
           IF Busy(p)' THEN CalmStage(p)' ELSE Whole',
         \/ /\ shown' = shown
            /\ shown # Absent /\ Follows(p) /\ Same("cert", shown) /\ Same("key", shown)
                 => Same("cert", shown)' /\ Same("key", shown)' /\ (Busy(p)' => Follows(p)')
         \/ /\ Lone(p) /\ shown' \in Pairs /\ ~Busy(p)'
            /\ Stage(p) => Same("cert", shown)' /\ Same("key", shown)'
  PROVE  CertInv'
<1>1. TlsTypeOK /\ Pairs' = Pairs /\ Tuple' = Tuple
  BY DEF CertInv, Pairs, Tuple
<1>2. TlsTypeOK' /\ Moves(p)
  <2>1. /\ made' \in Nat /\ expired' \in 0 .. made' /\ errors' \in 0 .. MaxErrors
        /\ crashes' \in 0 .. MaxCrashes /\ crashes <= crashes' /\ calm' \in BOOLEAN
        /\ shown' \in {Absent} \cup Pairs'
    BY <1>1, TlsCertAssumption DEF TlsTypeOK
  <2> QED BY <1>1, <2>1, Going
<1>3. Lone(p) => Stage(p)
  BY DEF CertInv
<1>4. Lone(p)' => Lone(p) /\ Busy(p)'
  BY DEF Lone
<1>5. calm => Lone(p) /\ CalmStage(p)
  BY DEF CertInv, CalmInv, Lone
<1>6. calm' => calm /\ ~run'[p].hit
  BY <1>5 DEF Lone
<1>7. /\ calm' /\ Busy(p)' => CalmStage(p)'
      /\ calm' /\ ~Busy(p)' => Whole'
  BY <1>3, <1>5
<1>8. shown' # Absent => /\ Same("cert", shown)' /\ Same("key", shown)'
                         /\ Busy(p)' => Follows(p)'
                         /\ shown' = shown \/ Lone(p)
  BY <1>3 DEF CertInv, ShownInv
<1>9. made <= made'
  BY <1>1, Types
<1> QED BY <1>2, <1>3, <1>4, <1>6, <1>7, <1>8, <1>9, Assemble

\* The same for a step that only reads the directory.
LEMMA Looking ==
  ASSUME CertInv, NEW p \in Procs, Busy(p), ~At(p, "write"),
         run' \in [Procs -> Tuple], Others(p),
         run'[p].cmd = run[p].cmd, run'[p].hit = run[p].hit,
         UNCHANGED <<disk, made, expired, errors, crashes, calm>>,
         Carries(p)', Lone(p) /\ Stage(p) /\ Busy(p)' => Stage(p)',
         calm /\ Lone(p) /\ Stage(p) /\ CalmStage(p) =>
           IF Busy(p)' THEN CalmStage(p)' ELSE Whole,
         \/ shown' = shown /\ (shown # Absent /\ Follows(p) /\ Same("cert", shown) /\ Same("key", shown)
                                 /\ Busy(p)' => Follows(p)')
         \/ /\ Lone(p) /\ shown' \in Pairs /\ ~Busy(p)'
            /\ Stage(p) => Same("cert", shown') /\ Same("key", shown')
  PROVE  CertInv'
<1>1. \A f \in Files, q \in Procs : disk'[f] = q =>
        IF q = p THEN Writing(p, f)' \/ crashes > 0 ELSE disk[f] = q
  BY DEF CertInv, TlsTypeOK, Writing, At
<1>2. disk' \in [Files -> {Absent} \cup Pairs \cup Procs]
  BY Types DEF CertInv
<1>3. Whole' <=> Whole
  BY DEF Whole
<1>4. \/ /\ shown' = shown
         /\ shown # Absent /\ Follows(p) /\ Same("cert", shown) /\ Same("key", shown)
              => Same("cert", shown)' /\ Same("key", shown)' /\ (Busy(p)' => Follows(p)')
      \/ /\ Lone(p) /\ shown' \in Pairs /\ ~Busy(p)'
         /\ Stage(p) => Same("cert", shown)' /\ Same("key", shown)'
  BY DEF Same
<1> QED BY <1>1, <1>2, <1>3, <1>4, Acting

LEMMA StatCertStep == ASSUME CertInv, NEW p \in Procs, StatCert(p) PROVE CertInv'
<1> USE DEF At, Busy, Resting
<1>1. TlsTypeOK /\ Busy(p) /\ run[p] \in Tuple /\ run \in [Procs -> Tuple]
  BY Types DEF CertInv, StatCert
<1>2. PICK a \in {"certFound", "noCert"} :
        run' = [run EXCEPT ![p].at = a] /\ (a = "noCert" <=> Gone("cert"))
  BY DEF StatCert, Goto, Exists, Gone
<1>3. /\ run' \in [Procs -> Tuple] /\ Others(p) /\ At(p, a)'
      /\ run'[p].cmd = run[p].cmd /\ run'[p].hit = run[p].hit /\ run'[p].own = run[p].own
  BY <1>1, <1>2 DEF Others, Tuple
<1>4. At(p, "statCert") /\ UNCHANGED <<disk, made, expired, errors, crashes, calm, shown>>
  BY DEF StatCert, Kept
<1>5. Stage(p) => Stage(p)'
  BY <1>2, <1>3, <1>4 DEF Stage, RemovingStage, NewPairStage, LoadStage, ForceStage, Gone, Same, Files
<1>6. CalmStage(p) => CalmStage(p)' /\ Busy(p)'
  BY <1>3, <1>4 DEF CalmStage, Whole
<1>7. shown # Absent /\ Same("cert", shown) => Follows(p)'
  BY <1>2, <1>3 DEF Follows, Same, Gone
<1>8. Carries(p)'
  BY <1>3 DEF Carries
<1> QED BY <1>1, <1>3, <1>4, <1>5, <1>6, <1>7, <1>8, Looking

States == Resting \cup {"removing", "statCert", "certFound", "noCert", "readCert",
                        "readKey", "statCA", "create", "write", "verifyCA", "expiry"}

LEMMA GotoFacts ==
  ASSUME TlsTypeOK, NEW p \in Procs, NEW a \in States, Goto(p, a)
  PROVE  /\ run' \in [Procs -> Tuple] /\ Others(p)
         /\ run'[p] = [run[p] EXCEPT !.at = a] /\ run'[p].at = a
         /\ run'[p].cmd = run[p].cmd /\ run'[p].hit = run[p].hit /\ run'[p].own = run[p].own
         /\ run'[p].file = run[p].file /\ run'[p].pair = run[p].pair
         /\ run'[p].phase = run[p].phase
<1>1. run[p] \in Tuple /\ run \in [Procs -> Tuple]
  BY Types
<1>2. run' = [run EXCEPT ![p].at = a]
  BY DEF Goto
<1> QED BY <1>1, <1>2 DEF Others, Tuple, States

LEMMA HavePairFacts ==
  ASSUME TlsTypeOK, NEW p \in Procs, NEW g \in Pairs, HavePair(p, g)
  PROVE  /\ run' \in [Procs -> Tuple] /\ Others(p)
         /\ run'[p].cmd = run[p].cmd /\ run'[p].hit = run[p].hit
         /\ run'[p].own = run[p].own /\ run'[p].pair = g
         /\ \/ /\ run[p].cmd = "listen" /\ run'[p].at = "serving"
               /\ shown' = IF run[p].hit THEN shown ELSE g
            \/ /\ run[p].cmd # "listen" /\ run'[p].at = "readCert"
               /\ run'[p].phase = "verify" /\ shown' = shown
<1>1. run[p] \in Tuple /\ run \in [Procs -> Tuple]
  BY Types
<1>2. CASE run[p].cmd = "listen"
  <2>1. /\ run' = [run EXCEPT ![p].at = "serving", ![p].pair = g]
        /\ shown' = IF run[p].hit THEN shown ELSE g
    BY <1>2 DEF HavePair
  <2> QED BY <1>1, <1>2, <2>1 DEF Others, Tuple, Resting
<1>3. CASE run[p].cmd # "listen"
  <2>1. /\ run' = [run EXCEPT ![p].at = "readCert", ![p].phase = "verify", ![p].pair = g]
        /\ shown' = shown
    BY <1>3 DEF HavePair
  <2> QED BY <1>1, <1>3, <2>1 DEF Others, Tuple, Resting
<1> QED BY <1>2, <1>3

LEMMA StatKeyStep == ASSUME CertInv, NEW p \in Procs, StatKey(p) PROVE CertInv'
<1> USE DEF At, Busy, Resting
<1>1. TlsTypeOK /\ Busy(p)
  BY DEF CertInv, StatKey
<1>2. PICK a \in {"readCert", "failed"} :
        /\ Goto(p, a)
        /\ a = "readCert" => At(p, "certFound")
        /\ a = "failed" => (At(p, "certFound") /\ Gone("key")) \/ At(p, "noCert")
  BY DEF StatKey, Exists, Gone
<1>3. /\ run' \in [Procs -> Tuple] /\ Others(p) /\ At(p, a)'
      /\ run'[p].cmd = run[p].cmd /\ run'[p].hit = run[p].hit /\ run'[p].own = run[p].own
  BY <1>1, <1>2, GotoFacts DEF States
<1>4. UNCHANGED <<disk, made, expired, errors, crashes, calm, shown>>
  BY DEF StatKey, Kept
<1>5. Stage(p) /\ Busy(p)' => Stage(p)'
  BY <1>2, <1>3, <1>4 DEF Stage, RemovingStage, NewPairStage, LoadStage, ForceStage, Gone, Same, Files
<1>6. CalmStage(p) => IF Busy(p)' THEN CalmStage(p)' ELSE Whole
  BY <1>2, <1>3, <1>4 DEF CalmStage, Whole
<1>7. Busy(p)' => Follows(p)'
  BY <1>2, <1>3 DEF Follows
<1>8. ~At(p, "write") /\ ~At(p, "write")' /\ Carries(p)'
  BY <1>2, <1>3 DEF Carries
<1> QED BY <1>1, <1>3, <1>4, <1>5, <1>6, <1>7, <1>8, Looking

LEMMA ReadCertStep == ASSUME CertInv, NEW p \in Procs, ReadCert(p) PROVE CertInv'
<1> USE DEF At, Busy, Resting
<1>1. TlsTypeOK /\ Busy(p) /\ run[p] \in Tuple /\ run \in [Procs -> Tuple] /\ At(p, "readCert")
  BY Types DEF CertInv, ReadCert
<1>2. UNCHANGED <<disk, made, expired, errors, crashes, calm, shown>>
  BY DEF ReadCert, Kept
<1>3. CASE disk["cert"] \in Pairs
  <2>1. run' = [run EXCEPT ![p].at = "readKey", ![p].pair = disk["cert"]]
    BY <1>3 DEF ReadCert
  <2>2. /\ run' \in [Procs -> Tuple] /\ Others(p) /\ At(p, "readKey")'
        /\ run'[p].cmd = run[p].cmd /\ run'[p].hit = run[p].hit /\ run'[p].own = run[p].own
        /\ run'[p].phase = run[p].phase /\ run'[p].pair = disk["cert"]
    BY <1>1, <1>3, <2>1 DEF Others, Tuple
  <2>3. Stage(p) => Stage(p)'
    BY <1>1, <1>2, <1>3, <2>2 DEF Stage, RemovingStage, NewPairStage, LoadStage, ForceStage, Gone, Same, Files, Pairs
  <2>4. CalmStage(p) => CalmStage(p)'
    BY <1>1, <1>2, <2>2 DEF CalmStage, Whole
  <2>5. Same("cert", shown) => Follows(p)'
    BY <1>2, <2>2 DEF Follows, Same
  <2>6. Carries(p)'
    BY <1>2, <1>3, <2>2 DEF Carries, Pairs
  <2> QED BY <1>1, <1>2, <2>2, <2>3, <2>4, <2>5, <2>6, Looking
<1>4. CASE disk["cert"] \notin Pairs
  <2>1. Goto(p, "failed")
    BY <1>4 DEF ReadCert
  <2>2. /\ run' \in [Procs -> Tuple] /\ Others(p) /\ At(p, "failed")'
        /\ run'[p].cmd = run[p].cmd /\ run'[p].hit = run[p].hit /\ run'[p].own = run[p].own
    BY <1>1, <2>1, GotoFacts DEF States
  <2>3. CalmStage(p) => Whole
    BY <1>1 DEF CalmStage
  <2>4. Carries(p)'
    BY <2>2 DEF Carries
  <2> QED BY <1>1, <1>2, <2>2, <2>3, <2>4, Looking
<1> QED BY <1>3, <1>4

LEMMA ReadKeyStep == ASSUME CertInv, NEW p \in Procs, ReadKey(p) PROVE CertInv'
<1> USE DEF At, Busy, Resting
<1> DEFINE g == run[p].pair
<1>1. TlsTypeOK /\ Busy(p) /\ run[p] \in Tuple /\ run \in [Procs -> Tuple] /\ At(p, "readKey")
  BY Types DEF CertInv, ReadKey
<1>2. UNCHANGED <<disk, made, expired, errors, crashes, calm>>
  BY DEF ReadKey
<1>3. g \in Pairs /\ Pairs' = Pairs
  BY <1>1, <1>2 DEF CertInv, Carries, Pairs
<1>4. (Stage(p) => Same("cert", g)) /\ (CalmStage(p) => Whole)
  BY <1>1 DEF Stage, LoadStage, CalmStage
<1>5. ASSUME NEW a \in {"failed", "verifyCA", "statCA"}, Goto(p, a), shown' = shown,
             a # "failed" => Same("key", g),
             a = "verifyCA" <=> a # "failed" /\ run[p].phase = "verify"
      PROVE  CertInv'
  <2>1. /\ run' \in [Procs -> Tuple] /\ Others(p) /\ At(p, a)'
        /\ run'[p].cmd = run[p].cmd /\ run'[p].hit = run[p].hit
        /\ run'[p].own = run[p].own /\ run'[p].pair = g
        /\ run'[p].phase = run[p].phase
    BY <1>1, <1>5, GotoFacts DEF States
  <2>2. Stage(p) /\ Busy(p)' => Stage(p)'
    BY <1>1, <1>2, <1>3, <1>4, <1>5, <2>1 DEF Stage, RemovingStage, NewPairStage, LoadStage, ForceStage, Gone, Same, Files
  <2>3. Whole /\ Busy(p)' => CalmStage(p)'
    BY <1>2, <1>5, <2>1 DEF CalmStage, Whole
  <2>4. Follows(p) /\ Busy(p)' => Follows(p)'
    BY <1>1, <1>5, <2>1 DEF Follows
  <2>5. Carries(p)'
    BY <1>3, <2>1 DEF Carries
  <2> QED BY <1>1, <1>2, <1>4, <1>5, <2>1, <2>2, <2>3, <2>4, <2>5, Looking
<1>6. ASSUME Same("key", g), HavePair(p, g), run[p].phase = "reload" PROVE CertInv'
  <2>1. /\ run' \in [Procs -> Tuple] /\ Others(p)
        /\ run'[p].cmd = run[p].cmd /\ run'[p].hit = run[p].hit /\ run'[p].own = run[p].own
        /\ \/ At(p, "serving")' /\ shown' = IF run[p].hit THEN shown ELSE g
           \/ At(p, "readCert")' /\ shown' = shown
    BY <1>1, <1>3, <1>6, HavePairFacts
  <2>2. Stage(p) => run[p].cmd # "force"
    BY <1>1, <1>6 DEF Stage, ForceStage
  <2>3. Stage(p) /\ Busy(p)' => Stage(p)'
    BY <2>1, <2>2 DEF Stage, RemovingStage, NewPairStage, LoadStage, ForceStage
  <2>4. Whole /\ Busy(p)' => CalmStage(p)'
    BY <1>2, <2>1 DEF CalmStage, Whole
  <2>5. Carries(p)' /\ (Busy(p)' => Follows(p)')
    BY <2>1 DEF Carries, Follows
  <2>6. \/ shown' = shown
        \/ Lone(p) /\ shown' = g /\ ~Busy(p)'
    BY <1>1, <2>1 DEF Lone
  <2> QED BY <1>1, <1>2, <1>3, <1>4, <1>6, <2>1, <2>3, <2>4, <2>5, <2>6, Looking DEF Same
<1>7. ASSUME Same("key", g), Expired(g), run[p].phase \notin {"reload", "verify"}, shown' = shown,
             run' = [run EXCEPT ![p].at = "removing", ![p].phase = "reload", ![p].file = "cert"]
      PROVE  CertInv'
  <2>1. /\ run' \in [Procs -> Tuple] /\ Others(p) /\ At(p, "removing")'
        /\ run'[p].cmd = run[p].cmd /\ run'[p].hit = run[p].hit /\ run'[p].own = run[p].own
        /\ run'[p].phase = "reload" /\ run'[p].file = "cert"
    BY <1>1, <1>7 DEF Others, Tuple, Files
  <2>2. Stage(p) => run[p].cmd # "force"
    BY <1>1, <1>7 DEF Stage, ForceStage
  <2>3. Stage(p) => Stage(p)'
    BY <1>1, <1>2, <1>3, <1>4, <1>7, <2>1, <2>2, Types
       DEF Stage, RemovingStage, NewPairStage, LoadStage, ForceStage, Same, Expired
  <2>4. Whole => CalmStage(p)'
    BY <1>2, <2>1 DEF CalmStage, Whole
  <2>5. Carries(p)' /\ Follows(p)'
    BY <2>1 DEF Carries, Follows
  <2> QED BY <1>1, <1>2, <1>4, <1>7, <2>1, <2>3, <2>4, <2>5, Looking
<1> QED BY <1>1, <1>5, <1>6, <1>7 DEF ReadKey, Same, Goto

LEMMA StatCAStep == ASSUME CertInv, NEW p \in Procs, StatCA(p) PROVE CertInv'
<1> USE DEF At, Busy, Resting
<1> DEFINE g == run[p].pair
<1>1. TlsTypeOK /\ Busy(p) /\ run[p] \in Tuple /\ run \in [Procs -> Tuple] /\ At(p, "statCA")
  BY Types DEF CertInv, StatCA
<1>2. UNCHANGED <<disk, made, expired, errors, crashes, calm>>
  BY DEF StatCA
<1>3. g \in Pairs /\ Pairs' = Pairs
  BY <1>1, <1>2 DEF CertInv, Carries, Pairs
<1>4. Stage(p) => Same("cert", g) /\ Same("key", g) /\ run[p].cmd # "force"
  BY <1>1 DEF Stage, LoadStage, ForceStage
<1>5. CalmStage(p) => Whole
  BY <1>1 DEF CalmStage
<1>6. CASE Exists("ca")
  <2>1. HavePair(p, g)
    BY <1>6 DEF StatCA
  <2>2. /\ run' \in [Procs -> Tuple] /\ Others(p)
        /\ run'[p].cmd = run[p].cmd /\ run'[p].hit = run[p].hit /\ run'[p].own = run[p].own
        /\ \/ At(p, "serving")' /\ shown' = IF run[p].hit THEN shown ELSE g
           \/ At(p, "readCert")' /\ shown' = shown
    BY <1>1, <1>3, <2>1, HavePairFacts
  <2>3. Stage(p) /\ Busy(p)' => Stage(p)'
    BY <1>4, <2>2 DEF Stage, RemovingStage, NewPairStage, LoadStage, ForceStage
  <2>4. Whole /\ Busy(p)' => CalmStage(p)'
    BY <1>2, <2>2 DEF CalmStage, Whole
  <2>5. Carries(p)' /\ (Busy(p)' => Follows(p)')
    BY <2>2 DEF Carries, Follows
  <2>6. shown' = shown \/ (Lone(p) /\ shown' = g /\ ~Busy(p)')
    BY <1>1, <2>2 DEF Lone
  <2> QED BY <1>1, <1>2, <1>3, <1>4, <1>5, <2>2, <2>3, <2>4, <2>5, <2>6, Looking
<1>7. CASE ~Exists("ca")
  <2>1. run' = [run EXCEPT ![p].at = "create", ![p].file = "ca"] /\ shown' = shown
    BY <1>7 DEF StatCA
  <2>2. /\ run' \in [Procs -> Tuple] /\ Others(p) /\ At(p, "create")'
        /\ run'[p].cmd = run[p].cmd /\ run'[p].hit = run[p].hit /\ run'[p].own = run[p].own
        /\ run'[p].file = "ca" /\ run'[p].pair = g
    BY <1>1, <2>1 DEF Others, Tuple, Files
  <2>3. Stage(p) => Stage(p)'
    BY <1>2, <1>4, <2>2 DEF Stage, RemovingStage, NewPairStage, LoadStage, ForceStage, Same
  <2>4. CalmStage(p)'
    BY <1>2, <1>7, <2>2 DEF CalmStage, Gone, Exists
  <2>5. Carries(p)' /\ (Follows(p) => Follows(p)')
    BY <1>1, <1>3, <2>1, <2>2 DEF Carries, Follows
  <2> QED BY <1>1, <1>2, <2>1, <2>2, <2>3, <2>4, <2>5, Looking
<1> QED BY <1>6, <1>7

LEMMA VerifySteps ==
  ASSUME CertInv, NEW p \in Procs, VerifyCA(p) \/ CertExpiry(p) PROVE CertInv'
<1> USE DEF At, Busy, Resting
<1>1. TlsTypeOK /\ Busy(p) /\ run[p].at \in {"verifyCA", "expiry"}
  BY DEF CertInv, VerifyCA, CertExpiry
<1>2. UNCHANGED <<disk, made, expired, errors, crashes, calm, shown>>
  BY DEF VerifyCA, CertExpiry, Kept
<1>3. PICK a \in {"expiry", "ok", "failed"} : Goto(p, a)
  BY DEF VerifyCA, CertExpiry
<1>4. /\ run' \in [Procs -> Tuple] /\ Others(p) /\ At(p, a)'
      /\ run'[p].cmd = run[p].cmd /\ run'[p].hit = run[p].hit
      /\ run'[p].own = run[p].own /\ run'[p].pair = run[p].pair
      /\ run'[p].phase = run[p].phase
  BY <1>1, <1>3, GotoFacts DEF States
<1>5. Stage(p) /\ Busy(p)' => Stage(p)'
  BY <1>1, <1>2, <1>4 DEF Stage, RemovingStage, NewPairStage, LoadStage, ForceStage, Same, Files, Pairs
<1>6. CalmStage(p) => IF Busy(p)' THEN CalmStage(p)' ELSE Whole
  BY <1>1, <1>2, <1>4 DEF CalmStage, Whole
<1>7. Carries(p)' /\ (Busy(p)' => Follows(p)')
  BY <1>4 DEF Carries, Follows
<1> QED BY <1>1, <1>2, <1>4, <1>5, <1>6, <1>7, Looking

-----------------------------------------------------------------------------
(* Making a pair *)

LEMMA GenerateStep == ASSUME CertInv, NEW p \in Procs, Generate(p) PROVE CertInv'
<1> USE DEF At, Busy, Resting
<1>1. TlsTypeOK /\ Busy(p) /\ run[p] \in Tuple /\ run \in [Procs -> Tuple] /\ At(p, "noCert")
  BY Types DEF CertInv, Generate
<1>2. /\ UNCHANGED <<disk, expired, errors, crashes, calm, shown>> /\ made' = made + 1
      /\ Gone("key")
  BY DEF Generate, Exists, Gone
<1>3. /\ made \in Nat /\ expired \in Nat /\ expired <= made
      /\ Pairs = 1 .. made /\ Pairs' = 1 .. made' /\ made + 1 \in Pairs'
      /\ Tuple \subseteq Tuple'
  BY <1>1, <1>2, Types DEF Pairs, Tuple
<1>4. run' = [run EXCEPT ![p].at = "create", ![p].file = "cert", ![p].pair = made + 1,
                        ![p].own = made + 1]
  BY DEF Generate
<1>5. run' \in [Procs -> Tuple']
  <2>1. [run[p] EXCEPT !.at = "create", !.file = "cert", !.pair = made + 1, !.own = made + 1] \in Tuple'
    BY <1>1, <1>3 DEF Tuple, Files
  <2> QED BY <1>1, <1>3, <1>4, <2>1
<1>6. /\ Others(p) /\ At(p, "create")' /\ run'[p].file = "cert" /\ run'[p].pair = made + 1
      /\ run'[p].cmd = run[p].cmd /\ run'[p].hit = run[p].hit /\ run'[p].own = made + 1
  BY <1>1, <1>4 DEF Others, Tuple
<1>7. TlsTypeOK' /\ Moves(p)
  <2>1. /\ made' \in Nat /\ expired' \in 0 .. made' /\ errors' \in 0 .. MaxErrors
        /\ crashes' \in 0 .. MaxCrashes /\ crashes <= crashes' /\ calm' \in BOOLEAN
        /\ shown' \in {Absent} \cup Pairs' /\ disk' \in [Files -> {Absent} \cup Pairs' \cup Procs]
    BY <1>1, <1>2, <1>3, TlsCertAssumption DEF TlsTypeOK
  <2>2. \A f \in Files, q \in Procs : disk'[f] = q =>
          IF q = p THEN Writing(p, f)' \/ crashes' > 0 ELSE disk[f] = q
    BY <1>1, <1>2 DEF TlsTypeOK, Writing
  <2> QED BY <1>1, <1>5, <1>6, <2>1, <2>2, Going
<1>8. Stage(p) => Stage(p)'
  BY <1>1, <1>2, <1>3, <1>6, Types
     DEF Stage, RemovingStage, NewPairStage, LoadStage, ForceStage, Gone, Files
<1>9. Lone(p)' => Stage(p)'
  BY <1>1, <1>6, <1>8 DEF CertInv, Lone
<1>10. calm => ~run[p].hit /\ Whole /\ Stage(p)
  BY <1>1 DEF CertInv, CalmInv, CalmStage, Lone
<1>11. calm' => calm /\ ~run'[p].hit /\ CalmStage(p)' /\ Busy(p)'
  BY <1>1, <1>2, <1>6, <1>10 DEF CalmStage, Whole, Stage, LoadStage, Gone, Files
<1>12. shown = Absent
  BY <1>1 DEF CertInv, ShownInv, Follows
<1>13. Carries(p)' /\ made <= made'
  BY <1>2, <1>3, <1>6 DEF Carries
<1> QED BY <1>1, <1>2, <1>7, <1>9, <1>11, <1>12, <1>13, Assemble

LEMMA FileDoneFacts ==
  ASSUME TlsTypeOK, NEW p \in Procs, run[p].pair \in Pairs, FileDone(p)
  PROVE  /\ run' \in [Procs -> Tuple] /\ Others(p)
         /\ run'[p].cmd = run[p].cmd /\ run'[p].hit = run[p].hit
         /\ run'[p].own = run[p].own /\ run'[p].pair = run[p].pair
         /\ \/ /\ run[p].file = "cert" /\ run'[p].file = "key" /\ At(p, "create")' /\ shown' = shown
            \/ /\ run[p].file = "key" /\ run'[p].file = "ca" /\ At(p, "create")' /\ shown' = shown
            \/ /\ run[p].file = "ca" /\ run[p].cmd = "listen" /\ At(p, "serving")'
               /\ shown' = IF run[p].hit THEN shown ELSE run[p].pair
            \/ /\ run[p].file = "ca" /\ run[p].cmd # "listen" /\ At(p, "readCert")'
               /\ run'[p].phase = "verify" /\ shown' = shown
<1>1. run[p] \in Tuple /\ run \in [Procs -> Tuple]
  BY Types
<1>2. CASE run[p].file = "ca"
  <2>1. HavePair(p, run[p].pair)
    BY <1>2 DEF FileDone, After
  <2> QED BY <1>2, <2>1, HavePairFacts DEF At
<1>3. CASE run[p].file = "key"
  <2>1. run' = [run EXCEPT ![p].at = "create", ![p].file = "ca"] /\ shown' = shown
    BY <1>3 DEF FileDone, After
  <2> QED BY <1>1, <1>3, <2>1 DEF Others, Tuple, Files, At
<1>4. CASE run[p].file = "cert"
  <2>1. run' = [run EXCEPT ![p].at = "create", ![p].file = "key"] /\ shown' = shown
    BY <1>4 DEF FileDone, After
  <2> QED BY <1>1, <1>4, <2>1 DEF Others, Tuple, Files, At
<1> QED BY <1>1, <1>2, <1>3, <1>4 DEF Tuple, Files

\* A file of the pair is settled: it was there, or it has just been written.
LEMMA Settled ==
  ASSUME CertInv, NEW p \in Procs, run[p].at \in {"create", "write"}, FileDone(p),
         UNCHANGED <<made, expired, errors, crashes, calm>>,
         disk' \in [Files -> {Absent} \cup Pairs \cup Procs],
         \A f \in Files : f # run[p].file => disk'[f] = disk[f],
         \/ At(p, "create") /\ Exists(run[p].file) /\ disk' = disk
         \/ At(p, "write") /\ disk'[run[p].file] = IF disk[run[p].file] = p THEN run[p].pair
                                                    ELSE disk[run[p].file]
  PROVE  CertInv'
<1> USE DEF At, Busy, Resting
<1> DEFINE g == run[p].pair
           f == run[p].file
<1>1. TlsTypeOK /\ Busy(p) /\ run[p] \in Tuple /\ f \in Files
  BY Types DEF CertInv, Tuple
<1>2. g \in Pairs /\ Pairs' = Pairs /\ g # Absent /\ g # p
  BY <1>1, Types DEF CertInv, Carries, Pairs, Absent
<1>3. /\ run' \in [Procs -> Tuple] /\ Others(p)
      /\ run'[p].cmd = run[p].cmd /\ run'[p].hit = run[p].hit
      /\ run'[p].own = run[p].own /\ run'[p].pair = g
      /\ \/ /\ f = "cert" /\ run'[p].file = "key" /\ At(p, "create")' /\ shown' = shown
         \/ /\ f = "key" /\ run'[p].file = "ca" /\ At(p, "create")' /\ shown' = shown
         \/ /\ f = "ca" /\ run[p].cmd = "listen" /\ At(p, "serving")'
            /\ shown' = IF run[p].hit THEN shown ELSE g
         \/ /\ f = "ca" /\ run[p].cmd # "listen" /\ At(p, "readCert")'
            /\ run'[p].phase = "verify" /\ shown' = shown
  BY <1>1, <1>2, FileDoneFacts
<1>4. \A h \in Files, q \in Procs : disk'[h] = q =>
        IF q = p THEN Writing(p, h)' \/ crashes > 0 ELSE disk[h] = q
  <2> SUFFICES ASSUME NEW h \in Files, NEW q \in Procs, disk'[h] = q
               PROVE  IF q = p THEN crashes > 0 ELSE disk[h] = q
    OBVIOUS
  <2>1. disk[h] = q /\ (q = p => ~Writing(p, h))
    BY <1>1, <1>2, Types DEF Writing, CertInv, Exists
  <2> QED BY <1>1, <2>1 DEF TlsTypeOK
\* What a lone command knows once the file is settled.
<1>5. Stage(p) => /\ f # "ca" \/ At(p, "write") => disk'[f] = g
                  /\ f \in {"key", "ca"} => Same("cert", g)'
                  /\ f = "ca" => Same("key", g)'
                  /\ f = "cert" => Gone("key")'
  <2> SUFFICES ASSUME Stage(p)
               PROVE  /\ f # "ca" \/ At(p, "write") => disk'[f] = g
                      /\ f \in {"key", "ca"} => Same("cert", g)'
                      /\ f = "ca" => Same("key", g)'
                      /\ f = "cert" => Gone("key")'
    OBVIOUS
  <2>1. NewPairStage(p)
    BY DEF Stage
  <2>2. CASE At(p, "create")
    BY <1>2, <1>3, <2>1, <2>2 DEF NewPairStage, Same, Gone, Exists, Files
  <2>3. CASE At(p, "write")
    BY <1>2, <1>3, <2>1, <2>3 DEF NewPairStage, Same, Gone, Exists, Files
  <2> QED BY <2>2, <2>3
<1>6. Stage(p) /\ run[p].cmd = "force" => /\ f # "ca" => Gone("ca")'
                                          /\ g > expired /\ run[p].own = g /\ disk'[f] = g
  BY <1>1, <1>5 DEF Stage, ForceStage, Gone, Exists, Files
<1>7. Stage(p) /\ Busy(p)' => Stage(p)'
  <2> SUFFICES ASSUME Stage(p), Busy(p)' PROVE Stage(p)'
    OBVIOUS
  <2>1. RemovingStage(p)' /\ LoadStage(p)'
    BY <1>3 DEF RemovingStage, LoadStage
  <2>2. NewPairStage(p)'
    BY <1>3, <1>5 DEF NewPairStage, Same, Gone
  <2>3. ForceStage(p)'
    BY <1>2, <1>3, <1>5, <1>6 DEF ForceStage, Same, Gone, Files
  <2> QED BY <2>1, <2>2, <2>3 DEF Stage
<1>8. Stage(p) /\ CalmStage(p) => IF Busy(p)' THEN CalmStage(p)' ELSE Whole'
  <2> SUFFICES ASSUME Stage(p), CalmStage(p) PROVE IF Busy(p)' THEN CalmStage(p)' ELSE Whole'
    OBVIOUS
  <2>1. ASSUME f = "ca" PROVE Whole'
    <3>1. disk'[f] = g
      BY <1>1, <1>5, <2>1 DEF CalmStage, Gone, Exists
    <3> QED BY <1>3, <1>5, <2>1, <3>1 DEF Whole, Same, Files
  <2>2. f # "ca" => Gone("ca")'
    BY <1>1 DEF CalmStage, Gone, Files
  <2> QED BY <1>3, <2>1, <2>2 DEF CalmStage
<1>9. Carries(p)'
  BY <1>2, <1>3 DEF Carries
<1>10. \/ /\ shown' = shown
          /\ shown # Absent /\ Follows(p) /\ Same("cert", shown) /\ Same("key", shown)
               => Same("cert", shown)' /\ Same("key", shown)' /\ (Busy(p)' => Follows(p)')
       \/ /\ Lone(p) /\ shown' \in Pairs /\ ~Busy(p)'
          /\ Stage(p) => Same("cert", shown)' /\ Same("key", shown)'
  <2>1. CASE shown' = shown
    BY <1>1, <1>3, <2>1 DEF Follows, Same, Files
  <2>2. CASE shown' # shown
    BY <1>1, <1>2, <1>3, <1>5, <2>2 DEF Lone, Same
  <2> QED BY <2>1, <2>2
<1> HIDE DEF g, f
<1> QED BY <1>1, <1>3, <1>4, <1>7, <1>8, <1>9, <1>10, Acting

LEMMA CreateStep == ASSUME CertInv, NEW p \in Procs, Create(p) PROVE CertInv'
<1> USE DEF At, Busy, Resting
<1> DEFINE f == run[p].file
<1>1. /\ TlsTypeOK /\ Busy(p) /\ run[p] \in Tuple /\ run \in [Procs -> Tuple] /\ At(p, "create")
      /\ disk \in [Files -> {Absent} \cup Pairs \cup Procs] /\ p # Absent
      /\ f \in Files
  BY Types DEF CertInv, Create, Tuple
<1>2. UNCHANGED <<made, expired, errors, crashes, calm>>
  BY DEF Create
<1>3. CASE Exists(f)
  BY <1>1, <1>2, <1>3, Settled DEF Create
<1>4. CASE ~Exists(f)
  <2>1. Goto(p, "write") /\ disk' = [disk EXCEPT ![f] = p] /\ shown' = shown /\ Gone(f)
    BY <1>4 DEF Create, Exists, Gone
  <2>2. /\ run' \in [Procs -> Tuple] /\ Others(p) /\ At(p, "write")' /\ run'[p].file = f
        /\ run'[p].cmd = run[p].cmd /\ run'[p].hit = run[p].hit
        /\ run'[p].own = run[p].own /\ run'[p].pair = run[p].pair
    BY <1>1, <2>1, GotoFacts DEF States
  <2>3. disk' \in [Files -> {Absent} \cup Pairs \cup Procs]
    BY <1>1, <2>1
  <2>4. \A h \in Files, q \in Procs : disk'[h] = q =>
          IF q = p THEN Writing(p, h)' \/ crashes > 0 ELSE disk[h] = q
    BY <1>1, <2>1, <2>2 DEF TlsTypeOK, Writing
  <2>5. Stage(p) => Stage(p)'
    BY <1>1, <1>2, <2>1, <2>2
       DEF Stage, RemovingStage, NewPairStage, LoadStage, ForceStage, Same, Gone, Files, Pairs
  <2>6. CalmStage(p) => CalmStage(p)'
    BY <1>1, <2>1, <2>2 DEF CalmStage, Gone, Files
  <2>7. Carries(p)'
    BY <1>1, <1>2, <2>2 DEF CertInv, Carries, Pairs
  <2>8. Follows(p) /\ Same("cert", shown) /\ Same("key", shown)
          => Same("cert", shown)' /\ Same("key", shown)' /\ Follows(p)'
    BY <1>1, <2>1, <2>2 DEF Follows, Same, Files
  <2> HIDE DEF f
  <2> QED BY <1>1, <1>2, <2>1, <2>2, <2>3, <2>4, <2>5, <2>6, <2>7, <2>8, Acting
<1> QED BY <1>3, <1>4

LEMMA WriteStep == ASSUME CertInv, NEW p \in Procs, Write(p) PROVE CertInv'
<1>1. /\ run[p].at = "write" /\ run[p].file \in Files /\ run[p].pair \in Pairs
      /\ disk \in [Files -> {Absent} \cup Pairs \cup Procs]
  BY Types DEF CertInv, Write, At, Tuple, Carries
<1>2. disk' = IF disk[run[p].file] = p
              THEN [disk EXCEPT ![run[p].file] = run[p].pair] ELSE disk
  BY DEF Write
<1>3. /\ disk' \in [Files -> {Absent} \cup Pairs \cup Procs]
      /\ \A f \in Files : f # run[p].file => disk'[f] = disk[f]
      /\ disk'[run[p].file] = IF disk[run[p].file] = p THEN run[p].pair ELSE disk[run[p].file]
  BY <1>1, <1>2
<1> QED BY <1>1, <1>3, Settled DEF Write, At

-----------------------------------------------------------------------------
(* Failures, and the steps around a command *)

LEMMA FileErrorStep == ASSUME CertInv, NEW p \in Procs, FileError(p) PROVE CertInv'
<1> USE DEF At, Busy, Resting
<1>1. /\ TlsTypeOK /\ Busy(p) /\ run[p] \in Tuple /\ run \in [Procs -> Tuple] /\ Pairs' = Pairs
      /\ disk \in [Files -> {Absent} \cup Pairs \cup Procs] /\ run[p].file \in Files /\ p # Absent
  BY Types DEF CertInv, FileError, Tuple, Pairs
<1>2. /\ UNCHANGED <<made, expired, crashes, shown>> /\ calm' = FALSE /\ errors' = errors + 1
      /\ errors < MaxErrors /\ disk' = Undone(p)
      /\ run' = [run EXCEPT ![p].at = "failed", ![p].hit = TRUE]
  BY DEF FileError
<1>3. /\ run' \in [Procs -> Tuple'] /\ Others(p) /\ At(p, "failed")' /\ run'[p].hit
      /\ run'[p].cmd = run[p].cmd
  BY <1>1, <1>2 DEF Others, Tuple
<1>4. disk' \in [Files -> {Absent} \cup Pairs' \cup Procs]
  BY <1>1, <1>2 DEF Undone
<1>5. \A f \in Files : disk'[f] = disk[f] \/ (At(p, "write") /\ f = run[p].file /\ disk'[f] = Absent)
  BY <1>1, <1>2 DEF Undone
<1>6. TlsTypeOK' /\ Moves(p)
  <2>1. /\ made' \in Nat /\ expired' \in 0 .. made' /\ errors' \in 0 .. MaxErrors
        /\ crashes' \in 0 .. MaxCrashes /\ crashes <= crashes' /\ calm' \in BOOLEAN
        /\ shown' \in {Absent} \cup Pairs'
    <3>1. MaxErrors \in Nat /\ MaxCrashes \in Nat
      BY TlsCertAssumption
    <3>2. calm' \in BOOLEAN
      BY <1>2
    <3>3. errors' \in 0 .. MaxErrors /\ crashes' \in 0 .. MaxCrashes /\ crashes <= crashes'
      BY <1>1, <1>2, <3>1 DEF TlsTypeOK
    <3> QED BY <1>1, <1>2, <3>2, <3>3 DEF TlsTypeOK
  <2>2. Absent \notin Procs
    BY TlsCertAssumption DEF Absent
  <2>3. \A f \in Files, q \in Procs : disk'[f] = q =>
          IF q = p THEN Writing(p, f)' \/ crashes' > 0 ELSE disk[f] = q
    <3> SUFFICES ASSUME NEW f \in Files, NEW q \in Procs, disk'[f] = q
                 PROVE  disk[f] = q /\ (q = p => crashes' > 0)
      OBVIOUS
    <3>1. disk[f] = q
      BY <1>5, <2>2
    <3>2. ASSUME Writing(p, f) PROVE disk'[f] = Absent \/ disk[f] # p
      BY <1>1, <1>2, <3>2 DEF Writing, Undone
    <3> QED BY <1>1, <1>2, <2>2, <3>1, <3>2 DEF TlsTypeOK
  <2> QED BY <1>1, <1>3, <1>4, <2>1, <2>3, Going
<1>7. shown # Absent => Same("cert", shown)' /\ Same("key", shown)'
  BY <1>1, <1>2, <1>5 DEF CertInv, ShownInv, Follows, Same, Files
<1>8. Carries(p)' /\ made <= made' /\ ~Lone(p)'
  BY <1>1, <1>2, <1>3, Types DEF Carries, Lone
<1> QED BY <1>1, <1>2, <1>3, <1>6, <1>7, <1>8, Assemble

LEMMA CrashStep == ASSUME CertInv, NEW p \in Procs, Crash(p) PROVE CertInv'
<1> USE DEF At, Busy, Resting
<1>1. /\ TlsTypeOK /\ Busy(p) /\ run[p] \in Tuple /\ run \in [Procs -> Tuple] /\ Pairs' = Pairs
  BY Types DEF CertInv, Crash, Pairs
<1>2. /\ UNCHANGED <<disk, made, expired, errors, shown>> /\ calm' = FALSE /\ crashes' = crashes + 1
      /\ crashes < MaxCrashes /\ run' = [run EXCEPT ![p].at = "idle", ![p].hit = TRUE]
  BY DEF Crash
<1>3. /\ run' \in [Procs -> Tuple'] /\ Others(p) /\ At(p, "idle")' /\ run'[p].hit
      /\ run'[p].cmd = run[p].cmd
  BY <1>1, <1>2 DEF Others, Tuple
<1>4. TlsTypeOK' /\ Moves(p)
  <2>1. /\ made' \in Nat /\ expired' \in 0 .. made' /\ errors' \in 0 .. MaxErrors
        /\ crashes' \in 0 .. MaxCrashes /\ crashes <= crashes' /\ crashes' > 0 /\ calm' \in BOOLEAN
        /\ shown' \in {Absent} \cup Pairs' /\ disk' \in [Files -> {Absent} \cup Pairs' \cup Procs]
    <3>1. MaxErrors \in Nat /\ MaxCrashes \in Nat
      BY TlsCertAssumption
    <3>2. disk \in [Files -> {Absent} \cup Pairs \cup Procs]
      BY <1>1, Types
    <3>3. calm' \in BOOLEAN
      BY <1>2
    <3>4. /\ errors' \in 0 .. MaxErrors /\ crashes' \in 0 .. MaxCrashes
          /\ crashes <= crashes' /\ crashes' > 0
      BY <1>1, <1>2, <3>1 DEF TlsTypeOK
    <3> QED BY <1>1, <1>2, <3>2, <3>3, <3>4 DEF TlsTypeOK
  <2>2. \A f \in Files, q \in Procs : disk'[f] = q =>
          IF q = p THEN Writing(p, f)' \/ crashes' > 0 ELSE disk[f] = q
    BY <1>2, <2>1
  <2> QED BY <1>1, <1>3, <2>1, <2>2, Going
<1>5. Carries(p)' /\ made <= made' /\ ~Lone(p)'
  BY <1>1, <1>2, <1>3, Types DEF Carries, Lone
<1>6. shown # Absent => Same("cert", shown)' /\ Same("key", shown)'
  BY <1>2 DEF CertInv, ShownInv, Same
<1> QED BY <1>1, <1>2, <1>3, <1>4, <1>5, <1>6, Assemble

LEMMA StopStep == ASSUME CertInv, NEW p \in Procs, Stop(p) PROVE CertInv'
<1>1. /\ TlsTypeOK /\ run \in [Procs -> Tuple] /\ Pairs' = Pairs /\ run[p].at = "serving"
      /\ run' = [run EXCEPT ![p].at = "idle"]
      /\ UNCHANGED <<disk, made, expired, errors, crashes, calm, shown>>
  BY Types DEF CertInv, Stop, At, Goto, Kept, Pairs
<1>2. /\ run' \in [Procs -> Tuple] /\ run'[p].at = "idle"
      /\ \A q \in Procs : q # p => run'[q] = run[q]
  BY <1>1 DEF Tuple, Resting
<1>3. \A q \in Procs : Busy(q)' = Busy(q) /\ (Busy(q) => q # p)
  BY <1>1, <1>2 DEF Busy, Resting
<1>4. TlsTypeOK'
  BY <1>1, <1>2, <1>3 DEF TlsTypeOK, Tuple, Writing, Resting
<1>5. Alone' /\ \A q \in Procs : Lone(q)' = Lone(q) /\ (Lone(q) => q # p)
  BY <1>2, <1>3 DEF CertInv, Alone, Lone
<1>6. \A q \in Procs : Carries(q)' /\ (Lone(q) => Stage(q))'
  BY <1>1, <1>2, <1>5 DEF CertInv, Carries, Stage, RemovingStage, NewPairStage, LoadStage,
                          ForceStage, Same, Gone, At
<1>7. CalmInv'
  BY <1>1, <1>2, <1>3 DEF CertInv, CalmInv, CalmStage, Whole, Same, Gone, At
<1>8. ShownInv'
  BY <1>1, <1>2, <1>3 DEF CertInv, ShownInv, Follows, Same
<1> QED BY <1>4, <1>5, <1>6, <1>7, <1>8 DEF CertInv

LEMMA ExpireStep == ASSUME CertInv, Expire PROVE CertInv'
<1>1. /\ made \in Nat /\ expired \in Nat /\ expired < made /\ expired' = expired + 1 /\ Pairs' = Pairs
      /\ UNCHANGED <<disk, made, run, errors, crashes, calm, shown>>
      /\ \A p \in Procs : Busy(p) => run[p].own # expired + 1
  BY DEF CertInv, TlsTypeOK, Expire, Pairs
<1>2. TlsTypeOK'
  BY <1>1 DEF CertInv, TlsTypeOK, Writing
<1>3. ASSUME NEW p \in Procs, Lone(p) PROVE Stage(p)'
  <2>1. Stage(p) /\ run[p].own # expired + 1
    BY <1>1, <1>3 DEF CertInv, Lone
  <2>2. RemovingStage(p)' /\ NewPairStage(p)' /\ LoadStage(p)'
    BY <1>1, <2>1 DEF Stage, RemovingStage, NewPairStage, LoadStage, Same, Gone, At
  <2>3. ForceStage(p)'
    BY <1>1, <2>1 DEF Stage, ForceStage, Same, Gone, At, Pairs
  <2> QED BY <2>2, <2>3 DEF Stage
<1>4. Alone' /\ CalmInv' /\ ShownInv'
  BY <1>1 DEF CertInv, Alone, CalmInv, CalmStage, Whole, ShownInv, Follows, Same, Gone, At, Busy, Lone
<1>5. \A p \in Procs : Carries(p)' /\ (Lone(p)' => Lone(p))
  BY <1>1 DEF CertInv, Carries, Lone, Busy
<1> QED BY <1>2, <1>3, <1>4, <1>5 DEF CertInv

LEMMA BeginStep ==
  ASSUME CertInv, NEW p \in Procs, NEW c \in Commands, Begin(p, c) PROVE CertInv'
<1> DEFINE others == {q \in Procs \ {p} : Busy(q)}
<1>1. /\ TlsTypeOK /\ run \in [Procs -> Tuple] /\ Pairs' = Pairs /\ ~Busy(p)
      /\ UNCHANGED <<disk, made, expired, errors, crashes, shown>>
      /\ calm' = (calm /\ others = {})
  BY Types DEF CertInv, Begin, Pairs
<1>2. /\ run' \in [Procs -> Tuple]
      /\ run'[p].cmd = c /\ run'[p].file = "cert" /\ run'[p].hit = (others # {}) /\ Busy(p)'
      /\ \/ c = "force" /\ run'[p].at = "removing" /\ run'[p].phase = "force"
         \/ c = "verify" /\ run'[p].at = "readCert"
         \/ c \in {"listen", "tls"} /\ run'[p].at = "statCert"
      /\ \A q \in Procs \ {p} : run'[q] = [run[q] EXCEPT !.hit = @ \/ q \in others]
  <2> DEFINE at == CASE c = "force" -> "removing" [] c = "verify" -> "readCert" [] OTHER -> "statCert"
             phase == CASE c \in {"force", "verify"} -> c [] OTHER -> "load"
             begun == [cmd |-> c, file |-> "cert", pair |-> Absent, own |-> Absent, hit |-> others # {},
                       at |-> at, phase |-> phase]
  <2>1. run' = [q \in Procs |-> IF q = p THEN begun ELSE [run[q] EXCEPT !.hit = @ \/ q \in others]]
    BY DEF Begin
  <2>2. /\ at \in {"removing", "readCert", "statCert"} /\ phase \in {"force", "verify", "load"}
        /\ \/ c = "force" /\ at = "removing" /\ phase = "force"
           \/ c = "verify" /\ at = "readCert"
           \/ c \in {"listen", "tls"} /\ at = "statCert"
    BY DEF Commands
  <2> HIDE DEF at, phase
  <2>3. begun \in Tuple
    BY <2>2 DEF Tuple, Files
  <2>4. \A q \in Procs : [run[q] EXCEPT !.hit = @ \/ q \in others] \in Tuple
    BY <1>1 DEF Tuple
  <2>5. run'[p] = begun
    BY <2>1
  <2> HIDE DEF others
  <2> QED BY <2>1, <2>2, <2>3, <2>4, <2>5 DEF Busy, Resting
<1>3. \A q \in Procs \ {p} :
        /\ run'[q].cmd = run[q].cmd /\ run'[q].at = run[q].at /\ run'[q].phase = run[q].phase
        /\ run'[q].file = run[q].file /\ run'[q].pair = run[q].pair
        /\ run'[q].hit = (run[q].hit \/ q \in others) /\ (Busy(q)' <=> Busy(q))
  BY <1>1, <1>2 DEF Tuple, Busy
<1>4. TlsTypeOK'
  BY <1>1, <1>2, <1>3 DEF TlsTypeOK, Tuple, Writing, Busy, Resting
<1>5. \A q \in Procs : Lone(q)' => q = p /\ others = {}
  BY <1>2, <1>3 DEF Lone
<1>6. Alone'
  BY <1>3, <1>5 DEF Alone
<1>7. \A q \in Procs : Carries(q)'
  BY <1>1, <1>2, <1>3 DEF CertInv, Carries
<1>8. Stage(p)'
  BY <1>2 DEF Stage, RemovingStage, NewPairStage, LoadStage, ForceStage, At
<1>9. CalmInv'
  <2>1. calm' => Whole' /\ \A q \in Procs : Busy(q)' => q = p
    BY <1>1, <1>3 DEF CertInv, CalmInv, Whole
  <2>2. Whole' => CalmStage(p)'
    BY <1>2 DEF CalmStage, At
  <2> QED BY <1>1, <1>2, <2>1, <2>2 DEF CalmInv
<1>10. ShownInv'
  BY <1>1, <1>2, <1>3 DEF CertInv, ShownInv, Follows, Same
<1> HIDE DEF others
<1> QED BY <1>4, <1>5, <1>6, <1>7, <1>8, <1>9, <1>10 DEF CertInv

-----------------------------------------------------------------------------
(* Every step, and the theorems *)

LEMMA CertInit == Init => CertInv
<1> SUFFICES ASSUME Init PROVE CertInv
  OBVIOUS
<1>1. \A p \in Procs : ~Busy(p) /\ run[p].at = "idle"
  BY DEF Init, Busy, Resting
<1>2. TlsTypeOK
  BY <1>1, TlsCertAssumption DEF Init, TlsTypeOK, Files, Absent, Commands, Resting, Pairs
<1>3. Whole /\ shown = Absent
  BY DEF Init, Whole
<1> QED BY <1>1, <1>2, <1>3 DEF CertInv, Alone, Lone, Carries, CalmInv, ShownInv

LEMMA CertStep == CertInv /\ [Next]_vars => CertInv'
<1> SUFFICES ASSUME CertInv, [Next]_vars PROVE CertInv'
  OBVIOUS
<1>1. CASE Expire
  BY <1>1, ExpireStep
<1>2. ASSUME NEW p \in Procs, Step(p) PROVE CertInv'
  BY <1>2, BeginStep, RemoveStep, StatCertStep, StatKeyStep, GenerateStep, ReadCertStep,
     ReadKeyStep, StatCAStep, CreateStep, WriteStep, FileErrorStep, VerifySteps, StopStep,
     CrashStep DEF Step
<1>3. CASE UNCHANGED vars
  BY <1>3 DEF vars, CertInv, TlsTypeOK, Alone, Stage, RemovingStage, NewPairStage, LoadStage,
              ForceStage, CalmInv, CalmStage, ShownInv, Follows, Carries, Whole, Same, Gone, At,
              Busy, Lone, Writing, Pairs
<1> QED BY <1>1, <1>2, <1>3 DEF Next

LEMMA Invariance == Spec => []CertInv
BY CertInit, CertStep, PTL DEF Spec

\* The types, with the one that matters: an empty file is being written by its
\* creator, or somebody was killed.
THEOREM TlsTypeCorrect == Spec => []TlsTypeOK
<1>1. CertInv => TlsTypeOK
  BY DEF CertInv
<1> QED BY <1>1, Invariance, PTL

\* Without a crash, a failed call or two commands at once every command leaves
\* the three files whole.
THEOREM OnlyFaultsLeaveAMessHolds == Spec => []OnlyFaultsLeaveAMess
<1>1. CertInv => OnlyFaultsLeaveAMess
  BY DEF CertInv, CalmInv, OnlyFaultsLeaveAMess
<1> QED BY <1>1, Invariance, PTL

\* A step of one process leaves the others where they are.
LEMMA OwnStep ==
  ASSUME CertInv, NEW p \in Procs, NEW q \in Procs, q # p, Step(q)
  PROVE  run'[p].at = run[p].at
<1>1. run \in [Procs -> Tuple] /\ run[p] \in Tuple
  BY Types DEF CertInv
<1>2. ASSUME NEW a, Goto(q, a) PROVE run'[p].at = run[p].at
  BY <1>1, <1>2 DEF Goto
<1>3. ASSUME NEW g, HavePair(q, g) PROVE run'[p].at = run[p].at
  BY <1>1, <1>3 DEF HavePair
<1>4. ASSUME FileDone(q) PROVE run'[p].at = run[p].at
  BY <1>1, <1>3, <1>4 DEF FileDone
<1>5. ASSUME NEW c \in Commands, Begin(q, c) PROVE run'[p].at = run[p].at
  <2>1. run'[p] = [run[p] EXCEPT !.hit = @ \/ p \in {r \in Procs \ {q} : Busy(r)}]
    BY <1>5 DEF Begin
  <2> QED BY <1>1, <2>1 DEF Tuple
<1>6. ASSUME Remove(q) PROVE run'[p].at = run[p].at
  BY <1>1, <1>2, <1>6 DEF Remove
<1>7. ASSUME ReadKey(q) PROVE run'[p].at = run[p].at
  BY <1>1, <1>2, <1>3, <1>7 DEF ReadKey
<1>8. ASSUME ReadCert(q) PROVE run'[p].at = run[p].at
  BY <1>1, <1>2, <1>8 DEF ReadCert
<1>9. ASSUME StatCA(q) PROVE run'[p].at = run[p].at
  BY <1>1, <1>3, <1>9 DEF StatCA
<1>10. ASSUME Create(q) PROVE run'[p].at = run[p].at
  BY <1>2, <1>4, <1>10 DEF Create
<1>11. ASSUME Generate(q) \/ FileError(q) \/ Crash(q) PROVE run'[p].at = run[p].at
  BY <1>1, <1>11 DEF Generate, FileError, Crash
<1>12. ASSUME StatCert(q) \/ StatKey(q) \/ VerifyCA(q) \/ CertExpiry(q) \/ Stop(q)
       PROVE  run'[p].at = run[p].at
  BY <1>2, <1>12 DEF StatCert, StatKey, VerifyCA, CertExpiry, Stop
<1> QED BY <1>4, <1>5, <1>6, <1>7, <1>8, <1>9, <1>10, <1>11, <1>12 DEF Step, Write

\* A listener comes to serve by having the pair it carries.
LEMMA ToServing ==
  ASSUME CertInv, NEW p \in Procs, Step(p), ~At(p, "serving"), run'[p].at = "serving"
  PROVE  run[p].at \in {"readKey", "statCA", "create", "write"} /\ run'[p].pair = run[p].pair
<1> DEFINE g == run[p].pair
<1>1. TlsTypeOK /\ run \in [Procs -> Tuple] /\ run[p] \in Tuple
  BY Types DEF CertInv
<1>2. ~\E a \in States \ {"serving"} : Goto(p, a)
  BY <1>1, GotoFacts
<1>3. ASSUME g \in Pairs, HavePair(p, g) PROVE run'[p].pair = g
  BY <1>1, <1>3, HavePairFacts
<1>4. ASSUME g \in Pairs, FileDone(p) PROVE run'[p].pair = g
  BY <1>1, <1>4, FileDoneFacts
<1>5. run[p].at \in {"readKey", "statCA", "create", "write"} => g \in Pairs
  BY DEF CertInv, Carries
<1>6. ~StatCert(p) /\ ~StatKey(p) /\ ~VerifyCA(p) /\ ~CertExpiry(p) /\ ~Stop(p)
  BY <1>2 DEF StatCert, StatKey, VerifyCA, CertExpiry, Stop, States, Resting
<1>7. ~Remove(p)
  BY <1>1, <1>2 DEF Remove, At, States, Resting, Tuple
<1>8. ~ReadCert(p)
  BY <1>1, <1>2 DEF ReadCert, At, States, Resting, Tuple
<1>9. ~Generate(p) /\ ~FileError(p) /\ ~Crash(p)
  BY <1>1 DEF Generate, FileError, Crash, Tuple
<1>10. \A c \in Commands : ~Begin(p, c)
  <2> SUFFICES ASSUME NEW c \in Commands, Begin(p, c) PROVE FALSE
    OBVIOUS
  <2>1. run'[p].at \in {"removing", "readCert", "statCert"}
    BY DEF Begin, Commands
  <2> QED BY <2>1
<1>11. ASSUME ReadKey(p) PROVE At(p, "readKey") /\ HavePair(p, g)
  BY <1>1, <1>2, <1>11 DEF ReadKey, At, States, Resting, Tuple
<1>12. ASSUME StatCA(p) PROVE At(p, "statCA") /\ HavePair(p, g)
  BY <1>1, <1>12 DEF StatCA, Tuple
<1>13. ASSUME Create(p) \/ Write(p) PROVE run[p].at \in {"create", "write"} /\ FileDone(p)
  BY <1>2, <1>13 DEF Create, Write, At, States, Resting
<1> QED BY <1>3, <1>4, <1>5, <1>6, <1>7, <1>8, <1>9, <1>10, <1>11, <1>12, <1>13 DEF Step, At

\* Once a pair has been shown by a listener that met nobody, every listener
\* that starts serves it until a command removes it, whatever fails meanwhile.
THEOREM StableIdentityHolds == Spec => StableIdentity
<1>1. CertInv /\ [Next]_vars =>
        \A p \in Procs : (shown # Absent /\ ~At(p, "serving") /\ run'[p].at = "serving")
                           => run'[p].pair = shown
  <2> SUFFICES ASSUME CertInv, [Next]_vars, NEW p \in Procs, shown # Absent,
                      ~At(p, "serving"), run'[p].at = "serving"
               PROVE  run'[p].pair = shown
    OBVIOUS
  <2>1. Step(p)
    BY OwnStep DEF Next, Expire, vars, At
  <2>2. /\ run[p].at \in {"readKey", "statCA", "create", "write"}
        /\ run'[p].pair = run[p].pair
    BY <2>1, ToServing
  <2>3. Follows(p)
    BY <2>2 DEF CertInv, ShownInv, Busy, Resting
  <2> QED BY <2>2, <2>3 DEF Follows
<1> QED BY <1>1, Invariance, PTL DEF Spec, StableIdentity

\* What a lone gonetsim tls --force has to end with.
Repaired(p) == Whole /\ disk["cert"] > expired

LEMMA ToRest ==
  ASSUME CertInv, NEW p \in Procs, Step(p), run[p].cmd = "force", Busy(p),
         run'[p].at \in Resting, ~run'[p].hit
  PROVE  run'[p].at = "ok" /\ Repaired(p)
<1> USE DEF At
<1>1. TlsTypeOK /\ run \in [Procs -> Tuple] /\ run[p] \in Tuple
  BY Types DEF CertInv
<1>2. /\ \A a \in States : Goto(p, a) => run'[p].at = a /\ run'[p].hit = run[p].hit
      /\ run[p].pair \in Pairs /\ FileDone(p) =>
           run'[p].at \in {"create", "readCert"} /\ run'[p].hit = run[p].hit
  BY <1>1, GotoFacts, FileDoneFacts
<1>3. \A a \in States \ Resting : ~Goto(p, a)
  BY <1>2
<1>4. run[p].pair \in Pairs => ~FileDone(p)
  BY <1>2 DEF Resting
<1>5. ~FileError(p) /\ ~Crash(p) /\ ~Stop(p) /\ ~Generate(p) /\ ~StatCert(p)
  BY <1>1, <1>3 DEF FileError, Crash, Stop, Generate, StatCert, Busy, States, Resting, Tuple
<1>6. \A c \in Commands : ~Begin(p, c)
  BY DEF Begin
<1>7. ~Create(p) /\ ~Write(p)
  <2>1. run[p].at \in {"create", "write"} => run[p].pair \in Pairs
    BY DEF CertInv, Carries
  <2> QED BY <1>3, <1>4, <2>1 DEF Create, Write, States, Resting
<1>8. ~Remove(p)
  <2>1. ASSUME Remove(p) PROVE run'[p].at \in {"removing", "statCert", "readCert"}
    <3>1. CASE run[p].file = "ca" /\ run[p].phase # "force"
      BY <1>1, <1>3, <2>1, <3>1 DEF Remove, After, States, Resting
    <3>2. CASE run[p].file # "ca" \/ run[p].phase = "force"
      BY <1>1, <2>1, <3>2 DEF Remove, After, Tuple, Files
    <3> QED BY <3>1, <3>2
  <2> QED BY <2>1 DEF Resting
<1>9. ASSUME ~run[p].hit PROVE Stage(p) /\ ForceStage(p)
  BY <1>9 DEF CertInv, Lone, Stage
<1>10. ~StatKey(p)
  BY <1>2, <1>3, <1>9 DEF StatKey, Exists, Gone, ForceStage, States, Resting, Files
<1>11. ~ReadCert(p)
  <2> SUFFICES ASSUME ReadCert(p) PROVE FALSE
    OBVIOUS
  <2>1. disk["cert"] \notin Pairs /\ Goto(p, "failed")
    BY <1>1 DEF ReadCert, Resting, Tuple
  <2> QED BY <1>2, <1>9, <2>1 DEF ReadCert, ForceStage, Same, States, Resting, Files
<1>12. ~StatCA(p)
  <2> SUFFICES ASSUME StatCA(p) PROVE FALSE
    OBVIOUS
  <2>1. run[p].pair \in Pairs
    BY DEF StatCA, CertInv, Carries
  <2>2. CASE Exists("ca")
    BY <1>1, <2>1, <2>2, HavePairFacts DEF StatCA, Resting
  <2>3. CASE ~Exists("ca")
    BY <1>1, <2>3 DEF StatCA, Resting, Tuple
  <2> QED BY <2>2, <2>3
<1>13. ~ReadKey(p)
  <2> SUFFICES ASSUME ReadKey(p) PROVE FALSE
    OBVIOUS
  <2>1. run[p].pair \in Pairs /\ run[p].at = "readKey"
    BY DEF ReadKey, CertInv, Carries
  <2>2. ~HavePair(p, run[p].pair)
    BY <1>1, <2>1, HavePairFacts DEF Resting
  <2>3. Goto(p, "failed") \/ Goto(p, "verifyCA") \/ run'[p].at \in {"removing", "statCA"}
    BY <1>1, <2>2 DEF ReadKey, Tuple
  <2>4. Goto(p, "failed")
    BY <1>3, <2>3 DEF States, Resting
  <2>5. ForceStage(p)
    BY <1>2, <1>9, <2>4 DEF States, Resting
  <2>6. disk["key"] = run[p].pair /\ run[p].phase = "verify" /\ ~Expired(run[p].pair)
    BY <1>1, <2>1, <2>5, Types DEF ForceStage, Same, Files, Expired
  <2>7. Goto(p, "verifyCA")
    BY <2>6 DEF ReadKey
  <2> QED BY <1>3, <2>7 DEF States, Resting
<1>14. ~VerifyCA(p)
  BY <1>2, <1>3, <1>9 DEF VerifyCA, ForceStage, Same, States, Resting, Files
<1>15. CertExpiry(p)
  BY <1>5, <1>6, <1>7, <1>8, <1>10, <1>11, <1>12, <1>13, <1>14 DEF Step
<1>16. run[p].at = "expiry" /\ ForceStage(p)
  BY <1>2, <1>9, <1>15 DEF CertExpiry, States, Resting
<1>17. Whole /\ disk["cert"] = run[p].pair /\ run[p].pair \in Pairs /\ run[p].pair > expired
  BY <1>16 DEF ForceStage, Same, Whole, Files
<1> QED BY <1>2, <1>15, <1>17 DEF CertExpiry, Repaired, States, Resting

\* gonetsim tls --force that meets nobody ends with one fresh pair in the three
\* files, whatever it found there.
THEOREM ForceRepairsHolds == Spec => ForceRepairs
<1>1. CertInv /\ [Next]_vars =>
        \A p \in Procs : (run[p].cmd = "force" /\ Busy(p) /\ run'[p].at \in Resting /\ ~run'[p].hit)
                           => run'[p].at = "ok" /\ Whole /\ disk["cert"] > expired
  <2> SUFFICES ASSUME CertInv, [Next]_vars, NEW p \in Procs, run[p].cmd = "force", Busy(p),
                      run'[p].at \in Resting, ~run'[p].hit
               PROVE  run'[p].at = "ok" /\ Whole /\ disk["cert"] > expired
    OBVIOUS
  <2>1. Step(p)
    BY OwnStep DEF Next, Expire, vars, Busy
  <2> QED BY <2>1, ToRest DEF Repaired
<1> QED BY <1>1, Invariance, PTL DEF Spec, ForceRepairs

\* A valid pair leaves the disk by --force, or by a command that met another.
THEOREM FreshPairSurvivesHolds == Spec => FreshPairSurvives
<1>1. CertInv /\ [Next]_vars =>
        ((disk["cert"] = disk["key"] /\ disk["cert"] \in Pairs /\ disk["cert"] > expired
            /\ (disk'["cert"] # disk["cert"] \/ disk'["key"] # disk["key"]))
         => \E p \in Procs : Busy(p) /\ (run[p].cmd = "force" \/ run[p].hit))
  <2> SUFFICES ASSUME CertInv, [Next]_vars, disk["cert"] = disk["key"], disk["cert"] \in Pairs,
                      disk["cert"] > expired, disk'["cert"] # disk["cert"] \/ disk'["key"] # disk["key"]
               PROVE  \E p \in Procs : Busy(p) /\ (run[p].cmd = "force" \/ run[p].hit)
    OBVIOUS
  <2>1. PICK p \in Procs : Remove(p) \/ Create(p) \/ Write(p) \/ FileError(p)
    BY DEF Next, Step, Expire, vars, Begin, StatCert, StatKey, Generate, ReadCert, ReadKey, StatCA,
           VerifyCA, CertExpiry, Stop, Crash, Kept
  <2>2. /\ run[p] \in Tuple /\ run[p].file \in Files /\ p \notin Pairs /\ Absent \notin Pairs
        /\ disk \in [Files -> {Absent} \cup Pairs \cup Procs]
        /\ Pairs = 1 .. made /\ made \in Nat /\ expired \in Nat
    BY Types DEF CertInv, Tuple, Pairs, Absent
  <2>3. Busy(p)
    BY <2>1 DEF Remove, Create, Write, FileError, Busy, Resting, At
  <2>4. ASSUME Lone(p), run[p].cmd # "force" PROVE FALSE
    <3>1. RemovingStage(p) /\ NewPairStage(p)
      BY <2>4 DEF CertInv, Stage
    <3>2. CASE Remove(p)
      BY <2>2, <2>4, <3>1, <3>2 DEF Remove, RemovingStage, At, Gone, Files
    <3>3. CASE Create(p)
      BY <2>2, <3>3 DEF Create, Exists, Files, Absent
    <3>4. CASE Write(p)
      BY <2>2, <3>4 DEF Write, Files
    <3>5. CASE FileError(p)
      BY <2>2, <3>1, <3>5 DEF FileError, Undone, NewPairStage, At, Files
    <3> QED BY <2>1, <3>2, <3>3, <3>4, <3>5
  <2> QED BY <2>3, <2>4 DEF Lone
<1> QED BY <1>1, Invariance, PTL DEF Spec, FreshPairSurvives

=============================================================================

------------------------------ MODULE TlsCert ------------------------------
(***************************************************************************)
(* The persisted certificate pair (internal/tlscert/cert.go) and the       *)
(* commands that use it: a listener run with --tls-cert, and gonetsim tls  *)
(* with --force or --verify-only (cmd/tls.go).  Several processes share    *)
(* the directory; each step below is one call on the file system, and a    *)
(* process may be killed between any two.                                  *)
(*                                                                         *)
(* GenerateSelfSignedWithCA makes a CA, a leaf signed by it and the leaf's *)
(* key: one number names all three, later ones expire later.  A file is    *)
(* absent, has the content of a pair, or is the empty file its creator has *)
(* not written yet, which nobody can parse.                                *)
(***************************************************************************)
EXTENDS Integers, FiniteSets

CONSTANTS
  Procs,       \* the processes that use the directory
  MaxPairs,    \* bound: pairs ever generated
  MaxErrors,   \* bound: calls on the file system that fail
  MaxCrashes   \* bound: processes killed in the middle

ASSUME TlsCertAssumption ==
  /\ {MaxPairs, MaxErrors, MaxCrashes} \subseteq Nat
  /\ \A p \in Procs : p \notin Nat

VARIABLES
  disk,      \* what each of the three files holds
  made,      \* how many pairs have been generated
  expired,   \* the pairs up to this one have expired
  run,       \* what each process is doing: its pair, the one it generated, whether
             \* it met another command or a failure (hit)
  errors, crashes,
  calm,      \* history: no call failed, no crash, no two commands at once
  shown      \* history: the pair a lone listener served, until a removal

vars == <<disk, made, expired, run, errors, crashes, calm, shown>>

Files == {"cert", "key", "ca"}
Absent == 0
Pairs == 1 .. made
Commands == {"listen", "tls", "force", "verify"}
Resting == {"idle", "ok", "failed", "serving"}

Busy(p) == run[p].at \notin Resting
Writing(p, f) == run[p].at = "write" /\ run[p].file = f

TlsTypeOK ==
  /\ made \in Nat /\ expired \in 0 .. made
  /\ disk \in [Files -> {Absent} \cup Pairs \cup Procs]
  /\ run \in [Procs ->
       [cmd   : Commands,
        at    : Resting \cup {"removing", "statCert", "certFound", "noCert", "readCert",
                              "readKey", "statCA", "create", "write", "verifyCA", "expiry"},
        phase : {"force", "load", "reload", "verify"},
        file  : Files,
        pair  : {Absent} \cup Pairs,
        own   : {Absent} \cup Pairs,
        hit   : BOOLEAN]]
  /\ errors \in 0 .. MaxErrors /\ crashes \in 0 .. MaxCrashes
  /\ calm \in BOOLEAN /\ shown \in {Absent} \cup Pairs
  /\ \A p \in Procs, f \in Files : disk[f] = p => Writing(p, f) \/ crashes > 0

Init ==
  /\ disk = [f \in Files |-> Absent]
  /\ made = 0 /\ expired = 0
  /\ run = [p \in Procs |-> [cmd |-> "listen", at |-> "idle", phase |-> "load",
                             file |-> "cert", pair |-> Absent, own |-> Absent,
                             hit |-> FALSE]]
  /\ errors = 0 /\ crashes = 0
  /\ calm = TRUE /\ shown = Absent

-----------------------------------------------------------------------------
(* Steps of a command *)

At(p, here) == run[p].at = here
Goto(p, at) == run' = [run EXCEPT ![p].at = at]
Exists(f) == disk[f] # Absent
Kept == UNCHANGED <<disk, made, expired, errors, crashes, calm, shown>>

MutFresh(g) == g <= made
Expired(g) == g <= expired

\* Any command can start; from here on it and the commands in progress have
\* met each other.  The bound leaves each of them a pair to generate.
Begin(p, c) ==
  /\ ~Busy(p) /\ ~At(p, "serving")
  /\ LET others == {q \in Procs \ {p} : Busy(q)} IN
       /\ c = "verify" \/ made + Cardinality(others) < MaxPairs
       /\ run' = [q \in Procs |->
            IF q = p
            THEN [cmd |-> c, file |-> "cert", pair |-> Absent, own |-> Absent, hit |-> others # {},
                  at    |-> CASE c = "force" -> "removing"
                              [] c = "verify" -> "readCert"
                              [] OTHER -> "statCert",
                  phase |-> CASE c \in {"force", "verify"} -> c
                              [] OTHER -> "load"]
            ELSE [run[q] EXCEPT !.hit = @ \/ q \in others]]
       /\ calm' = (calm /\ others = {})
  /\ UNCHANGED <<disk, made, expired, errors, crashes, shown>>

\* The order in which the files are removed, and in which they are written.
MutNoCA(f) == IF f = "cert" THEN "key" ELSE "done"
After(f) == CASE f = "cert" -> "key" [] f = "key" -> "ca" [] OTHER -> "done"

\* TLSConfig has the pair g: a listener serves it, gonetsim tls verifies what
\* is on the disk.
HavePair(p, g) ==
  IF run[p].cmd = "listen"
  THEN /\ run' = [run EXCEPT ![p].at = "serving", ![p].pair = g]
       /\ shown' = IF run[p].hit THEN shown ELSE g
  ELSE /\ run' = [run EXCEPT ![p].at = "readCert", ![p].phase = "verify", ![p].pair = g]
       /\ UNCHANGED shown

\* regeneratePersistedPair, one file at a time; a missing file is no error.
Remove(p) ==
  /\ At(p, "removing")
  /\ disk' = [disk EXCEPT ![run[p].file] = Absent]
  /\ LET next == After(run[p].file) IN
       CASE next # "done" -> run' = [run EXCEPT ![p].file = next]
         [] next = "done" /\ run[p].phase = "force" ->
              run' = [run EXCEPT ![p].at = "statCert", ![p].phase = "load"]
         [] OTHER -> Goto(p, "readCert")
  /\ shown' = Absent
  /\ UNCHANGED <<made, expired, errors, crashes, calm>>

StatCert(p) ==
  /\ At(p, "statCert")
  /\ Goto(p, IF Exists("cert") THEN "certFound" ELSE "noCert")
  /\ Kept

\* Both files are loaded, one alone is refused.
StatKey(p) ==
  /\ \/ At(p, "certFound") /\ Goto(p, IF Exists("key") THEN "readCert" ELSE "failed")
     \/ At(p, "noCert") /\ Exists("key") /\ Goto(p, "failed")
  /\ Kept

\* Neither file exists: a pair of its own, in memory first.
MutInMemory(p) ==
  /\ At(p, "noCert") /\ ~Exists("key")
  /\ made' = made + 1
  /\ HavePair(p, made + 1)
  /\ UNCHANGED <<disk, expired, errors, crashes, calm>>
Generate(p) ==
  /\ At(p, "noCert") /\ ~Exists("key")
  /\ made' = made + 1
  /\ run' = [run EXCEPT ![p].at = "create", ![p].file = "cert", ![p].pair = made + 1,
                        ![p].own = made + 1]
  /\ UNCHANGED <<disk, expired, errors, crashes, calm, shown>>

\* tls.LoadX509KeyPair reads the certificate, then the key, which must match.
ReadCert(p) ==
  /\ At(p, "readCert")
  /\ IF disk["cert"] \in Pairs
     THEN run' = [run EXCEPT ![p].at = "readKey", ![p].pair = disk["cert"]]
     ELSE Goto(p, "failed")
  /\ Kept

\* A loaded pair that has expired is removed and loaded again; another one has
\* its CA exported if it was not.  A verified pair must not have expired.
ReadKey(p) ==
  /\ At(p, "readKey")
  /\ LET g == run[p].pair IN
       CASE disk["key"] # g -> Goto(p, "failed") /\ UNCHANGED shown
         [] disk["key"] = g /\ run[p].phase = "reload" -> HavePair(p, g)
         [] disk["key"] = g /\ run[p].phase = "verify" ->
              Goto(p, IF Expired(g) THEN "failed" ELSE "verifyCA") /\ UNCHANGED shown
         [] OTHER ->
              /\ run' = IF Expired(g)
                        THEN [run EXCEPT ![p].at = "removing", ![p].phase = "reload",
                                         ![p].file = "cert"]
                        ELSE [run EXCEPT ![p].at = "statCA"]
              /\ UNCHANGED shown
  /\ UNCHANGED <<disk, made, expired, errors, crashes, calm>>

StatCA(p) ==
  /\ At(p, "statCA")
  /\ IF Exists("ca")
     THEN HavePair(p, run[p].pair)
     ELSE run' = [run EXCEPT ![p].at = "create", ![p].file = "ca"] /\ UNCHANGED shown
  /\ UNCHANGED <<disk, made, expired, errors, crashes, calm>>

\* On to the next file of the pair, or to the end of TLSConfig.
FileDone(p) ==
  LET next == After(run[p].file) IN
  IF next = "done"
  THEN HavePair(p, run[p].pair)
  ELSE run' = [run EXCEPT ![p].at = "create", ![p].file = next] /\ UNCHANGED shown

\* writeNewFile opens with O_EXCL and leaves a file that is there alone.
Create(p) ==
  /\ At(p, "create")
  /\ IF Exists(run[p].file)
     THEN FileDone(p) /\ UNCHANGED disk
     ELSE /\ disk' = [disk EXCEPT ![run[p].file] = p]
          /\ Goto(p, "write")
          /\ UNCHANGED shown
  /\ UNCHANGED <<made, expired, errors, crashes, calm>>

\* The bytes go to the file it opened, which may have lost its name.
Write(p) ==
  /\ At(p, "write")
  /\ disk' = IF disk[run[p].file] = p
             THEN [disk EXCEPT ![run[p].file] = run[p].pair]
             ELSE disk
  /\ FileDone(p)
  /\ UNCHANGED <<made, expired, errors, crashes, calm>>

\* What a failed call leaves: a file that could not be written, or closed, is
\* removed by its name.
MutLeave(p) == disk
Undone(p) == IF At(p, "write") THEN [disk EXCEPT ![run[p].file] = Absent] ELSE disk

FileError(p) ==
  /\ run[p].at \in {"removing", "create", "write"}
  /\ errors < MaxErrors
  /\ errors' = errors + 1
  /\ disk' = Undone(p)
  /\ run' = [run EXCEPT ![p].at = "failed", ![p].hit = TRUE]
  /\ calm' = FALSE
  /\ UNCHANGED <<made, expired, crashes, shown>>

\* verifyKeyPair: no CA is fine, a wrong one is not.
VerifyCA(p) ==
  /\ At(p, "verifyCA")
  /\ Goto(p, IF disk["ca"] \in {Absent, run[p].pair} THEN "expiry" ELSE "failed")
  /\ Kept

\* certExpiry reads the certificate once more, for the message.
CertExpiry(p) ==
  /\ At(p, "expiry")
  /\ Goto(p, IF disk["cert"] \in Pairs THEN "ok" ELSE "failed")
  /\ Kept

\* The operator ends a listener that serves.
Stop(p) == At(p, "serving") /\ Goto(p, "idle") /\ Kept

\* Killed in the middle, by a first Ctrl-C for instance: until runTargets
\* calls signal.NotifyContext nothing catches it.
Crash(p) ==
  /\ Busy(p)
  /\ crashes < MaxCrashes
  /\ crashes' = crashes + 1
  /\ run' = [run EXCEPT ![p].at = "idle", ![p].hit = TRUE]
  /\ calm' = FALSE
  /\ UNCHANGED <<disk, made, expired, errors, shown>>

\* Time passes.  A pair that was loaded may expire between any two steps of the
\* command, the check of its expiry and its use included; the pair a command
\* has generated itself is good for a year, which no command takes.
Expire ==
  /\ expired < made
  /\ \A p \in Procs : Busy(p) => run[p].own # expired + 1
  /\ expired' = expired + 1
  /\ UNCHANGED <<disk, made, run, errors, crashes, calm, shown>>

Step(p) ==
  \/ \E c \in Commands : Begin(p, c)
  \/ Remove(p)
  \/ StatCert(p)
  \/ StatKey(p)
  \/ Generate(p)
  \/ ReadCert(p)
  \/ ReadKey(p)
  \/ StatCA(p)
  \/ Create(p)
  \/ Write(p)
  \/ FileError(p)
  \/ VerifyCA(p)
  \/ CertExpiry(p)
  \/ Stop(p)
  \/ Crash(p)

Next == Expire \/ \E p \in Procs : Step(p)

Spec == Init /\ [][Next]_vars

-----------------------------------------------------------------------------
(* Properties *)

\* The three files belong together, or are missing together.
Whole == \A f \in Files, h \in Files : disk[f] = disk[h]

\* Half a pair, a certificate with another pair's key or the CA of an older
\* one: only a crash, a failed call or two commands at once leave such a
\* directory behind.  Every command that runs to its end, the one that removes
\* an expired pair included, leaves it whole.
OnlyFaultsLeaveAMess == calm /\ (\A p \in Procs : ~Busy(p)) => Whole

\* "A persistent certificate lets you trust the CA on the analyst host once and
\* have every later run present an identical server" (docs/tls.md): once a
\* listener has started that met no other command, whatever then runs beside
\* whatever, fails or is killed, a listener that starts serves that same pair,
\* until some command removes it.
StableIdentity ==
  [][\A p \in Procs :
       (shown # Absent /\ ~At(p, "serving") /\ run'[p].at = "serving")
         => run'[p].pair = shown]_vars

\* gonetsim tls --force repairs every directory a crash or a race can leave: if
\* it meets no other command and no failing call, it ends with "TLS OK", one
\* pair in the three files, which has not expired.
ForceRepairs ==
  [][\A p \in Procs :
       (run[p].cmd = "force" /\ Busy(p) /\ run'[p].at \in Resting /\ ~run'[p].hit)
         => run'[p].at = "ok" /\ Whole /\ disk["cert"] > expired]_vars

\* A pair that has not expired is taken from the disk by --force, or by a
\* command that met another one; a lone start that finds a valid pair never
\* costs the analyst host the CA it trusts.
FreshPairSurvives ==
  [][(disk["cert"] = disk["key"] /\ disk["cert"] \in Pairs /\ disk["cert"] > expired
        /\ (disk'["cert"] # disk["cert"] \/ disk'["key"] # disk["key"]))
       => \E p \in Procs : Busy(p) /\ (run[p].cmd = "force" \/ run[p].hit)]_vars

\* docs/tls.md says of gonetsim tls that it writes the certificate, the key and
\* the CA: while nothing fails, is killed or runs beside it, one that finds an
\* expired pair must not end with an error.  The code removes the pair and then
\* loads the files it has just removed.
TlsCommandWrites ==
  calm => \A p \in Procs : run[p].cmd = "tls" /\ run[p].phase = "reload" => ~At(p, "failed")
=============================================================================

--------------------------- MODULE OracleLedger ---------------------------
(***************************************************************************)
(* Several host runners on one machine.  They share two things: the right  *)
(* to run xemu, guarded by an interprocess lock and a look at the process  *)
(* list (run-suite-pr76.py, main), and the functional-hash ledger, a JSON  *)
(* file read, staged and replaced under a lock of its own                  *)
(* (oracle_validation.py, update_determinism_ledger).  A runner lets go of *)
(* xemu before it judges its output, so one may update the ledger while    *)
(* another runs its guest.                                                 *)
(*                                                                         *)
(* A runner can be killed between any two steps.  The operating system     *)
(* then releases its locks, but its xemu lives on.                         *)
(***************************************************************************)
EXTENDS Naturals, FiniteSets

CONSTANTS
    Runners, Nobody,
    Reports,      \* functional reports a run may produce
    MaxKills,     \* bound: runners killed
    MaxMisses     \* bound: process lists that fail and look empty

(* A report as the ledger reads it: the records by test, with the hashes   *)
(* and the guest's own verdict.  Two records of a report never share their *)
(* test and contract (normalized_records).                                 *)
ASSUME LedgerAssumption ==
    /\ Nobody \notin Runners
    /\ \A p \in Reports : /\ p.scale \in Nat
                          /\ \A t \in DOMAIN p.records :
                                p.records[t].internal \in {"PASS", "FAIL", "none"}
    /\ MaxKills \in Nat /\ MaxMisses \in Nat

VARIABLES
    pc, report,
    xemuLock, xemus,      \* xemus: the runners whose xemu process is alive
    ledgerLock,
    ledger,               \* the JSON file; absent while it has no entries
    staged,               \* the copy a runner works on, then its temporary file
    accepted,             \* observation: runners told PASSED by the ledger
    kills, misses

vars == <<pc, report, xemuLock, xemus, ledgerLock, ledger, staged, accepted,
          kills, misses>>

Empty == [k \in {} |-> {}]
NoReport == [id |-> "none", scale |-> 0, records |-> Empty]

(* _ledger_key: backend, guest, job and contract are part of the test here. *)
LedgerKey(p, t) == <<p.scale, t>>

\* Records whose internal oracle failed are skipped.
Eligible(p) == {t \in DOMAIN p.records : p.records[t].internal # "FAIL"}

Observation(p) ==
    [id |-> p.id,
     seen |-> [k \in {LedgerKey(p, t) : t \in Eligible(p)} |->
                  p.records[k[2]].hashes]]

Abstract == INSTANCE DeterminismLedger
                WITH Observations <- {Observation(p) : p \in Reports}

Working == {"lock", "listing", "launch", "running", "check", "ledger",
            "read", "write", "replace", "unlock"}
Ended == {"passed", "failed", "mismatch", "dead"}

TypeOK ==
    /\ pc \in [Runners -> Working \cup Ended]
    /\ report \in [Runners -> Reports \cup {NoReport}]
    /\ xemuLock \in Runners \cup {Nobody}
    /\ ledgerLock \in Runners \cup {Nobody}
    /\ xemus \subseteq Runners /\ accepted \subseteq Runners
    /\ DOMAIN staged = Runners
    /\ kills \in 0..MaxKills /\ misses \in 0..MaxMisses

Init ==
    /\ pc = [r \in Runners |-> "lock"]
    /\ report = [r \in Runners |-> NoReport]
    /\ xemuLock = Nobody /\ xemus = {} /\ ledgerLock = Nobody
    /\ ledger = Empty /\ staged = [r \in Runners |-> Empty]
    /\ accepted = {} /\ kills = 0 /\ misses = 0

Go(r, from, to) == pc[r] = from /\ pc' = [pc EXCEPT ![r] = to]
SameLedger == UNCHANGED <<ledgerLock, ledger, staged, accepted>>
SameXemu == UNCHANGED <<xemuLock, xemus, misses>>

-----------------------------------------------------------------------------
(* Running xemu                                                            *)

\* (Bug: the process list is looked at before the lock is held.)
ListFirst(r) ==
    /\ Go(r, "lock", "listing")
    /\ SameLedger /\ UNCHANGED <<xemuLock, xemus, report, kills, misses>>

\* XemuExclusiveLock, with its timeout.
TakeXemuLock(r) ==
    /\ \/ xemuLock = Nobody /\ xemuLock' = r /\ Go(r, "lock", "listing")
       \/ xemuLock # Nobody /\ Go(r, "lock", "failed") /\ UNCHANGED xemuLock
    /\ SameLedger /\ UNCHANGED <<xemus, report, kills, misses>>

\* ensure_no_running_xemu: a list that cannot be had shows no xemu; one that
\* shows another xemu is taken again until the grace period ends.
ListProcesses(r) ==
    /\ \/ /\ xemus = {} /\ Go(r, "listing", "launch")
          /\ UNCHANGED <<xemuLock, misses>>
       \/ /\ xemus # {} /\ misses < MaxMisses /\ misses' = misses + 1
          /\ Go(r, "listing", "launch") /\ UNCHANGED xemuLock
       \/ /\ xemus # {} /\ Go(r, "listing", "failed") /\ xemuLock' = Nobody
          /\ UNCHANGED misses
    /\ SameLedger /\ UNCHANGED <<xemus, report, kills>>

LaunchXemu(r) ==
    /\ Go(r, "launch", "running") /\ xemus' = xemus \cup {r}
    /\ SameLedger /\ UNCHANGED <<xemuLock, report, kills, misses>>

XemuExits(r) ==
    /\ r \in xemus /\ xemus' = xemus \ {r}
    /\ SameLedger /\ UNCHANGED <<pc, report, xemuLock, kills, misses>>

\* test.run() has returned and the captures have ended.
LeaveXemu(r) ==
    /\ r \notin xemus /\ Go(r, "running", "check") /\ xemuLock' = Nobody
    /\ SameLedger /\ UNCHANGED <<xemus, report, kills, misses>>

\* The checks before the ledger fail, or there is a functional report.
Report(r) ==
    /\ \/ Go(r, "check", "failed") /\ UNCHANGED report
       \/ /\ Go(r, "check", "ledger")
          /\ \E p \in Reports : report' = [report EXCEPT ![r] = p]
    /\ SameLedger /\ SameXemu /\ UNCHANGED kills

-----------------------------------------------------------------------------
(* update_determinism_ledger                                               *)

\* (Bug: the ledger was read before the lock was taken.)
LockAndReadEarly(r) ==
    /\ report[r].scale \in 1..4 /\ Go(r, "ledger", "write")
    /\ Abstract!Agrees(ledger, Observation(report[r]))
    /\ staged' = [staged EXCEPT ![r] =
                     Abstract!Merge(ledger, Observation(report[r]))]
    /\ SameXemu /\ UNCHANGED <<report, ledgerLock, ledger, accepted, kills>>

\* The report must have a surface scale of 1 to 4 (before the lock).  On
\* Windows the wait for the lock gives up after ten attempts.
LockLedger(r) ==
    /\ \/ /\ report[r].scale \in 1..4 /\ ledgerLock = Nobody
          /\ ledgerLock' = r /\ Go(r, "ledger", "read")
       \/ /\ report[r].scale \notin 1..4 \/ ledgerLock # Nobody
          /\ Go(r, "ledger", "failed") /\ UNCHANGED ledgerLock
    /\ SameXemu /\ UNCHANGED <<report, ledger, staged, accepted, kills>>

\* (Bug: the records before the first disagreement are kept.)
StageWhatAgrees(r) ==
    LET o == Observation(report[r])
        agreed == {k \in DOMAIN o.seen :
                      k \in DOMAIN ledger => ledger[k].hashes = o.seen[k]}
    IN
    /\ Go(r, "read", "write")
    /\ staged' = [staged EXCEPT ![r] = Abstract!Merge(ledger,
                     [o EXCEPT !.seen = [k \in agreed |-> o.seen[k]]])]
    /\ SameXemu /\ UNCHANGED <<report, ledgerLock, ledger, accepted, kills>>

\* The records are merged into a copy one by one.  A disagreement on any of
\* them raises SameBackendNondeterminism and leaves the file alone.
ReadAndStage(r) ==
    LET o == Observation(report[r]) IN
    /\ \/ /\ Abstract!Agrees(ledger, o) /\ Go(r, "read", "write")
          /\ staged' = [staged EXCEPT ![r] = Abstract!Merge(ledger, o)]
          /\ UNCHANGED ledgerLock
       \/ /\ ~Abstract!Agrees(ledger, o) /\ Go(r, "read", "mismatch")
          /\ ledgerLock' = Nobody /\ UNCHANGED staged
    /\ SameXemu /\ UNCHANGED <<report, ledger, accepted, kills>>

\* The new text goes to a temporary file, which may fail to be written.
WriteTemporary(r) ==
    /\ \/ Go(r, "write", "replace") /\ UNCHANGED ledgerLock
       \/ Go(r, "write", "failed") /\ ledgerLock' = Nobody
    /\ SameXemu /\ UNCHANGED <<report, ledger, staged, accepted, kills>>

\* os.replace
ReplaceLedger(r) ==
    /\ Go(r, "replace", "unlock") /\ ledger' = staged[r]
    /\ SameXemu /\ UNCHANGED <<report, ledgerLock, staged, accepted, kills>>

UnlockLedger(r) ==
    /\ Go(r, "unlock", "passed")
    /\ ledgerLock' = Nobody /\ accepted' = accepted \cup {r}
    /\ SameXemu /\ UNCHANGED <<report, ledger, staged, kills>>

-----------------------------------------------------------------------------
\* The process of a runner is killed; the file descriptors of its locks close.
Killed(r) ==
    /\ kills < MaxKills /\ kills' = kills + 1
    /\ pc[r] \in Working /\ pc' = [pc EXCEPT ![r] = "dead"]
    /\ xemuLock' = IF xemuLock = r THEN Nobody ELSE xemuLock
    /\ ledgerLock' = IF ledgerLock = r THEN Nobody ELSE ledgerLock
    /\ UNCHANGED <<report, xemus, ledger, staged, accepted, misses>>

Step(r) ==
    \/ TakeXemuLock(r) \/ ListProcesses(r) \/ LaunchXemu(r) \/ LeaveXemu(r)
    \/ Report(r) \/ LockLedger(r) \/ ReadAndStage(r) \/ WriteTemporary(r)
    \/ ReplaceLedger(r) \/ UnlockLedger(r)

Next == \E r \in Runners : Step(r) \/ XemuExits(r) \/ Killed(r)

Spec == Init /\ [][Next]_vars

-----------------------------------------------------------------------------
(* No two xemu processes run at once, unless a process list failed: the    *)
(* look at the list is taken inside the lock (main, lines 4489 to 4494),   *)
(* and the xemu of a killed runner still counts.                           *)
AtMostOneXemu == misses = 0 => Cardinality(xemus) <= 1

\* The ledger holds every hash of the observation, in its name.
Known(l, o) == \A k \in DOMAIN o.seen : /\ k \in DOMAIN l
                                        /\ l[k].hashes = o.seen[k]
                                        /\ o.id \in l[k].ids

(* A runner that was told PASSED finds every eligible hash of its report   *)
(* in the ledger, under its own report id, at any later time: no update of *)
(* another runner, and no runner killed halfway, loses it.                 *)
NoObservationLost ==
    \A r \in accepted : Known(ledger, Observation(report[r]))

(* The first observation of a key stands: an entry is never removed, its   *)
(* hashes never change and its report ids only grow.                       *)
FirstObservationStands ==
    [][\A k \in DOMAIN ledger :
          /\ k \in DOMAIN ledger'
          /\ ledger'[k].hashes = ledger[k].hashes
          /\ ledger[k].ids \subseteq ledger'[k].ids]_vars

(* What the proofs carry from step to step.  A runner inside the lock works *)
(* on the ledger as it is, and what was accepted is there.                 *)
Critical == {"read", "write", "replace", "unlock"}

LedgerInv ==
    \A r \in Runners : LET o == Observation(report[r]) IN
        /\ pc[r] \in Critical => ledgerLock = r /\ report[r] \in Reports
        /\ pc[r] = "ledger" => report[r] \in Reports
        /\ pc[r] \in {"write", "replace"} =>
              Abstract!Agrees(ledger, o) /\ staged[r] = Abstract!Merge(ledger, o)
        /\ pc[r] = "unlock" \/ r \in accepted => Known(ledger, o)
        /\ r \in accepted => pc[r] = "passed"

(* A runner that may launch holds the xemu lock and has seen no other xemu. *)
XemuInv ==
    /\ \A r \in Runners :
          /\ pc[r] \in {"listing", "launch", "running"} => xemuLock = r
          /\ pc[r] = "launch" /\ misses = 0 => xemus = {}
    /\ misses = 0 => \A r, s \in xemus : r = s

IInv == TypeOK /\ LedgerInv /\ XemuInv

(* The file is a ledger that learns whole observations, one at a time.     *)
ImplementsLedger == Abstract!Spec
=============================================================================

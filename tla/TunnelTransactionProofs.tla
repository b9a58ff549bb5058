---------------------- MODULE TunnelTransactionProofs ----------------------
(***************************************************************************)
(* TunnelTransaction, proved for every set of PIDs and entries, every      *)
(* bound and every combination of faults: type correctness, that no older  *)
(* transaction's journal is ever loadable, and what recovery may do to the *)
(* host; and, with no SAFE proxy about, when recovery may refuse.          *)
(***************************************************************************)
EXTENDS TunnelTransaction, TLAPS

\* The steps between reading (or building) a journal and writing it: the
\* operation holds a journal of the transaction it works for.
Holding == {"identity", "capture", "quarantine", "backup", "replace", "removeTun",
            "mutate", "escalate", "verify", "saveClean", "spawn"}

JournalInHand ==
    /\ pc \in Holding => call.journal \in Journal /\ call.journal.op = ops
    /\ pc = "clearBackup" => call.journal \in Journal /\ call.journal.op = ops + 1
    /\ pc \in {"backup", "replace"} => call.next # "none"

\* A new transaction begins, and a closed one drops its backup, only when no
\* primary journal is left; recovery works only while there is one.
PrimaryAtStep ==
    /\ pc \in {"begin", "clearBackup", "dropBackup"} => primary = Absent
    /\ pc \in {"identity", "capture", "quarantine", "removeTun", "mutate", "escalate", "verify"}
         => primary # Absent

\* Only a previous-good file left behind with no primary may be of an older
\* transaction; ClearPreviousGood removes it before the next primary appears.
LatestOnDisk ==
    /\ IsJournal(primary) => primary.op = ops
    /\ IsJournal(previousGood) /\ (primary # Absent \/ pc \in {"backup", "replace"})
         => previousGood.op = ops

IInv == TypeOK /\ JournalInHand /\ PrimaryAtStep /\ LatestOnDisk

-----------------------------------------------------------------------------
(* Lemmas about the operators the actions are built from.                  *)

\* What loadTunnelJournal returns is the latest transaction's journal, and
\* "no transaction" is what it says only of a missing primary.
LEMMA LoadedIsLatest ==
    ASSUME TypeOK, LatestOnDisk
    PROVE  /\ Loaded \in File
           /\ IsJournal(Loaded) =>
                Loaded \in Journal /\ Loaded.op = ops /\ primary # Absent
           /\ Loaded = Absent => primary = Absent
  BY JournalAssumption DEF TypeOK, LatestOnDisk, Loaded, Load, IsJournal, File

\* The initial value of the operation's local variables.
LEMMA NoCallType == NoCall \in Call
  BY DEF NoCall, Call

\* An operation that returns leaves nothing in hand.
LEMMA Finishing ==
    ASSUME TypeOK, NEW ok, Finish(ok)
    PROVE  pc' \in {"ok", "err"} /\ call' \in Call
  BY NoCallType DEF Finish, TypeOK, Call, NoCall

\* Journals made of a journal.
LEMMA JournalsMade ==
    /\ \A j \in Journal, o \in SUBSET Entries :
         [j EXCEPT !.owned = o, !.phase = "recovering"] \in Journal
    /\ \A j \in Journal :
         [j EXCEPT !.phase = "aborted-before-network-apply"] \in Journal
    /\ \A n \in Nat, r \in SUBSET Entries : Prepared(n, r) \in Journal
  BY DEF Journal, Prepared, OpenPhases, FinalPhases, Entries

\* The control points at which the invariant asks nothing of the step.
Quiet == {"idle", "ok", "err", "down", "preflight", "load", "dropPrimary", "abort", "ready",
          "mark", "stop", "signal", "await", "killed", "finish"}

\* A step to such a point that leaves the journal files alone keeps the
\* invariant, whatever it does to the host and to the processes.
LEMMA QuietStep ==
    ASSUME IInv, TypeOK', pc' \in Quiet, UNCHANGED disk, UNCHANGED ops
    PROVE  IInv'
  BY DEF IInv, JournalInHand, PrimaryAtStep, LatestOnDisk, Quiet, Holding, disk, IsJournal

\* So does a step of the environment: it leaves the operation alone as well.
LEMMA OutsideStep ==
    ASSUME IInv, TypeOK', UNCHANGED <<disk, ops, pc, call>>
    PROVE  IInv'
  BY DEF IInv, JournalInHand, PrimaryAtStep, LatestOnDisk, disk, IsJournal

\* A step that goes on with a journal of the latest transaction in hand, and a
\* primary to work on, keeps it too.
LEMMA HoldingStep ==
    ASSUME IInv, TypeOK', UNCHANGED disk, UNCHANGED ops, pc' \in Holding,
           primary # Absent,
           call'.journal \in Journal, call'.journal.op = ops,
           pc' \in {"backup", "replace"} => call'.next # "none"
    PROVE  IInv'
  BY DEF IInv, JournalInHand, PrimaryAtStep, LatestOnDisk, Holding, disk, IsJournal

\* Type correctness, for a step that leaves the files and the host alone.
LEMMA MoveType ==
    ASSUME TypeOK, UNCHANGED <<disk, host, processes, manager>>,
           pc' \in Running \cup Outcomes \cup {"down"}, call' \in Call
    PROVE  TypeOK'
  BY DEF TypeOK, disk, host, processes, manager

\* rollbackFailedAgentTunnelStart goes on as StopAndWait.
LEMMA RollbackStep ==
    ASSUME IInv, Rollback, UNCHANGED <<disk, host, processes, manager>>
    PROVE  IInv'
<1>1. pc' = "stop" /\ call' \in Call
  BY NoCallType DEF Rollback, IInv, TypeOK, Call
<1> QED
  BY <1>1, MoveType, QuietStep DEF IInv, Quiet, Running, manager

\* The journal markTunnelActive makes of the loaded one is of the same
\* transaction, whether or not the process is still there.
LEMMA ActivatedType ==
    ASSUME TypeOK, NEW j \in Journal
    PROVE  Activated(j) \in Journal /\ Activated(j).op = j.op
<1>1. Merge(j.owned, Delta(j.before, rules)) \in SUBSET Entries
  BY DEF TypeOK, Journal, Merge, Delta
<1>2. (IF ManagedRunning THEN proc[cmd].born ELSE 0) \in Nat
  BY DEF TypeOK, ManagedRunning, Process
<1> QED
  BY <1>1, <1>2 DEF Activated, Journal, OpenPhases, TypeOK

-----------------------------------------------------------------------------
(* The steps of recovery and of the journal writes.                        *)

\* RecoverStaleNetworkState and WriteTunnelJournal keep the invariant: the primary
\* is renamed away only with a journal of the same transaction in hand.
LEMMA RecoveryStep ==
    ASSUME IInv, Recovery
    PROVE  IInv'
<1> USE DEF disk, host, processes, manager
<1>0. TypeOK /\ JournalInHand /\ PrimaryAtStep /\ LatestOnDisk
  BY DEF IInv
<1>1. CASE LoadJournal
  <2>1. UNCHANGED <<disk, host, processes, manager>> /\ pc = "load"
    BY <1>1 DEF LoadJournal
  <2>2. CASE \E ok \in BOOLEAN : Finish(ok)
    <3>1. pc' \in {"ok", "err"} /\ call' \in Call
      BY <1>0, <2>2, Finishing
    <3> QED
      BY <1>0, <2>1, <3>1, QuietStep DEF TypeOK, Quiet, Outcomes
  <2>3. CASE /\ Loaded = Absent
             /\ pc' = "begin"
             /\ call' = [call EXCEPT !.journal = Absent, !.fromBackup = FALSE]
    <3>1. call' \in Call
      BY <1>0, <2>3 DEF TypeOK, Call
    <3>2. TypeOK' /\ primary' = Absent
      BY <1>0, <2>1, <2>3, <3>1, LoadedIsLatest DEF TypeOK, Running
    <3> QED
      BY <1>0, <2>1, <2>3, <3>2
         DEF IInv, JournalInHand, PrimaryAtStep, LatestOnDisk, Holding
  <2>4. CASE /\ IsJournal(Loaded)
             /\ pc' \in {"saveClean", "identity", "capture"}
             /\ call' = [call EXCEPT !.journal = Loaded,
                           !.fromBackup = LoadedFromBackup(primary, previousGood, lastClean)]
    <3>1. /\ Loaded \in Journal /\ Loaded.op = ops /\ primary # Absent
          /\ LoadedFromBackup(primary, previousGood, lastClean) \in BOOLEAN
      BY <1>0, <2>4, LoadedIsLatest DEF LoadedFromBackup, IsJournal
    <3>2. call' \in Call /\ call'.journal = Loaded
      BY <1>0, <2>4, <3>1 DEF TypeOK, Call
    <3>3. TypeOK'
      BY <1>0, <2>1, <2>4, <3>2 DEF TypeOK, Running
    <3> QED
      BY <1>0, <2>1, <2>4, <3>1, <3>2, <3>3
         DEF IInv, JournalInHand, PrimaryAtStep, LatestOnDisk, Holding
  <2> QED
    BY <1>1, <2>2, <2>3, <2>4 DEF LoadJournal, Return, IsJournal
<1>2. CASE CaptureStale
  <2> DEFINE j == call.journal
             claimed == IF j.observed THEN j.owned
                        ELSE Merge(j.owned, Delta(j.before, rules))
             stale == [j EXCEPT !.owned = claimed, !.phase = "recovering"]
  <2>1. j \in Journal /\ j.op = ops /\ primary # Absent /\ claimed \in SUBSET Entries
    BY <1>0, <1>2
       DEF CaptureStale, JournalInHand, PrimaryAtStep, Holding, TypeOK, Journal, Merge, Delta
  <2>2. stale \in Journal /\ stale.op = ops
    BY <2>1, JournalsMade DEF Journal
  <2>3. \/ pc' = "quarantine" /\ call' = [call EXCEPT !.journal = stale]
        \/ pc' = "backup" /\ call' = [call EXCEPT !.journal = stale, !.next = "mutate"]
    BY <1>2 DEF CaptureStale, WriteJournal
  <2> HIDE DEF stale
  <2>5. /\ call' \in Call /\ call'.journal = stale
        /\ pc' = "backup" => call'.next # "none"
    BY <1>0, <2>2, <2>3 DEF TypeOK, Call
  <2>4. TypeOK' /\ UNCHANGED disk /\ UNCHANGED ops
    BY <1>0, <1>2, <2>3, <2>5, MoveType DEF CaptureStale, Running
  <2> QED
    BY <2>1, <2>2, <2>3, <2>4, <2>5, HoldingStep DEF Holding
<1>3. CASE QuarantinePrimary
  BY <1>0, <1>3
     DEF QuarantinePrimary, TypeOK, Call, File, IInv, JournalInHand, PrimaryAtStep,
         LatestOnDisk, Holding, Running, IsJournal
<1>4. CASE BackUpPrimary
  BY <1>0, <1>4
     DEF BackUpPrimary, Goto, TypeOK, File, IInv, JournalInHand, PrimaryAtStep,
         LatestOnDisk, Holding, Running
<1>5. CASE ReplacePrimary
  <2>1. call.journal \in Journal /\ call.journal.op = ops /\ call.next # "none"
    BY <1>0, <1>5 DEF ReplacePrimary, JournalInHand, Holding
  <2>2. /\ primary' = call.journal /\ UNCHANGED <<previousGood, lastClean, host, processes, manager>>
        /\ IsJournal(primary')
    BY <1>5, <2>1, JournalAssumption DEF ReplacePrimary, IsJournal
  <2>3. /\ pc' \in {"ok", "err", "spawn", "removeTun"}
        /\ call' \in Call
        /\ pc' \in {"spawn", "removeTun"} => call'.journal = call.journal
    <3>1. CASE \E ok \in BOOLEAN : Finish(ok)
      BY <1>0, <3>1, Finishing
    <3>2. CASE Goto("spawn")
      BY <1>0, <3>2 DEF Goto, TypeOK
    <3>3. CASE pc' = "removeTun" /\ call' = [call EXCEPT !.todo = call.journal.owned]
      BY <1>0, <2>1, <3>3 DEF TypeOK, Call, Journal
    <3>4. call.next \in {"spawn", "done", "mutate", "fail"}
      BY <1>0, <2>1 DEF TypeOK, Call
    <3> QED
      BY <1>5, <3>1, <3>2, <3>3, <3>4 DEF ReplacePrimary, AfterWrite
  <2>4. TypeOK'
    BY <1>0, <2>1, <2>2, <2>3 DEF TypeOK, File, Running, Outcomes
  <2> QED
    BY <1>0, <1>5, <2>1, <2>2, <2>3, <2>4
       DEF ReplacePrimary, IInv, JournalInHand, PrimaryAtStep, LatestOnDisk, Holding, IsJournal
<1>6. CASE WriteFails
  <2>1. pc' \in {"ok", "err", "stop"} /\ call' \in Call
    BY <1>0, <1>6, Finishing, NoCallType DEF WriteFails, Rollback, TypeOK, Call
  <2>2. /\ pc \in {"backup", "replace"} /\ call.journal \in Journal /\ call.journal.op = ops
        /\ primary' \in {primary, call.journal} /\ previousGood' \in {previousGood, primary}
        /\ primary = Absent => previousGood' = previousGood
        /\ primary' # primary => previousGood' = previousGood
        /\ UNCHANGED <<lastClean, host, processes, manager>>
    BY <1>0, <1>6 DEF WriteFails, JournalInHand, Holding
  <2>3. TypeOK'
    BY <1>0, <2>1, <2>2 DEF TypeOK, File, Running, Outcomes
  <2> QED
    BY <1>0, <2>1, <2>2, <2>3
       DEF IInv, JournalInHand, PrimaryAtStep, LatestOnDisk, Holding, IsJournal
<1>7. CASE RemoveTun
  <2>1. /\ UNCHANGED <<disk, ops, call>> /\ pc' = "mutate"
        /\ pc = "removeTun"
    BY <1>7 DEF RemoveTun, Goto
  <2>2. TypeOK'
    BY <1>0, <1>7 DEF RemoveTun, Goto, TypeOK, Running
  <2> QED
    BY <1>0, <2>1, <2>2, HoldingStep DEF JournalInHand, PrimaryAtStep, Holding
<1>8. ASSUME NEW e \in Entries, RemoveEntry(e)
      PROVE  IInv'
  <2>1. /\ UNCHANGED <<disk, ops, pc>> /\ pc = "mutate"
        /\ call' = [call EXCEPT !.todo = @ \ {e}]
    BY <1>8 DEF RemoveEntry
  <2>2. call' \in Call /\ call'.journal = call.journal
    BY <1>0, <2>1 DEF TypeOK, Call
  <2>3. rules' \subseteq Entries
    BY <1>0, <1>8 DEF RemoveEntry, TypeOK
  <2>4. TypeOK'
    BY <1>0, <1>8, <2>1, <2>2, <2>3 DEF RemoveEntry, TypeOK
  <2> QED
    BY <1>0, <2>1, <2>2, <2>4, HoldingStep DEF JournalInHand, PrimaryAtStep, Holding
<1>9. CASE RemovalDone
  <2>1. UNCHANGED <<disk, ops, call>> /\ pc' = "verify" /\ pc = "mutate"
    BY <1>9 DEF RemovalDone, Goto
  <2>2. TypeOK'
    BY <1>0, <1>9 DEF RemovalDone, Goto, TypeOK, Running
  <2> QED
    BY <1>0, <2>1, <2>2, HoldingStep DEF JournalInHand, PrimaryAtStep, Holding
<1>10. CASE RemovalDenied
  <2>1. /\ UNCHANGED <<disk, ops>> /\ pc' = "escalate" /\ pc \in {"removeTun", "mutate"}
        /\ call' = [call EXCEPT !.todo = {}]
    BY <1>10 DEF RemovalDenied
  <2>2. call' \in Call /\ call'.journal = call.journal
    BY <1>0, <2>1 DEF TypeOK, Call
  <2>3. TypeOK'
    BY <1>0, <1>10, <2>1, <2>2, MoveType DEF RemovalDenied, Running
  <2> QED
    BY <1>0, <2>1, <2>2, <2>3, HoldingStep DEF JournalInHand, PrimaryAtStep, Holding
<1>11. CASE PrivilegedRecovery
  <2>1. /\ UNCHANGED <<disk, ops>> /\ pc' = "removeTun" /\ pc = "escalate"
        /\ call' = [call EXCEPT !.asRoot = TRUE, !.todo = Reserved]
    BY <1>11 DEF PrivilegedRecovery
  <2>2. call' \in Call /\ call'.journal = call.journal
    BY <1>0, <2>1 DEF TypeOK, Call, Entries
  <2>3. TypeOK'
    BY <1>0, <1>11, <2>1, <2>2, MoveType DEF PrivilegedRecovery, Running
  <2> QED
    BY <1>0, <2>1, <2>2, <2>3, HoldingStep DEF JournalInHand, PrimaryAtStep, Holding
<1>12. CASE RecoveryFails
  <2>1. /\ UNCHANGED <<disk, ops>> /\ pc' = "backup" /\ pc = "escalate"
        /\ call.journal \in Journal /\ call.journal.op = ops /\ primary # Absent
    BY <1>0, <1>12 DEF RecoveryFails, WriteJournal, JournalInHand, PrimaryAtStep, Holding
  <2>2. call' \in Call /\ call'.journal = call.journal /\ call'.next = "fail"
    BY <1>0, <1>12, <2>1 DEF RecoveryFails, WriteJournal, TypeOK, Call
  <2>3. TypeOK'
    BY <1>0, <1>12, <2>1, <2>2, MoveType DEF RecoveryFails, Running
  <2> QED
    BY <2>1, <2>2, <2>3, HoldingStep DEF Holding
<1>13. CASE VerifyRecovery
  <2>1. /\ pc = "verify" /\ UNCHANGED <<disk, host, processes, manager>>
        /\ call.journal \in Journal /\ call.journal.op = ops /\ primary # Absent
    BY <1>0, <1>13 DEF VerifyRecovery, JournalInHand, PrimaryAtStep, Holding
  <2>2. CASE Finish(FALSE)
    BY <1>0, <2>1, <2>2, Finishing, MoveType, QuietStep DEF Quiet, Outcomes
  <2>3. CASE WriteJournal(call.journal, "fail")
    <3>1. call' \in Call /\ call'.journal = call.journal /\ call'.next = "fail"
      BY <1>0, <2>1, <2>3 DEF WriteJournal, TypeOK, Call
    <3> QED
      BY <1>0, <2>1, <2>3, <3>1, MoveType, HoldingStep DEF WriteJournal, Holding, Running
  <2>4. CASE /\ pc' = "saveClean"
             /\ call' = [call EXCEPT !.journal.phase = "clean",
                                     !.journal.pid = NoPid, !.journal.ident = 0]
    <3>1. call' \in Call /\ call'.journal \in Journal /\ call'.journal.op = ops
      BY <1>0, <2>1, <2>4 DEF TypeOK, Call, Journal, FinalPhases
    <3> QED
      BY <1>0, <2>1, <2>4, <3>1, MoveType, HoldingStep DEF Holding, Running
  <2> QED
    BY <1>13, <2>2, <2>3, <2>4 DEF VerifyRecovery
<1>14. CASE SaveLastClean
  <2>1. /\ UNCHANGED <<primary, previousGood, ops, call>> /\ pc' = "dropPrimary"
        /\ lastClean' = call.journal /\ pc = "saveClean"
    BY <1>14 DEF SaveLastClean, Goto
  <2>2. call.journal \in Journal
    BY <1>0, <2>1 DEF JournalInHand, Holding
  <2>3. TypeOK'
    BY <1>0, <1>14, <2>1, <2>2 DEF SaveLastClean, TypeOK, Running
  <2> QED
    BY <1>0, <2>1, <2>3 DEF IInv, JournalInHand, PrimaryAtStep, LatestOnDisk, Holding
<1>15. CASE DropPrimary
  BY <1>0, <1>15
     DEF DropPrimary, Goto, TypeOK, File, IInv, JournalInHand, PrimaryAtStep, LatestOnDisk,
         Holding, Running, IsJournal
<1>16. CASE DropPreviousGood
  <2>1. /\ pc = "dropBackup" /\ primary = Absent /\ previousGood' = Absent
        /\ UNCHANGED <<primary, lastClean, host, processes, manager>>
    BY <1>0, <1>16 DEF DropPreviousGood, PrimaryAtStep
  <2>2. pc' \in {"ok", "err", "begin"} /\ call' \in Call
    <3>1. CASE Finish(TRUE)
      BY <1>0, <3>1, Finishing
    <3>2. CASE pc' = "begin" /\ call' = [call EXCEPT !.journal = Absent, !.fromBackup = FALSE]
      BY <1>0, <3>2 DEF TypeOK, Call
    <3> QED
      BY <1>16, <3>1, <3>2 DEF DropPreviousGood, Return
  <2>3. TypeOK'
    BY <1>0, <2>1, <2>2 DEF TypeOK, File, Running, Outcomes
  <2> QED
    BY <1>0, <2>1, <2>2, <2>3
       DEF IInv, JournalInHand, PrimaryAtStep, LatestOnDisk, Holding, IsJournal
<1>17. CASE StepFails
  <2>1. /\ pc' \in {"ok", "err"} /\ call' \in Call
        /\ UNCHANGED <<primary, previousGood, host, processes, manager>>
    BY <1>0, <1>17, Finishing DEF StepFails
  <2>2. lastClean' \in Journal \cup {Absent}
    BY <1>0, <1>17 DEF StepFails, JournalInHand, Holding, TypeOK
  <2>3. TypeOK'
    BY <1>0, <2>1, <2>2 DEF TypeOK, Outcomes
  <2> QED
    BY <1>0, <1>17, <2>1, <2>3
       DEF StepFails, IInv, JournalInHand, PrimaryAtStep, LatestOnDisk, Holding, IsJournal
<1>18. CASE CompareIdentity
  <2>1. CASE Finish(FALSE)
    BY <1>0, <1>18, <2>1, Finishing, MoveType, QuietStep DEF CompareIdentity, Quiet, Outcomes
  <2>2. CASE Goto("capture")
    <3>1. UNCHANGED <<disk, ops, call>> /\ pc' = "capture" /\ pc = "identity"
      BY <1>18, <2>2 DEF CompareIdentity, Goto
    <3>2. TypeOK'
      BY <1>0, <1>18, <3>1, MoveType DEF CompareIdentity, TypeOK, Running
    <3> QED
      BY <1>0, <3>1, <3>2, HoldingStep DEF JournalInHand, PrimaryAtStep, Holding
  <2> QED
    BY <1>18, <2>1, <2>2 DEF CompareIdentity
<1> QED
  BY <1>1, <1>2, <1>3, <1>4, <1>5, <1>6, <1>7, <1>8, <1>9, <1>10, <1>11, <1>12,
     <1>13, <1>14, <1>15, <1>16, <1>17, <1>18 DEF Recovery

-----------------------------------------------------------------------------
(* The steps of the launch.                                                *)

\* beginTunnelTransaction to markTunnelActive keep it: the new transaction's
\* journal is written only after the older backup is gone.
LEMMA LaunchStep ==
    ASSUME IInv, Launch
    PROVE  IInv'
<1> USE DEF disk, host, processes, manager
<1>0. TypeOK /\ JournalInHand /\ PrimaryAtStep /\ LatestOnDisk
  BY DEF IInv
<1>1. CASE CheckHost
  <2>1. /\ pc = "begin" /\ primary = Absent
        /\ UNCHANGED <<disk, host, processes, manager>>
    BY <1>0, <1>1 DEF CheckHost, PrimaryAtStep
  <2>2. CASE Finish(FALSE)
    BY <1>0, <2>1, <2>2, Finishing, MoveType, QuietStep DEF Quiet, Outcomes
  <2>3. CASE /\ pc' = "clearBackup"
             /\ call' = [call EXCEPT !.journal = Prepared(ops + 1, rules)]
    <3>1. Prepared(ops + 1, rules) \in Journal /\ Prepared(ops + 1, rules).op = ops + 1
      <4>1. ops + 1 \in Nat /\ rules \in SUBSET Entries
        BY <1>0 DEF TypeOK
      <4>2. Prepared(ops + 1, rules) \in Journal
        BY <4>1, JournalsMade
      <4> QED
        BY <4>2 DEF Prepared
    <3>2. call' \in Call /\ call'.journal = Prepared(ops + 1, rules)
      BY <1>0, <2>3, <3>1 DEF TypeOK, Call
    <3>3. TypeOK'
      BY <1>0, <2>1, <2>3, <3>2, MoveType DEF Running
    <3> QED
      BY <1>0, <2>1, <2>3, <3>1, <3>2, <3>3
         DEF IInv, JournalInHand, PrimaryAtStep, LatestOnDisk, Holding
  <2> QED
    BY <1>1, <2>2, <2>3 DEF CheckHost
<1>2. CASE ClearPreviousGood
  <2>1. /\ primary = Absent /\ previousGood' = Absent /\ ops' = ops + 1 /\ pc' = "backup"
        /\ UNCHANGED <<primary, lastClean, host, processes, cmd, mode>>
        /\ call.journal \in Journal /\ call.journal.op = ops + 1
    BY <1>0, <1>2 DEF ClearPreviousGood, WriteJournal, JournalInHand, PrimaryAtStep
  <2>2. call' \in Call /\ call'.journal = call.journal /\ call'.next = "spawn"
    BY <1>0, <1>2, <2>1 DEF ClearPreviousGood, WriteJournal, TypeOK, Call
  <2>3. TypeOK'
    BY <1>0, <2>1, <2>2 DEF TypeOK, File, Running
  <2> QED
    BY <2>1, <2>2, <2>3
       DEF IInv, JournalInHand, PrimaryAtStep, LatestOnDisk, IsJournal
<1>3. ASSUME NEW p \in Pids, SpawnHelper(p)
      PROVE  IInv'
  <2>1. /\ UNCHANGED <<disk, host, ops>> /\ pc' = "ready" /\ pc = "spawn"
        /\ cmd' = p /\ mode' = "agent-tunnel"
        /\ Start(p, "helper", call.journal.op)
        /\ call' = [NoCall EXCEPT !.op = "start"]
    BY <1>3 DEF SpawnHelper
  <2>2. call' \in Call
    BY <2>1, NoCallType DEF Call
  <2>3. proc' \in [Pids -> Process] /\ born' \in Nat
    BY <1>0, <2>1 DEF Start, TypeOK, Process, JournalInHand, Holding, Journal
  <2>4. TypeOK'
    BY <1>0, <2>1, <2>2, <2>3 DEF TypeOK, Modes, Running
  <2> QED
    BY <2>1, <2>4, QuietStep DEF Quiet
<1>4. CASE SpawnFails
  <2>1. call' \in Call
    BY <1>4, NoCallType DEF SpawnFails, Call
  <2> QED
    BY <1>0, <1>4, <2>1, MoveType, QuietStep DEF SpawnFails, Quiet, Running
<1>5. CASE AbortPrepared
  <2>1. UNCHANGED <<disk, host, processes, manager>>
    BY <1>5 DEF AbortPrepared
  <2>2. CASE Finish(FALSE)
    BY <1>0, <2>1, <2>2, Finishing, MoveType, QuietStep DEF Quiet, Outcomes
  <2> DEFINE aborted == [Loaded EXCEPT !.phase = "aborted-before-network-apply"]
  <2>3. CASE /\ IsJournal(Loaded)
             /\ pc' = "saveClean"
             /\ call' = [call EXCEPT !.journal = aborted, !.ret = "abort"]
    <3>1. Loaded \in Journal /\ Loaded.op = ops /\ primary # Absent
      BY <1>0, <2>3, LoadedIsLatest
    <3>2. aborted \in Journal /\ aborted.op = ops
      BY <3>1, JournalsMade DEF Journal
    <3> HIDE DEF aborted
    <3>3. call' \in Call /\ call'.journal = aborted
      BY <1>0, <2>3, <3>2 DEF TypeOK, Call
    <3> QED
      BY <1>0, <2>1, <2>3, <3>1, <3>2, <3>3, MoveType, HoldingStep DEF Running, Holding
  <2> QED
    BY <1>5, <2>2, <2>3 DEF AbortPrepared
<1>6. CASE HelperReady
  BY <1>0, <1>6, MoveType, QuietStep DEF HelperReady, Goto, Quiet, Running, TypeOK
<1>7. CASE HelperNotReady
  BY <1>0, <1>7, RollbackStep DEF HelperNotReady
<1>8. CASE MarkTunnelActive
  <2>1. UNCHANGED <<disk, host, processes, manager>>
    BY <1>8 DEF MarkTunnelActive
  <2>2. CASE Rollback
    BY <1>0, <2>1, <2>2, RollbackStep
  <2>3. CASE IsJournal(Loaded) /\ WriteJournal(Activated(Loaded), "done")
    <3>1. Loaded \in Journal /\ Loaded.op = ops /\ primary # Absent
      BY <1>0, <2>3, LoadedIsLatest
    <3>2. Activated(Loaded) \in Journal /\ Activated(Loaded).op = ops
      BY <1>0, <3>1, ActivatedType
    <3>3. call' \in Call /\ call'.journal = Activated(Loaded) /\ call'.next = "done"
      BY <1>0, <2>3, <3>2 DEF WriteJournal, TypeOK, Call
    <3> QED
      BY <1>0, <2>1, <2>3, <3>1, <3>2, <3>3, MoveType, HoldingStep
         DEF WriteJournal, Running, Holding
  <2> QED
    BY <1>8, <2>2, <2>3 DEF MarkTunnelActive
<1>9. CASE MarkFails
  BY <1>0, <1>9, RollbackStep DEF MarkFails
<1>10. CASE AgentTunnelPreflight
  <2>1. UNCHANGED <<disk, host, processes, manager>>
    BY <1>10 DEF AgentTunnelPreflight
  <2>2. pc' \in {"load", "ok", "err"} /\ call' \in Call
    BY <1>0, <1>10, Finishing DEF AgentTunnelPreflight, TypeOK, Call
  <2> QED
    BY <1>0, <2>1, <2>2, MoveType, QuietStep DEF Quiet, Running, Outcomes
<1> QED
  BY <1>1, <1>2, <1>3, <1>4, <1>5, <1>6, <1>7, <1>8, <1>9, <1>10 DEF Launch

-----------------------------------------------------------------------------
(* The steps of the shutdown, the public operations and the environment.   *)

\* StopAndWait keeps it: it leaves the journal files to finishTunnelTransaction.
LEMMA ShutdownStep ==
    ASSUME IInv, Shutdown
    PROVE  IInv'
<1>0. TypeOK
  BY DEF IInv
<1>1. UNCHANGED <<disk, host, processes, manager>>
  BY DEF Shutdown, BeginStop, SignalHelper, SignalTooLate, HelperGone, StopTimesOut,
         KillTimesOut, FinishTransaction
<1>2. CASE \E ok \in BOOLEAN : Finish(ok)
  <2>1. pc' \in {"ok", "err"} /\ call' \in Call
    BY <1>0, <1>2, Finishing
  <2> QED
    BY <1>0, <1>1, <2>1, MoveType, QuietStep DEF Quiet, Outcomes, manager
<1>3. CASE BeginStop
  <2>1. pc' = "signal" /\ call' \in Call
    BY <1>0, <1>3 DEF BeginStop, TypeOK, Call, Process, ManagedRunning, JournalOpen, StatusOpen
  <2> QED
    BY <1>0, <1>1, <2>1, MoveType, QuietStep DEF Quiet, Running, manager
<1>4. CASE SignalHelper
  <2>1. pc' = "await" /\ call' \in Call
    BY <1>0, <1>4 DEF SignalHelper, TypeOK, Call
  <2> QED
    BY <1>0, <1>1, <2>1, MoveType, QuietStep DEF Quiet, Running, manager
<1>5. CASE Goto("finish")
  BY <1>0, <1>1, <1>5, MoveType, QuietStep DEF Goto, Quiet, Running, TypeOK, manager
<1>6. CASE StopTimesOut
  <2>1. pc' = "killed" /\ call' \in Call
    BY <1>0, <1>6 DEF StopTimesOut, TypeOK, Call
  <2> QED
    BY <1>0, <1>1, <2>1, MoveType, QuietStep DEF Quiet, Running, manager
<1>7. CASE pc' = "load" /\ call' = [call EXCEPT !.ret = "finish"]
  <2>1. call' \in Call
    BY <1>0, <1>7 DEF TypeOK, Call
  <2> QED
    BY <1>0, <1>1, <1>7, <2>1, MoveType, QuietStep DEF Quiet, Running, manager
<1> QED
  BY <1>2, <1>3, <1>4, <1>5, <1>6, <1>7
     DEF Shutdown, SignalTooLate, HelperGone, KillTimesOut, FinishTransaction

\* StartAgentTunnel, StopAndWait and RecoverStaleNetworkState are entered.
LEMMA EntryStep ==
    ASSUME IInv, StartAgentTunnel \/ StopAndWait \/ RecoverStaleNetworkState
    PROVE  IInv'
<1>1. /\ pc' \in {"preflight", "load", "stop"} /\ call' \in Call
      /\ UNCHANGED <<disk, host, processes, manager>>
  BY NoCallType DEF StartAgentTunnel, StopAndWait, RecoverStaleNetworkState, Call
<1> QED
  BY <1>1, MoveType, QuietStep DEF IInv, Quiet, Running, manager

\* Processes, other network managers, a damaged primary and a crash keep it.
LEMMA EnvironmentStep ==
    ASSUME IInv, Environment
    PROVE  IInv'
<1> USE DEF disk, host, processes, manager
<1>0. TypeOK /\ JournalInHand /\ PrimaryAtStep /\ LatestOnDisk
  BY DEF IInv
<1>1. CASE WaiterClears
  BY <1>0, <1>1, OutsideStep DEF WaiterClears, TypeOK, Modes
<1>2. CASE CorruptPrimary
  BY <1>0, <1>2, JournalAssumption
     DEF CorruptPrimary, TypeOK, File, IInv, JournalInHand, PrimaryAtStep, LatestOnDisk, IsJournal
<1>3. CASE Crash
  <2>1. /\ pc' = "down" /\ call' = NoCall /\ cmd' = NoPid /\ mode' = "off"
        /\ UNCHANGED <<disk, born, ops>>
        /\ \/ UNCHANGED <<proc, host>>
           \/ /\ cmd \in Pids
              /\ proc' = [proc EXCEPT ![cmd].kind = "none"]
              /\ tun' \in {tun, FALSE}
              /\ rules' \subseteq rules
           \/ /\ cmd \in Pids
              /\ proc' = [proc EXCEPT ![cmd].kind = "none"]
              /\ UNCHANGED host
    BY <1>0, <1>3 DEF Crash, ManagedRunning, TypeOK
  <2>2. proc' \in [Pids -> Process] /\ tun' \in BOOLEAN /\ rules' \subseteq Entries
    BY <1>0, <2>1 DEF TypeOK, Process
  <2>3. TypeOK'
    BY <1>0, <2>1, <2>2, NoCallType DEF TypeOK, Modes
  <2> QED
    BY <2>1, <2>3, QuietStep DEF Quiet
<1>4. CASE Restart
  BY <1>0, <1>4, MoveType, QuietStep DEF Restart, Quiet, Outcomes, TypeOK
<1>5. ASSUME NEW p \in Pids, StartProxy(p)
      PROVE  IInv'
  <2>1. proc' \in [Pids -> Process] /\ born' \in Nat
    BY <1>0, <1>5 DEF StartProxy, Start, TypeOK, Process
  <2>2. TypeOK'
    BY <1>0, <1>5, <2>1 DEF StartProxy, TypeOK, Modes
  <2> QED
    BY <1>5, <2>2, OutsideStep DEF StartProxy
<1>6. ASSUME NEW p \in Pids, HelperApplies(p)
      PROVE  IInv'
  <2>1. TypeOK'
    BY <1>0, <1>6 DEF HelperApplies, TypeOK, Entries
  <2> QED
    BY <1>6, <2>1, OutsideStep DEF HelperApplies
<1>7. ASSUME NEW p \in Pids, ProcessExits(p)
      PROVE  IInv'
  <2>1. /\ proc' = [proc EXCEPT ![p].kind = "none"]
        /\ tun' \in {tun, FALSE} /\ rules' \subseteq rules
        /\ UNCHANGED <<disk, born, manager, pc, call>>
    BY <1>7 DEF ProcessExits
  <2>2. proc' \in [Pids -> Process]
    BY <1>0, <2>1 DEF TypeOK, Process
  <2>3. TypeOK'
    BY <1>0, <2>1, <2>2 DEF TypeOK
  <2> QED
    BY <2>1, <2>3, OutsideStep
<1>8. ASSUME NEW p \in Pids, PidReused(p)
      PROVE  IInv'
  <2>1. proc' \in [Pids -> Process] /\ born' \in Nat
    BY <1>0, <1>8 DEF PidReused, Start, TypeOK, Process
  <2>2. TypeOK'
    BY <1>0, <1>8, <2>1 DEF PidReused, TypeOK
  <2> QED
    BY <1>8, <2>2, OutsideStep DEF PidReused
<1>9. ASSUME NEW e \in Foreign, ForeignChange(e)
      PROVE  IInv'
  <2>1. TypeOK'
    BY <1>0, <1>9 DEF ForeignChange, TypeOK, Entries
  <2> QED
    BY <1>9, <2>1, OutsideStep DEF ForeignChange
<1> QED
  BY <1>1, <1>2, <1>3, <1>4, <1>5, <1>6, <1>7, <1>8, <1>9 DEF Environment

-----------------------------------------------------------------------------
(* The theorems.                                                           *)

\* A host the program has never run on satisfies the invariant.
LEMMA Initial == Init => IInv
<1> SUFFICES ASSUME Init
             PROVE  IInv
  OBVIOUS
<1>1. proc \in [Pids -> Process]
  BY DEF Init, Process, NoProcess
<1>2. TypeOK
  BY <1>1, NoCallType DEF Init, TypeOK, File, Entries, Modes, Outcomes
<1> QED
  BY <1>2 DEF Init, IInv, JournalInHand, PrimaryAtStep, LatestOnDisk, Holding, IsJournal

\* Every step of the specification keeps the invariant.
LEMMA Preserved == IInv /\ [Next]_vars => IInv'
<1> SUFFICES ASSUME IInv, [Next]_vars
             PROVE  IInv'
  OBVIOUS
<1>1. CASE UNCHANGED vars
  <2>1. UNCHANGED <<disk, host, processes, manager, pc, call>>
    BY <1>1 DEF vars
  <2>2. TypeOK'
    BY <2>1 DEF IInv, TypeOK, disk, host, processes, manager
  <2> QED
    BY <2>1, <2>2, OutsideStep DEF manager
<1>2. CASE StartAgentTunnel \/ StopAndWait \/ RecoverStaleNetworkState
  BY <1>2, EntryStep
<1>3. CASE Operation
  BY <1>3, RecoveryStep, LaunchStep, ShutdownStep DEF Operation
<1>4. CASE Environment
  BY <1>4, EnvironmentStep
<1> QED
  BY <1>1, <1>2, <1>3, <1>4 DEF Next

\* The invariant behind both theorems: the files, the step an operation is at
\* and the journal it holds agree on which transaction is the latest.
THEOREM Invariance == Spec => []IInv
  BY Initial, Preserved, PTL DEF Spec

\* The journal files, the host, the processes and the running operation stay
\* in their types; in particular no nil journal is ever written to disk.
THEOREM TypeCorrect == Spec => []TypeOK
<1>1. IInv => TypeOK
  BY DEF IInv
<1> QED
  BY <1>1, Invariance, PTL

\* Whatever is damaged and whatever crashes, no older transaction's journal
\* is loadable (beginTunnelTransaction removes the older previous-good file).
THEOREM LatestJournalOnly == Spec => []LoadableJournalIsLatest
<1>1. IInv => LoadableJournalIsLatest
  BY LoadedIsLatest, JournalAssumption DEF IInv, LoadableJournalIsLatest, LatestOnDisk, IsJournal
<1> QED
  BY <1>1, Invariance, PTL

-----------------------------------------------------------------------------
(* Where journals and processes come from, for any step.                   *)

\* The points at which the operation has a journal in hand.
Carrying == Holding \cup {"clearBackup"}

\* From the look at the recorded process to the removals it permits.
Permitted ==
    \/ pc \in {"capture", "quarantine", "removeTun", "mutate", "escalate", "verify"}
    \/ pc \in {"backup", "replace"} /\ call.next = "mutate"

\* Start times only grow.
BornInOrder == \A p \in Pids : proc[p].born <= born

\* What a step may do to the processes: end them, or start one that is younger
\* than everything before it.
ProcessesMoveOn ==
    /\ born <= born'
    /\ \A p \in Pids :
         /\ proc'[p].born <= born'
         /\ proc'[p].kind # "none" => proc'[p] = proc[p] \/ proc'[p].born > born

\* Where the journals on disk come from: a file is kept, removed, damaged,
\* copied to previous-good, or replaced by the journal in hand.
DiskMovesOn ==
    /\ \/ primary' \in {primary, Absent, Corrupt}
       \/ pc = "replace" /\ primary' = call.journal
    /\ previousGood' \in {previousGood, Absent, primary}

\* Where the journal in hand comes from.
HandMovesOn ==
    \/ /\ pc \in Carrying /\ call'.journal = call.journal
       /\ Permitted' => Permitted \/ ~RecordsLive(call.journal)
    \/ /\ pc = "load" /\ IsJournal(Loaded) /\ call'.journal = Loaded
       /\ Permitted' => ~RecordsLive(Loaded)
    \/ /\ pc = "capture"
       /\ call'.journal.pid = call.journal.pid
       /\ call'.journal.ident = call.journal.ident
       /\ call'.journal.before = call.journal.before
       /\ call'.journal.owned \in {call.journal.owned,
                                   Merge(call.journal.owned, Delta(call.journal.before, rules))}
    \/ /\ pc = "verify"
       /\ call'.journal.pid = NoPid
       /\ call'.journal.ident = 0
       /\ call'.journal.before = call.journal.before
       /\ call'.journal.owned = call.journal.owned
    \/ /\ pc = "begin" /\ NamespaceFree /\ ~Permitted'
       /\ call'.journal = Prepared(ops + 1, rules)
    \/ /\ pc = "abort" /\ IsJournal(Loaded) /\ ~Permitted'
       /\ call'.journal.pid = Loaded.pid
       /\ call'.journal.ident = Loaded.ident
       /\ call'.journal.before = Loaded.before
       /\ call'.journal.owned = Loaded.owned
    \/ /\ pc = "mark" /\ IsJournal(Loaded) /\ ~Permitted'
       /\ call'.journal = Activated(Loaded)

\* A process starts under a PID that is free, with a start time of its own.
LEMMA Starting ==
    ASSUME TypeOK, BornInOrder, NEW p \in Pids, NEW kind, NEW op \in Nat,
           Start(p, kind, op)
    PROVE  ProcessesMoveOn
<1>1. /\ born' = born + 1 /\ born \in Nat /\ proc \in [Pids -> Process]
      /\ proc' = [proc EXCEPT ![p] = [kind |-> kind, born |-> born + 1, op |-> op]]
  BY DEF Start, TypeOK
<1>2. ASSUME NEW q \in Pids
      PROVE  /\ proc'[q].born <= born'
             /\ proc'[q].kind # "none" => proc'[q] = proc[q] \/ proc'[q].born > born
  <2>1. proc[q].born \in Nat /\ proc[q].born <= born
    BY <1>1 DEF Process, BornInOrder
  <2>2. CASE q = p
    <3>1. proc'[q].born = born + 1
      BY <1>1, <2>2
    <3> QED
      BY <1>1, <3>1
  <2>3. CASE q # p
    <3>1. proc'[q] = proc[q]
      BY <1>1, <2>3
    <3> QED
      BY <1>1, <2>1, <3>1
  <2> QED
    BY <2>2, <2>3
<1> QED
  BY <1>1, <1>2 DEF ProcessesMoveOn

\* A process ends.
LEMMA Ending ==
    ASSUME TypeOK, BornInOrder, NEW p \in Pids,
           proc' = [proc EXCEPT ![p].kind = "none"], born' = born
    PROVE  ProcessesMoveOn
<1>1. proc \in [Pids -> Process] /\ born \in Nat
  BY DEF TypeOK
<1>2. ASSUME NEW q \in Pids
      PROVE  /\ proc'[q].born <= born'
             /\ proc'[q].kind # "none" => proc'[q] = proc[q] \/ proc'[q].born > born
  <2>1. proc[q].born \in Nat /\ proc[q].born <= born /\ proc[q] \in Process
    BY <1>1 DEF Process, BornInOrder
  <2>2. proc'[q] = IF q = p THEN [proc[q] EXCEPT !.kind = "none"] ELSE proc[q]
    BY <1>1
  <2>3. [proc[q] EXCEPT !.kind = "none"].kind = "none"
        /\ [proc[q] EXCEPT !.kind = "none"].born = proc[q].born
    BY <2>1 DEF Process
  <2> QED
    BY <2>1, <2>2, <2>3
<1> QED
  BY <1>1, <1>2 DEF ProcessesMoveOn

\* Nothing happens to the processes.
LEMMA Standing ==
    ASSUME TypeOK, BornInOrder, UNCHANGED processes
    PROVE  ProcessesMoveOn
<1>1. proc \in [Pids -> Process] /\ born \in Nat
  BY DEF TypeOK
<1>2. \A q \in Pids : proc[q].born \in Nat
  BY <1>1 DEF Process
<1> QED
  BY <1>1, <1>2 DEF processes, ProcessesMoveOn, BornInOrder

\* Every step of the system only ends processes and starts younger ones.
LEMMA MovingOn ==
    ASSUME IInv, BornInOrder, [Next]_vars
    PROVE  ProcessesMoveOn
<1>0. TypeOK
  BY DEF IInv
<1>1. CASE UNCHANGED processes
  BY <1>0, <1>1, Standing
<1>2. CASE \E p \in Pids : SpawnHelper(p)
  <2>1. PICK p \in Pids : SpawnHelper(p)
    BY <1>2
  <2>2. call.journal.op \in Nat
    BY <2>1 DEF IInv, JournalInHand, SpawnHelper, Holding, Journal
  <2> QED
    BY <1>0, <2>1, <2>2, Starting DEF SpawnHelper
<1>3. CASE \E p \in Pids : StartProxy(p) \/ PidReused(p)
  BY <1>0, <1>3, Starting DEF StartProxy, PidReused
<1>4. CASE \E p \in Pids : ProcessExits(p)
  BY <1>0, <1>4, Ending DEF ProcessExits
<1>5. CASE Crash
  <2>1. CASE UNCHANGED proc
    BY <1>0, <1>5, <2>1, Standing DEF Crash, processes
  <2>2. CASE proc' = [proc EXCEPT ![cmd].kind = "none"] /\ cmd \in Pids
    BY <1>0, <1>5, <2>2, Ending DEF Crash
  <2> QED
    BY <1>0, <1>5, <2>1, <2>2 DEF Crash, ManagedRunning, TypeOK
<1>6. CASE Recovery
  BY <1>1, <1>6
     DEF Recovery, LoadJournal, CompareIdentity, CaptureStale, QuarantinePrimary, BackUpPrimary, ReplacePrimary,
         WriteFails, RemoveTun, RemoveEntry, RemovalDone, RemovalDenied, PrivilegedRecovery,
         RecoveryFails, VerifyRecovery, SaveLastClean, DropPrimary, DropPreviousGood, StepFails
<1>7. CASE Shutdown
  BY <1>1, <1>7
     DEF Shutdown, BeginStop, SignalHelper, SignalTooLate, HelperGone, StopTimesOut,
         KillTimesOut, FinishTransaction
<1>8. CASE Launch /\ ~ \E p \in Pids : SpawnHelper(p)
  BY <1>1, <1>8
     DEF Launch, AgentTunnelPreflight, CheckHost, ClearPreviousGood, SpawnFails, AbortPrepared,
         HelperReady, HelperNotReady, MarkTunnelActive, MarkFails, processes
<1>9. CASE StartAgentTunnel \/ StopAndWait \/ RecoverStaleNetworkState
  BY <1>1, <1>9 DEF StartAgentTunnel, StopAndWait, RecoverStaleNetworkState
<1>10. CASE WaiterClears \/ CorruptPrimary \/ Restart
            \/ (\E p \in Pids : HelperApplies(p)) \/ (\E e \in Foreign : ForeignChange(e))
  BY <1>1, <1>10 DEF WaiterClears, CorruptPrimary, Restart, HelperApplies, ForeignChange
<1>11. CASE UNCHANGED vars
  BY <1>1, <1>11 DEF vars
<1> QED
  BY <1>2, <1>3, <1>4, <1>5, <1>6, <1>7, <1>8, <1>9, <1>10, <1>11
     DEF Next, Operation, Environment

\* Every step leaves the journal files, removes or damages one, backs one up or
\* writes the journal in hand.
LEMMA DiskMoving ==
    ASSUME [Next]_vars
    PROVE  DiskMovesOn
<1> USE DEF disk
<1>1. CASE UNCHANGED disk
  BY <1>1 DEF DiskMovesOn
<1>2. CASE QuarantinePrimary \/ DropPrimary \/ CorruptPrimary \/ BackUpPrimary \/ ReplacePrimary
  BY <1>2 DEF QuarantinePrimary, DropPrimary, CorruptPrimary, BackUpPrimary, ReplacePrimary, DiskMovesOn
<1>3. CASE DropPreviousGood \/ ClearPreviousGood \/ SaveLastClean \/ WriteFails \/ StepFails
  BY <1>3
     DEF DropPreviousGood, ClearPreviousGood, SaveLastClean, WriteFails, StepFails, DiskMovesOn
<1>4. CASE \/ LoadJournal \/ CompareIdentity \/ CaptureStale \/ RemoveTun
           \/ (\E e \in Entries : RemoveEntry(e)) \/ RemovalDone \/ RemovalDenied
           \/ PrivilegedRecovery \/ RecoveryFails \/ VerifyRecovery
  BY <1>1, <1>4
     DEF LoadJournal, CompareIdentity, CaptureStale, RemoveTun, RemoveEntry, RemovalDone,
         RemovalDenied, PrivilegedRecovery, RecoveryFails, VerifyRecovery
<1>5. CASE Shutdown
  BY <1>1, <1>5
     DEF Shutdown, BeginStop, SignalHelper, SignalTooLate, HelperGone, StopTimesOut,
         KillTimesOut, FinishTransaction
<1>6. CASE \/ AgentTunnelPreflight \/ CheckHost
           \/ (\E p \in Pids : SpawnHelper(p)) \/ SpawnFails \/ AbortPrepared
           \/ HelperReady \/ HelperNotReady \/ MarkTunnelActive \/ MarkFails
  BY <1>1, <1>6
     DEF AgentTunnelPreflight, CheckHost, SpawnHelper, SpawnFails, AbortPrepared,
         HelperReady, HelperNotReady, MarkTunnelActive, MarkFails
<1>7. CASE StartAgentTunnel \/ StopAndWait \/ RecoverStaleNetworkState
  BY <1>1, <1>7 DEF StartAgentTunnel, StopAndWait, RecoverStaleNetworkState
<1>8. CASE \/ WaiterClears \/ Restart \/ Crash
           \/ (\E p \in Pids : \/ StartProxy(p) \/ HelperApplies(p)
                               \/ ProcessExits(p) \/ PidReused(p))
           \/ \E e \in Foreign : ForeignChange(e)
  BY <1>1, <1>8
     DEF WaiterClears, Restart, Crash, StartProxy, HelperApplies, ProcessExits, PidReused,
         ForeignChange
<1>9. CASE UNCHANGED vars
  BY <1>1, <1>9 DEF vars
<1> QED
  BY <1>2, <1>3, <1>4, <1>5, <1>6, <1>7, <1>8, <1>9
     DEF Next, Operation, Environment, Recovery, Launch

\* An operation that has returned, was rolled back or died has nothing in hand.
LEMMA EmptyHanded ==
    ASSUME TypeOK, pc' \in Carrying
    PROVE  /\ \A ok \in BOOLEAN : ~Finish(ok)
           /\ ~Rollback
           /\ \A ok \in BOOLEAN : ~Return(ok)
  BY DEF Finish, Rollback, Return, Carrying, Holding

\* Every step that ends with a journal in hand had it before, loaded it, or
\* made it of the one it had, of the one it loaded or of the host it saw.
LEMMA HandMoving ==
    ASSUME IInv, [Next]_vars, pc' \in Carrying
    PROVE  HandMovesOn
<1>0. TypeOK /\ JournalInHand
  BY DEF IInv
<1>a. /\ \A ok \in BOOLEAN : ~Finish(ok) /\ ~Return(ok)
      /\ ~Rollback
  BY <1>0, EmptyHanded
<1>1. CASE UNCHANGED <<pc, call>>
  BY <1>1 DEF HandMovesOn, Permitted
<1>2. CASE LoadJournal
  <2>1. /\ pc = "load" /\ IsJournal(Loaded)
        /\ Permitted' => ~RecordsLive(Loaded)
        /\ call' = [call EXCEPT !.journal = Loaded,
                      !.fromBackup = LoadedFromBackup(primary, previousGood, lastClean)]
    BY <1>2, <1>a DEF LoadJournal, IsJournal, Permitted, RecordsLive
  <2>2. call'.journal = Loaded
    BY <1>0, <2>1 DEF TypeOK, Call
  <2> QED
    BY <2>1, <2>2 DEF HandMovesOn
<1>3. CASE CaptureStale
  <2> DEFINE j == call.journal
             claimed == IF j.observed THEN j.owned
                        ELSE Merge(j.owned, Delta(j.before, rules))
             stale == [j EXCEPT !.owned = claimed, !.phase = "recovering"]
  <2>1. /\ pc = "capture" /\ j \in Journal
        /\ \/ call' = [call EXCEPT !.journal = stale]
           \/ call' = [call EXCEPT !.journal = stale, !.next = "mutate"]
    BY <1>0, <1>3 DEF CaptureStale, WriteJournal, JournalInHand, Holding
  <2>2. /\ stale.pid = j.pid /\ stale.ident = j.ident /\ stale.before = j.before
        /\ stale.owned = claimed
    BY <2>1 DEF Journal
  <2> HIDE DEF stale
  <2>3. call'.journal = stale
    BY <1>0, <2>1 DEF TypeOK, Call
  <2> QED
    BY <2>1, <2>2, <2>3 DEF HandMovesOn
<1>4. CASE QuarantinePrimary
  <2>1. /\ pc = "quarantine" /\ call' = [call EXCEPT !.fromBackup = FALSE, !.next = "mutate"]
    BY <1>4 DEF QuarantinePrimary
  <2>2. call'.journal = call.journal
    BY <1>0, <2>1 DEF TypeOK, Call
  <2> QED
    BY <2>1, <2>2 DEF HandMovesOn, Carrying, Holding, Permitted
<1>5. CASE BackUpPrimary
  BY <1>5 DEF BackUpPrimary, Goto, HandMovesOn, Carrying, Holding, Permitted
<1>6. CASE ReplacePrimary
  <2>1. pc = "replace"
    BY <1>6 DEF ReplacePrimary
  <2>2. CASE call.next = "spawn" /\ Goto("spawn")
    BY <2>1, <2>2 DEF Goto, HandMovesOn, Carrying, Holding, Permitted
  <2>3. CASE /\ call.next = "mutate" /\ pc' = "removeTun"
             /\ call' = [call EXCEPT !.todo = call.journal.owned]
    <3>1. call'.journal = call.journal
      BY <1>0, <2>3 DEF TypeOK, Call
    <3> QED
      BY <2>1, <2>3, <3>1 DEF HandMovesOn, Carrying, Holding, Permitted
  <2>4. call.next \in {"spawn", "done", "mutate", "fail"}
    BY <1>0, <2>1 DEF TypeOK, Call, JournalInHand
  <2> QED
    BY <1>6, <1>a, <2>2, <2>3, <2>4 DEF ReplacePrimary, AfterWrite
<1>7. CASE RemoveTun \/ RemovalDone
  BY <1>7 DEF RemoveTun, RemovalDone, Goto, HandMovesOn, Carrying, Holding, Permitted
<1>b. CASE PrivilegedRecovery
  <2>1. pc = "escalate" /\ call' = [call EXCEPT !.asRoot = TRUE, !.todo = Reserved]
    BY <1>b DEF PrivilegedRecovery
  <2>2. call'.journal = call.journal
    BY <1>0, <2>1 DEF TypeOK, Call
  <2> QED
    BY <2>1, <2>2 DEF HandMovesOn, Carrying, Holding, Permitted
<1>c. CASE CompareIdentity
  <2>1. pc = "identity" /\ call' = call /\ ~RecordsLive(call.journal)
    BY <1>a, <1>c DEF CompareIdentity, Goto, RecordsLive
  <2> QED
    BY <2>1 DEF HandMovesOn, Carrying, Holding
<1>8. ASSUME NEW e \in Entries, RemoveEntry(e)
      PROVE  HandMovesOn
  <2>1. pc = "mutate" /\ pc' = pc /\ call' = [call EXCEPT !.todo = @ \ {e}]
    BY <1>8 DEF RemoveEntry
  <2>2. call'.journal = call.journal
    BY <1>0, <2>1 DEF TypeOK, Call
  <2> QED
    BY <2>1, <2>2 DEF HandMovesOn, Carrying, Holding, Permitted
<1>9. CASE RemovalDenied
  <2>1. pc \in {"removeTun", "mutate"} /\ call' = [call EXCEPT !.todo = {}]
    BY <1>9 DEF RemovalDenied
  <2>2. call'.journal = call.journal
    BY <1>0, <2>1 DEF TypeOK, Call
  <2> QED
    BY <2>1, <2>2 DEF HandMovesOn, Carrying, Holding, Permitted
<1>10. CASE RecoveryFails
  <2>1. pc = "escalate" /\ call' = [call EXCEPT !.journal = call.journal, !.next = "fail"]
    BY <1>10 DEF RecoveryFails, WriteJournal
  <2>2. call'.journal = call.journal
    BY <1>0, <2>1 DEF TypeOK, Call
  <2> QED
    BY <2>1, <2>2 DEF HandMovesOn, Carrying, Holding, Permitted
<1>11. CASE VerifyRecovery
  <2>1. CASE pc = "verify" /\ call' = [call EXCEPT !.journal = call.journal, !.next = "fail"]
    <3>1. call'.journal = call.journal
      BY <1>0, <2>1 DEF TypeOK, Call
    <3> QED
      BY <2>1, <3>1 DEF HandMovesOn, Carrying, Holding, Permitted
  <2>2. CASE /\ pc = "verify"
             /\ call' = [call EXCEPT !.journal.phase = "clean",
                                     !.journal.pid = NoPid, !.journal.ident = 0]
    <3>1. /\ call'.journal.pid = NoPid /\ call'.journal.ident = 0
          /\ call'.journal.before = call.journal.before
          /\ call'.journal.owned = call.journal.owned
      BY <1>0, <2>2 DEF TypeOK, Call, Journal, JournalInHand, Holding
    <3> QED
      BY <2>2, <3>1 DEF HandMovesOn
  <2> QED
    BY <1>11, <1>a, <2>1, <2>2 DEF VerifyRecovery, WriteJournal
<1>12. CASE CheckHost
  <2>1. /\ pc = "begin" /\ NamespaceFree /\ pc' = "clearBackup"
        /\ call' = [call EXCEPT !.journal = Prepared(ops + 1, rules)]
    BY <1>12, <1>a DEF CheckHost
  <2>2. call'.journal = Prepared(ops + 1, rules)
    BY <1>0, <2>1 DEF TypeOK, Call
  <2> QED
    BY <2>1, <2>2 DEF HandMovesOn, Permitted
<1>13. CASE ClearPreviousGood
  <2>1. /\ pc = "clearBackup" /\ pc' = "backup"
        /\ call' = [call EXCEPT !.journal = call.journal, !.next = "spawn"]
    BY <1>13 DEF ClearPreviousGood, WriteJournal
  <2>2. call'.journal = call.journal /\ call'.next = "spawn"
    BY <1>0, <2>1 DEF TypeOK, Call
  <2> QED
    BY <2>1, <2>2 DEF HandMovesOn, Carrying, Permitted
<1>14. CASE AbortPrepared
  <2>1. /\ pc = "abort" /\ IsJournal(Loaded) /\ pc' = "saveClean"
        /\ call' = [call EXCEPT !.journal = [Loaded EXCEPT !.phase = "aborted-before-network-apply"],
                                !.ret = "abort"]
    BY <1>14, <1>a DEF AbortPrepared
  <2>2. Loaded \in Journal
    BY <2>1, LoadedIsLatest DEF IInv
  <2>3. call'.journal = [Loaded EXCEPT !.phase = "aborted-before-network-apply"]
    BY <1>0, <2>1 DEF TypeOK, Call
  <2> QED
    BY <2>1, <2>2, <2>3 DEF HandMovesOn, Permitted, Journal
<1>15. CASE MarkTunnelActive
  <2>1. /\ pc = "mark" /\ IsJournal(Loaded) /\ pc' = "backup"
        /\ call' = [call EXCEPT !.journal = Activated(Loaded), !.next = "done"]
    BY <1>15, <1>a DEF MarkTunnelActive, WriteJournal
  <2>2. call'.journal = Activated(Loaded) /\ call'.next = "done"
    BY <1>0, <2>1 DEF TypeOK, Call
  <2> QED
    BY <2>1, <2>2 DEF HandMovesOn, Permitted
<1>16. CASE \/ WriteFails \/ SaveLastClean \/ DropPrimary \/ DropPreviousGood \/ StepFails
            \/ AgentTunnelPreflight \/ (\E p \in Pids : SpawnHelper(p)) \/ SpawnFails
            \/ HelperReady \/ HelperNotReady \/ MarkFails
  BY <1>16, <1>a
     DEF WriteFails, SaveLastClean, DropPrimary, DropPreviousGood, StepFails, Goto, Carrying, Holding,
         AgentTunnelPreflight, SpawnHelper, SpawnFails, HelperReady, HelperNotReady, MarkFails
<1>17. CASE Shutdown
  BY <1>17, <1>a
     DEF Shutdown, BeginStop, SignalHelper, SignalTooLate, HelperGone, StopTimesOut,
         KillTimesOut, FinishTransaction, Goto, Carrying, Holding
<1>18. CASE StartAgentTunnel \/ StopAndWait \/ RecoverStaleNetworkState \/ Crash \/ Restart
  BY <1>18 DEF StartAgentTunnel, StopAndWait, RecoverStaleNetworkState, Crash, Restart, Carrying, Holding
<1>19. CASE \/ WaiterClears \/ CorruptPrimary
            \/ (\E p \in Pids : \/ StartProxy(p) \/ HelperApplies(p)
                                \/ ProcessExits(p) \/ PidReused(p))
            \/ \E e \in Foreign : ForeignChange(e)
  BY <1>1, <1>19
     DEF WaiterClears, CorruptPrimary, StartProxy, HelperApplies, ProcessExits, PidReused,
         ForeignChange
<1>20. CASE UNCHANGED vars
  BY <1>1, <1>20 DEF vars
<1> QED
  BY <1>2, <1>3, <1>4, <1>5, <1>6, <1>7, <1>8, <1>9, <1>10, <1>11, <1>12, <1>13, <1>14, <1>15,
     <1>16, <1>17, <1>18, <1>19, <1>20, <1>b, <1>c
     DEF Next, Operation, Environment, Recovery, Launch

-----------------------------------------------------------------------------
(* What recovery may do to the host, whatever fails.                       *)

\* What every journal of the program says: it claims the whole reserved
\* namespace and nothing that was on the host before, and the process it names
\* was started by now.
Honest(j) ==
    /\ Reserved \subseteq j.owned
    /\ j.owned \cap j.before = {}
    /\ j.ident <= born

JournalsAreHonest ==
    /\ IsJournal(primary) => Honest(primary)
    /\ IsJournal(previousGood) => Honest(previousGood)
    /\ pc \in Carrying => Honest(call.journal)

\* The look at the recorded process stays true: nothing that starts later can
\* be taken for it.
RecordedIsDead == Permitted => ~RecordsLive(call.journal)

RemovesClaimed == pc \in {"removeTun", "mutate"} => call.todo \subseteq call.journal.owned

\* Inductive together with IInv.
EInv == BornInOrder /\ JournalsAreHonest /\ RecordedIsDead /\ RemovesClaimed

\* Journals stay honest while processes come and go.
LEMMA HonestStays ==
    ASSUME TypeOK, TypeOK', born <= born', NEW j \in Journal, Honest(j)
    PROVE  Honest(j)'
  BY DEF Honest, TypeOK, Journal

\* The journal that recovery, the preparation, the abort or the activation
\* makes is honest again.
LEMMA HandIsHonest ==
    ASSUME IInv, IInv', EInv, ProcessesMoveOn, HandMovesOn, pc' \in Carrying
    PROVE  Honest(call.journal)'
<1>0. /\ TypeOK /\ TypeOK' /\ born \in Nat /\ born' \in Nat /\ born <= born'
      /\ JournalInHand /\ JournalInHand'
  BY DEF IInv, TypeOK, ProcessesMoveOn
<1>1. /\ pc \in Carrying => call.journal \in Journal /\ Honest(call.journal)
      /\ IsJournal(Loaded) => Loaded \in Journal /\ Honest(Loaded)
  <2>1. IsJournal(Loaded) => Loaded \in Journal
    BY LoadedIsLatest DEF IInv
  <2>2. IsJournal(Loaded) => Loaded = primary \/ Loaded = previousGood
    BY JournalAssumption DEF Loaded, Load, IsJournal
  <2> QED
    BY <1>0, <2>1, <2>2 DEF EInv, JournalsAreHonest, JournalInHand, Carrying
<1>2. call'.journal \in Journal
  BY <1>0 DEF JournalInHand, Carrying
<1>3. ASSUME NEW j \in Journal, Honest(j),
             call'.journal.before = j.before,
             call'.journal.owned \in {j.owned, Merge(j.owned, Delta(j.before, rules))},
             call'.journal.ident = j.ident \/ call'.journal.ident <= born
      PROVE  Honest(call.journal)'
  <2>1. call'.journal.ident <= born'
    BY <1>0, <1>2, <1>3 DEF Honest, Journal
  <2> QED
    BY <1>3, <2>1 DEF Honest, Merge, Delta
<1>4. CASE pc \in Carrying /\ call'.journal = call.journal
  BY <1>1, <1>3, <1>4
<1>5. CASE IsJournal(Loaded) /\ call'.journal = Loaded
  BY <1>1, <1>3, <1>5
<1>6. CASE /\ pc = "capture"
           /\ call'.journal.pid = call.journal.pid
           /\ call'.journal.ident = call.journal.ident
           /\ call'.journal.before = call.journal.before
           /\ call'.journal.owned \in {call.journal.owned,
                                       Merge(call.journal.owned, Delta(call.journal.before, rules))}
  BY <1>1, <1>3, <1>6 DEF Carrying, Holding
<1>7. CASE /\ pc = "verify"
           /\ call'.journal.ident = 0
           /\ call'.journal.before = call.journal.before
           /\ call'.journal.owned = call.journal.owned
  BY <1>0, <1>1, <1>3, <1>7 DEF Carrying, Holding
<1>8. CASE NamespaceFree /\ call'.journal = Prepared(ops + 1, rules)
  BY <1>0, <1>8 DEF Honest, NamespaceFree, Prepared
<1>9. CASE /\ IsJournal(Loaded)
           /\ call'.journal.ident = Loaded.ident
           /\ call'.journal.before = Loaded.before
           /\ call'.journal.owned = Loaded.owned
  BY <1>1, <1>3, <1>9
<1>10. CASE IsJournal(Loaded) /\ call'.journal = Activated(Loaded)
  <2>1. (IF ManagedRunning THEN proc[cmd].born ELSE 0) <= born
    BY <1>0 DEF EInv, BornInOrder, ManagedRunning, TypeOK
  <2>2. /\ Activated(Loaded).before = Loaded.before
        /\ Activated(Loaded).owned = Merge(Loaded.owned, Delta(Loaded.before, rules))
        /\ Activated(Loaded).ident = IF ManagedRunning THEN proc[cmd].born ELSE 0
    BY <1>1, <1>10 DEF Activated, Journal
  <2> QED
    BY <1>1, <1>3, <1>10, <2>1, <2>2
<1> QED
  BY <1>4, <1>5, <1>6, <1>7, <1>8, <1>9, <1>10 DEF HandMovesOn

\* A process that was looked up and found dead does not come back: a new
\* process under its PID has a later start time than any journal records.
LEMMA DeadStaysDead ==
    ASSUME IInv, IInv', EInv, ProcessesMoveOn, HandMovesOn, Permitted'
    PROVE  ~RecordsLive(call.journal)'
<1>0. /\ TypeOK /\ TypeOK' /\ born \in Nat /\ JournalInHand /\ JournalInHand'
  BY DEF IInv, TypeOK
<1>1. call'.journal \in Journal
  BY <1>0 DEF JournalInHand, Permitted, Holding
<1>2. ASSUME NEW j \in Journal, Honest(j), ~RecordsLive(j),
             call'.journal.pid = j.pid, call'.journal.ident = j.ident
      PROVE  ~RecordsLive(call.journal)'
  <2>1. CASE j.pid = NoPid
    BY <1>2, <2>1 DEF RecordsLive
  <2>2. CASE j.pid \in Pids
    <3>1. \/ proc'[j.pid].kind = "none"
          \/ proc'[j.pid] = proc[j.pid]
          \/ proc'[j.pid].born > born
      BY <2>2 DEF ProcessesMoveOn
    <3>2. j.ident \in Nat /\ j.ident <= born
      BY <1>2 DEF Honest, Journal
    <3>3. proc'[j.pid].born \in Nat
      BY <1>0, <2>2 DEF TypeOK, Process
    <3> QED
      BY <1>0, <1>2, <2>2, <3>1, <3>2, <3>3 DEF RecordsLive, Alive
  <2> QED
    BY <1>2, <2>1, <2>2 DEF Journal
<1>3. CASE /\ pc \in Carrying /\ call'.journal = call.journal
           /\ Permitted \/ ~RecordsLive(call.journal)
  <2>1. call.journal \in Journal /\ Honest(call.journal) /\ ~RecordsLive(call.journal)
    BY <1>0, <1>3
       DEF EInv, JournalsAreHonest, RecordedIsDead, JournalInHand, Carrying
  <2> QED
    BY <1>2, <1>3, <2>1
<1>4. CASE IsJournal(Loaded) /\ ~RecordsLive(Loaded) /\ call'.journal = Loaded
  <2>1. Loaded \in Journal /\ (Loaded = primary \/ Loaded = previousGood)
    BY <1>0, <1>4, LoadedIsLatest, JournalAssumption DEF IInv, Loaded, Load, IsJournal
  <2>2. Honest(Loaded)
    BY <1>4, <2>1 DEF EInv, JournalsAreHonest
  <2> QED
    BY <1>2, <1>4, <2>1, <2>2
<1>5. CASE /\ pc = "capture"
           /\ call'.journal.pid = call.journal.pid
           /\ call'.journal.ident = call.journal.ident
  <2>1. call.journal \in Journal /\ Honest(call.journal) /\ ~RecordsLive(call.journal)
    BY <1>0, <1>5
       DEF EInv, JournalsAreHonest, RecordedIsDead, JournalInHand, Permitted, Carrying, Holding
  <2> QED
    BY <1>2, <1>5, <2>1
<1>6. CASE call'.journal.pid = NoPid
  BY <1>6 DEF RecordsLive
<1> QED
  BY <1>3, <1>4, <1>5, <1>6 DEF HandMovesOn

\* Recovery starts from the claim of the journal it has just written, and only
\* crosses entries off.
LEMMA ClaimsStay ==
    ASSUME IInv, JournalsAreHonest, RemovesClaimed, [Next]_vars
    PROVE  RemovesClaimed'
<1> SUFFICES ASSUME pc' \in {"removeTun", "mutate"}
             PROVE  call'.todo \subseteq call'.journal.owned
  BY DEF RemovesClaimed
<1>0. TypeOK /\ JournalInHand
  BY DEF IInv
<1>a. /\ \A ok \in BOOLEAN : ~Finish(ok) /\ ~Return(ok)
      /\ ~Rollback
  BY <1>0, EmptyHanded DEF Carrying, Holding
<1>1. CASE UNCHANGED <<pc, call>>
  BY <1>1 DEF RemovesClaimed
<1>2. CASE RemoveTun
  BY <1>2 DEF RemoveTun, Goto, RemovesClaimed
<1>3. ASSUME NEW e \in Entries, RemoveEntry(e)
      PROVE  call'.todo \subseteq call'.journal.owned
  <2>1. pc = "mutate" /\ call' = [call EXCEPT !.todo = @ \ {e}]
    BY <1>3 DEF RemoveEntry
  <2>2. call'.journal = call.journal /\ call'.todo = call.todo \ {e}
    BY <1>0, <2>1 DEF TypeOK, Call
  <2> QED
    BY <2>1, <2>2 DEF RemovesClaimed
<1>4. CASE ReplacePrimary
  <2>1. call' = [call EXCEPT !.todo = call.journal.owned]
    <3>1. call.next \in {"spawn", "done", "mutate", "fail"}
      BY <1>0, <1>4 DEF TypeOK, Call, JournalInHand, ReplacePrimary
    <3> QED
      BY <1>4, <1>a, <3>1 DEF ReplacePrimary, AfterWrite, Goto
  <2> QED
    BY <1>0, <2>1 DEF TypeOK, Call
<1>b. CASE PrivilegedRecovery
  <2>1. pc = "escalate" /\ call' = [call EXCEPT !.asRoot = TRUE, !.todo = Reserved]
    BY <1>b DEF PrivilegedRecovery
  <2>2. call'.journal = call.journal /\ call'.todo = Reserved
    BY <1>0, <2>1 DEF TypeOK, Call
  <2> QED
    BY <2>1, <2>2 DEF JournalsAreHonest, Honest, Carrying, Holding
<1>5. CASE \/ LoadJournal \/ CompareIdentity \/ CaptureStale \/ QuarantinePrimary
           \/ BackUpPrimary \/ WriteFails \/ RemovalDone \/ RemovalDenied \/ RecoveryFails
           \/ VerifyRecovery \/ SaveLastClean \/ DropPrimary \/ DropPreviousGood \/ StepFails
  BY <1>5, <1>a
     DEF LoadJournal, CompareIdentity, CaptureStale, WriteJournal, QuarantinePrimary,
         BackUpPrimary, WriteFails, RemovalDone, RemovalDenied, RecoveryFails, VerifyRecovery,
         SaveLastClean, DropPrimary, DropPreviousGood, StepFails, Goto
<1>6. CASE Launch
  BY <1>6, <1>a
     DEF Launch, AgentTunnelPreflight, CheckHost, ClearPreviousGood, SpawnHelper, SpawnFails,
         AbortPrepared, HelperReady, HelperNotReady, MarkTunnelActive, MarkFails, Goto, WriteJournal
<1>7. CASE Shutdown
  BY <1>7, <1>a
     DEF Shutdown, BeginStop, SignalHelper, SignalTooLate, HelperGone, StopTimesOut,
         KillTimesOut, FinishTransaction, Goto
<1>8. CASE StartAgentTunnel \/ StopAndWait \/ RecoverStaleNetworkState \/ Crash \/ Restart
  BY <1>8 DEF StartAgentTunnel, StopAndWait, RecoverStaleNetworkState, Crash, Restart
<1>9. CASE \/ WaiterClears \/ CorruptPrimary
           \/ (\E p \in Pids : \/ StartProxy(p) \/ HelperApplies(p)
                               \/ ProcessExits(p) \/ PidReused(p))
           \/ \E e \in Foreign : ForeignChange(e)
  BY <1>1, <1>9
     DEF WaiterClears, CorruptPrimary, StartProxy, HelperApplies, ProcessExits, PidReused,
         ForeignChange
<1>10. CASE UNCHANGED vars
  BY <1>1, <1>10 DEF vars
<1> QED
  BY <1>2, <1>3, <1>4, <1>5, <1>6, <1>7, <1>8, <1>9, <1>10, <1>b
     DEF Next, Operation, Environment, Recovery

\* Every step keeps the journals honest, the recorded process dead and the
\* removals within the claim.
LEMMA HostPreserved == IInv /\ EInv /\ [Next]_vars => EInv'
<1> SUFFICES ASSUME IInv, EInv, [Next]_vars
             PROVE  EInv'
  OBVIOUS
<1>1. IInv' /\ TypeOK /\ TypeOK'
  BY Preserved DEF IInv
<1>2. ProcessesMoveOn /\ DiskMovesOn
  BY MovingOn, DiskMoving DEF EInv
<1>3. BornInOrder'
  BY <1>2 DEF BornInOrder, ProcessesMoveOn
<1>4. RemovesClaimed'
  BY ClaimsStay DEF EInv
<1>5. pc' \in Carrying => HandMovesOn
  BY HandMoving
<1>6. pc' \in Carrying => Honest(call.journal)'
  BY <1>1, <1>2, <1>5, HandIsHonest
<1>7. RecordedIsDead'
  <2>1. Permitted' => pc' \in Carrying
    BY DEF Permitted, Carrying, Holding
  <2> QED
    BY <1>1, <1>2, <1>5, <2>1, DeadStaysDead DEF RecordedIsDead
<1>8. born <= born'
  BY <1>2 DEF ProcessesMoveOn
<1>9. ASSUME NEW f \in File, IsJournal(f), Honest(f)
      PROVE  Honest(f)'
  BY <1>1, <1>8, <1>9, HonestStays DEF File, IsJournal
<1>10. (IsJournal(primary) => Honest(primary))'
  <2>1. CASE primary' \in {primary, Absent, Corrupt}
    BY <1>1, <1>9, <2>1 DEF EInv, JournalsAreHonest, IsJournal, TypeOK, Honest
  <2>2. CASE pc = "replace" /\ primary' = call.journal
    <3>1. call.journal \in Journal /\ Honest(call.journal)
      BY <2>2 DEF IInv, JournalInHand, EInv, JournalsAreHonest, Carrying, Holding
    <3> QED
      BY <1>1, <1>8, <2>2, <3>1, HonestStays DEF Honest
  <2> QED
    BY <1>2, <2>1, <2>2 DEF DiskMovesOn
<1>11. (IsJournal(previousGood) => Honest(previousGood))'
  BY <1>1, <1>2, <1>9 DEF DiskMovesOn, EInv, JournalsAreHonest, IsJournal, TypeOK, Honest
<1> QED
  BY <1>3, <1>4, <1>6, <1>7, <1>10, <1>11 DEF EInv, JournalsAreHonest

\* A host the program has never run on.
LEMMA HostInitial == Init => EInv
  BY DEF Init, EInv, BornInOrder, JournalsAreHonest, IsJournal, RecordedIsDead, Permitted,
         RemovesClaimed, Carrying, Holding, NoProcess

\* Every journal the program ever writes or loads claims the reserved
\* namespace and nothing older, and recovery works only for a dead process.
THEOREM HostInvariance == Spec => [](IInv /\ EInv)
  BY Initial, Preserved, HostInitial, HostPreserved, PTL DEF Spec

\* A step that changes the host for recovery takes no entry that was there
\* when the transaction began: the TUN step takes none, and the loop takes one
\* that the journal claims, whether the user or the root helper runs it.
LEMMA RemovalsAreOwned ==
    ASSUME IInv, EInv, [Next]_vars, Mutation
    PROVE  /\ (rules \ rules') \cap call.journal.before = {}
           /\ ~RecordsLive(call.journal)
<1>0. /\ TypeOK /\ pc \in Carrying /\ Honest(call.journal)
      /\ ~RecordsLive(call.journal)
  BY DEF IInv, EInv, Mutation, JournalsAreHonest, RecordedIsDead, Carrying, Holding, Permitted
<1>1. CASE RemoveTun
  BY <1>0, <1>1 DEF RemoveTun
<1>2. ASSUME NEW e \in Entries, RemoveEntry(e)
      PROVE  (rules \ rules') \cap call.journal.before = {}
  <2>1. e \in call.journal.owned /\ rules \ rules' \subseteq {e}
    BY <1>2 DEF RemoveEntry, EInv, RemovesClaimed
  <2> QED
    BY <1>0, <2>1 DEF Honest
<1>4. CASE \/ LoadJournal \/ CompareIdentity \/ CaptureStale \/ QuarantinePrimary
           \/ BackUpPrimary \/ ReplacePrimary \/ WriteFails \/ RemovalDone \/ RemovalDenied
           \/ PrivilegedRecovery \/ RecoveryFails \/ VerifyRecovery
           \/ SaveLastClean \/ DropPrimary \/ DropPreviousGood \/ StepFails
  BY <1>4
     DEF Mutation, LoadJournal, CompareIdentity, CaptureStale, QuarantinePrimary, BackUpPrimary,
         ReplacePrimary, WriteFails, RemovalDone, RemovalDenied, PrivilegedRecovery,
         RecoveryFails, VerifyRecovery, SaveLastClean, DropPrimary, DropPreviousGood,
         StepFails, Goto, WriteJournal, Finish
<1>5. CASE Launch \/ Shutdown
  BY <1>5
     DEF Mutation, Launch, AgentTunnelPreflight, CheckHost, ClearPreviousGood, SpawnHelper,
         SpawnFails, AbortPrepared, HelperReady, HelperNotReady, MarkTunnelActive, MarkFails,
         Shutdown, BeginStop, SignalHelper, SignalTooLate, HelperGone, StopTimesOut,
         KillTimesOut, FinishTransaction
<1>6. CASE StartAgentTunnel \/ StopAndWait \/ RecoverStaleNetworkState \/ Crash \/ Restart
  BY <1>6
     DEF Mutation, StartAgentTunnel, StopAndWait, RecoverStaleNetworkState, Crash, Restart
<1>7. CASE \/ WaiterClears \/ CorruptPrimary
           \/ (\E p \in Pids : \/ StartProxy(p) \/ HelperApplies(p)
                               \/ ProcessExits(p) \/ PidReused(p))
           \/ \E e \in Foreign : ForeignChange(e)
  BY <1>7
     DEF Mutation, WaiterClears, CorruptPrimary, StartProxy, HelperApplies, ProcessExits, PidReused,
         ForeignChange
<1>8. CASE UNCHANGED vars
  BY <1>8 DEF Mutation, vars
<1> QED
  BY <1>0, <1>1, <1>2, <1>4, <1>5, <1>6, <1>7, <1>8
     DEF Next, Operation, Environment, Recovery

\* Recovery never removes what was on the host before the transaction, however
\* often it is repeated and whatever fails in between (deriveOwnedNetworkDelta,
\* validateReservedTunnelOwnership).
THEOREM RecoveryIsSafe == Spec => PreexistingEntriesSurvive
<1>1. IInv /\ EInv /\ [Next]_vars => [Mutation => (rules \ rules') \cap call.journal.before = {}]_vars
  BY RemovalsAreOwned
<1> QED
  BY <1>1, HostInvariance, PTL DEF Spec, PreexistingEntriesSurvive

\* Recovery does not touch the network under the process its journal records,
\* although it looked at that process several steps earlier (processIdentity).
THEOREM RecordedHelperIsDead == Spec => NoMutationUnderRecordedHelper
<1>1. IInv /\ EInv /\ [Next]_vars => [Mutation => ~RecordsLive(call.journal)]_vars
  BY RemovalsAreOwned
<1> QED
  BY <1>1, HostInvariance, PTL DEF Spec, NoMutationUnderRecordedHelper

-----------------------------------------------------------------------------
(* When recovery may refuse, while no SAFE proxy is started beside it.     *)

\* The journal records a PID with its start time, and the process that runs as
\* both is a helper.
NamesHelper(j) ==
    /\ j.pid # NoPid => j.ident # 0
    /\ \A p \in Pids : j.pid = p /\ Alive(p) /\ proc[p].born = j.ident => proc[p].kind = "helper"

JournalsNameHelpers ==
    /\ IsJournal(primary) => NamesHelper(primary)
    /\ IsJournal(previousGood) => NamesHelper(previousGood)
    /\ pc \in Carrying => NamesHelper(call.journal)

ManagedIsHelper ==
    ManagedRunning => proc[cmd].kind \in {"helper", "none"} /\ proc[cmd].born # 0

\* Only a rollback that found a journal recovers to report an error: a start's
\* own recovery has nothing to report yet.  The start time is read only of a PID
\* that the journal records.
RetryHasJournal ==
    /\ pc = "identity" => call.journal.pid # NoPid
    /\ pc = "load" /\ call.failing => primary # Absent
    /\ pc = "preflight" => ~call.failing

HInv == JournalsNameHelpers /\ ManagedIsHelper /\ RetryHasJournal

\* Without Manager.Start every managed process is a helper, running or gone.
LEMMA ManagedMoving ==
    ASSUME "proxy" \notin Faults, IInv, ManagedIsHelper, [Next]_vars
    PROVE  ManagedIsHelper'
<1>0. TypeOK
  BY DEF IInv
<1>1. CASE UNCHANGED <<cmd, proc>>
  BY <1>1 DEF ManagedIsHelper, ManagedRunning
<1>2. ASSUME NEW p \in Pids, SpawnHelper(p)
      PROVE  ManagedIsHelper'
  <2>1. cmd' = p /\ proc'[p].kind = "helper" /\ proc'[p].born # 0
    BY <1>0, <1>2 DEF SpawnHelper, Start, TypeOK
  <2> QED
    BY <2>1 DEF ManagedIsHelper, ManagedRunning
<1>3. ASSUME NEW p \in Pids, PidReused(p)
      PROVE  ManagedIsHelper'
  <2>1. /\ cmd' = cmd /\ p # cmd
        /\ proc' = [proc EXCEPT ![p] = [kind |-> "other", born |-> born + 1, op |-> 0]]
    BY <1>3 DEF PidReused, Start, manager
  <2>2. ManagedRunning => cmd \in Pids /\ proc'[cmd] = proc[cmd]
    BY <1>0, <2>1 DEF TypeOK, ManagedRunning
  <2> QED
    BY <2>1, <2>2 DEF ManagedIsHelper, ManagedRunning
<1>4. ASSUME NEW p \in Pids, ProcessExits(p)
      PROVE  ManagedIsHelper'
  <2>1. cmd' = cmd /\ proc' = [proc EXCEPT ![p].kind = "none"]
    BY <1>4 DEF ProcessExits, manager
  <2>2. ManagedRunning => /\ proc'[cmd].kind \in {proc[cmd].kind, "none"}
                          /\ proc'[cmd].born = proc[cmd].born
    BY <1>0, <2>1 DEF TypeOK, ManagedRunning, Process
  <2> QED
    BY <2>1, <2>2 DEF ManagedIsHelper, ManagedRunning
<1>5. CASE WaiterClears \/ Crash
  BY <1>5 DEF WaiterClears, Crash, ManagedIsHelper, ManagedRunning
<1>6. CASE Recovery
  BY <1>1, <1>6
     DEF Recovery, LoadJournal, CompareIdentity, CaptureStale, QuarantinePrimary, BackUpPrimary, ReplacePrimary,
         WriteFails, RemoveTun, RemoveEntry, RemovalDone, RemovalDenied, PrivilegedRecovery,
         RecoveryFails, VerifyRecovery, SaveLastClean, DropPrimary, DropPreviousGood, StepFails,
         manager, processes
<1>7. CASE Shutdown
  BY <1>1, <1>7
     DEF Shutdown, BeginStop, SignalHelper, SignalTooLate, HelperGone, StopTimesOut,
         KillTimesOut, FinishTransaction, manager, processes
<1>8. CASE Launch /\ ~ \E p \in Pids : SpawnHelper(p)
  BY <1>1, <1>8
     DEF Launch, AgentTunnelPreflight, CheckHost, ClearPreviousGood, SpawnFails, AbortPrepared,
         HelperReady, HelperNotReady, MarkTunnelActive, MarkFails, manager, processes
<1>9. CASE StartAgentTunnel \/ StopAndWait \/ RecoverStaleNetworkState
  BY <1>1, <1>9 DEF StartAgentTunnel, StopAndWait, RecoverStaleNetworkState, manager, processes
<1>10. CASE CorruptPrimary \/ Restart
            \/ (\E p \in Pids : HelperApplies(p)) \/ (\E e \in Foreign : ForeignChange(e))
  BY <1>1, <1>10 DEF CorruptPrimary, Restart, HelperApplies, ForeignChange, manager, processes
<1>11. CASE UNCHANGED vars
  BY <1>1, <1>11 DEF vars, manager, processes
<1> QED
  BY <1>2, <1>3, <1>4, <1>5, <1>6, <1>7, <1>8, <1>9, <1>10, <1>11
     DEF Next, Operation, Environment, StartProxy

\* Recovery to report an error begins at finishTunnelTransaction alone, which
\* has loaded a journal.
LEMMA RetryMoving ==
    ASSUME IInv, RetryHasJournal, [Next]_vars
    PROVE  RetryHasJournal'
<1>0. TypeOK
  BY DEF IInv
<1>1. CASE pc' \notin {"load", "preflight", "identity"}
  BY <1>1 DEF RetryHasJournal
<1>2. CASE UNCHANGED <<primary, pc, call>>
  BY <1>2 DEF RetryHasJournal
<1>3. CASE pc' \in {"load", "preflight"} /\ call'.failing = FALSE
  BY <1>3 DEF RetryHasJournal
<1>a. (\E ok \in BOOLEAN : Finish(ok) \/ Return(ok)) \/ Rollback => RetryHasJournal'
  BY <1>1 DEF Finish, Return, Rollback
<1>4. CASE AgentTunnelPreflight
  <2>1. CASE pc = "preflight" /\ call' = [call EXCEPT !.ret = "begin"] /\ pc' = "load"
    <3>1. call'.failing = FALSE
      BY <1>0, <2>1 DEF RetryHasJournal, TypeOK, Call
    <3> QED
      BY <1>3, <2>1, <3>1
  <2> QED
    BY <1>4, <1>a, <2>1 DEF AgentTunnelPreflight
<1>5. CASE StartAgentTunnel \/ RecoverStaleNetworkState
  <2>1. pc' \in {"load", "preflight"} /\ call'.failing = FALSE
    BY <1>5 DEF StartAgentTunnel, RecoverStaleNetworkState, NoCall
  <2> QED
    BY <1>3, <2>1
<1>6. CASE FinishTransaction
  <2>1. CASE Loaded # Absent /\ pc' = "load" /\ UNCHANGED disk
    BY <2>1, JournalAssumption DEF RetryHasJournal, Loaded, Load, disk
  <2> QED
    BY <1>6, <1>a, <2>1 DEF FinishTransaction
<1>7. CASE CorruptPrimary
  BY <1>7, JournalAssumption DEF CorruptPrimary, RetryHasJournal
<1>b. CASE ReplacePrimary
  <2>1. call.next \in {"spawn", "done", "mutate", "fail"}
    BY <1>0, <1>b DEF TypeOK, Call, IInv, JournalInHand, ReplacePrimary
  <2> QED
    BY <1>1, <1>a, <1>b, <2>1 DEF ReplacePrimary, AfterWrite, Goto
<1>c. CASE LoadJournal
  <2>1. CASE /\ pc' = "identity" /\ IsJournal(Loaded) /\ Loaded.pid # NoPid
             /\ call' = [call EXCEPT !.journal = Loaded,
                           !.fromBackup = LoadedFromBackup(primary, previousGood, lastClean)]
    <3>1. call'.journal = Loaded
      BY <1>0, <2>1 DEF TypeOK, Call
    <3> QED
      BY <2>1, <3>1 DEF RetryHasJournal
  <2> QED
    BY <1>1, <1>a, <1>c, <2>1 DEF LoadJournal, IsJournal
<1>8. CASE Recovery
  BY <1>1, <1>8, <1>a, <1>b, <1>c
     DEF Recovery, CompareIdentity, CaptureStale, QuarantinePrimary, BackUpPrimary,
         WriteFails, RemoveTun, RemoveEntry, RemovalDone, RemovalDenied,
         PrivilegedRecovery, RecoveryFails, VerifyRecovery, SaveLastClean, DropPrimary,
         DropPreviousGood, StepFails, Goto, WriteJournal
<1>9. CASE \/ CheckHost \/ ClearPreviousGood
           \/ (\E p \in Pids : SpawnHelper(p)) \/ SpawnFails \/ AbortPrepared
           \/ HelperReady \/ HelperNotReady \/ MarkTunnelActive \/ MarkFails
  BY <1>1, <1>9, <1>a
     DEF CheckHost, ClearPreviousGood, SpawnHelper, SpawnFails, AbortPrepared, HelperReady,
         HelperNotReady, MarkTunnelActive, MarkFails, Goto, WriteJournal
<1>10. CASE \/ BeginStop \/ SignalHelper \/ SignalTooLate \/ HelperGone \/ StopTimesOut
            \/ KillTimesOut \/ StopAndWait \/ Crash \/ Restart
  BY <1>1, <1>10, <1>a
     DEF BeginStop, SignalHelper, SignalTooLate, HelperGone, StopTimesOut, KillTimesOut, Goto,
         StopAndWait, Crash, Restart
<1>11. CASE \/ WaiterClears
            \/ (\E p \in Pids : \/ StartProxy(p) \/ HelperApplies(p)
                                \/ ProcessExits(p) \/ PidReused(p))
            \/ \E e \in Foreign : ForeignChange(e)
  BY <1>2, <1>11
     DEF WaiterClears, StartProxy, HelperApplies, ProcessExits, PidReused, ForeignChange, disk
<1>12. CASE UNCHANGED vars
  BY <1>2, <1>12 DEF vars, disk
<1> QED
  BY <1>4, <1>5, <1>6, <1>7, <1>8, <1>9, <1>10, <1>11, <1>12
     DEF Next, Operation, Environment, Launch, Shutdown

\* A journal that names a helper goes on naming it, or a process that is gone.
LEMMA HelperStaysNamed ==
    ASSUME IInv, ProcessesMoveOn, NEW j \in Journal, Honest(j), NamesHelper(j)
    PROVE  NamesHelper(j)'
<1> SUFFICES ASSUME NEW p \in Pids, j.pid = p, proc'[p].kind # "none", proc'[p].born = j.ident
             PROVE  proc'[p].kind = "helper"
  BY DEF NamesHelper, Alive
<1>1. j.ident \in Nat /\ j.ident <= born /\ born \in Nat
  BY DEF Honest, Journal, IInv, TypeOK
<1>2. proc'[p] = proc[p]
  BY <1>1 DEF ProcessesMoveOn
<1> QED
  BY <1>2 DEF NamesHelper, Alive

\* Every step keeps the journals pointing at helpers.
LEMMA NamesPreserved ==
    ASSUME "proxy" \notin Faults, IInv, EInv, HInv, [Next]_vars
    PROVE  HInv'
<1>0. IInv' /\ EInv' /\ TypeOK /\ TypeOK'
  BY Preserved, HostPreserved DEF IInv
<1>1. ProcessesMoveOn /\ DiskMovesOn
  BY MovingOn, DiskMoving DEF EInv
<1>2. ASSUME NEW f \in File, IsJournal(f), Honest(f), NamesHelper(f)
      PROVE  NamesHelper(f)'
  BY <1>1, <1>2, HelperStaysNamed DEF File, IsJournal
<1>3. /\ pc \in Carrying => /\ call.journal \in Journal /\ Honest(call.journal)
                            /\ NamesHelper(call.journal)
      /\ IsJournal(Loaded) => /\ Loaded \in Journal /\ Honest(Loaded)
                              /\ NamesHelper(Loaded)
  <2>1. IsJournal(Loaded) => Loaded \in Journal /\ (Loaded = primary \/ Loaded = previousGood)
    BY LoadedIsLatest, JournalAssumption DEF IInv, Loaded, Load, IsJournal
  <2> QED
    BY <2>1 DEF EInv, JournalsAreHonest, HInv, JournalsNameHelpers, IInv, JournalInHand, Carrying
<1>4. (IsJournal(primary) => NamesHelper(primary))'
  <2>1. CASE primary' \in {primary, Absent, Corrupt}
    BY <1>0, <1>2, <2>1 DEF EInv, JournalsAreHonest, HInv, JournalsNameHelpers, IsJournal, TypeOK, NamesHelper
  <2>2. CASE pc = "replace" /\ primary' = call.journal
    <3>1. call.journal \in Journal /\ Honest(call.journal) /\ NamesHelper(call.journal)
      BY <1>3, <2>2 DEF Carrying, Holding
    <3> QED
      BY <1>1, <2>2, <3>1, HelperStaysNamed DEF NamesHelper
  <2> QED
    BY <1>1, <2>1, <2>2 DEF DiskMovesOn
<1>5. (IsJournal(previousGood) => NamesHelper(previousGood))'
  BY <1>0, <1>1, <1>2
     DEF DiskMovesOn, EInv, JournalsAreHonest, HInv, JournalsNameHelpers, IsJournal, TypeOK, NamesHelper
<1>6. ASSUME pc' \in Carrying
      PROVE  NamesHelper(call.journal)'
  <2>1. HandMovesOn
    BY <1>6, HandMoving
  <2>2. ASSUME NEW j \in Journal, Honest(j), NamesHelper(j),
               call'.journal.pid = j.pid, call'.journal.ident = j.ident
        PROVE  NamesHelper(call.journal)'
    <3>1. NamesHelper(j)'
      BY <1>1, <2>2, HelperStaysNamed
    <3> QED
      BY <2>2, <3>1 DEF NamesHelper
  <2>3. CASE call'.journal.pid = NoPid
    BY <2>3, JournalAssumption DEF NamesHelper
  <2>4. CASE pc \in Carrying /\ call'.journal = call.journal
    BY <1>3, <2>2, <2>4
  <2>5. CASE IsJournal(Loaded) /\ call'.journal = Loaded
    BY <1>3, <2>2, <2>5
  <2>6. CASE /\ pc = "capture"
             /\ call'.journal.pid = call.journal.pid
             /\ call'.journal.ident = call.journal.ident
    BY <1>3, <2>2, <2>6 DEF Carrying, Holding
  <2>7. CASE call'.journal = Prepared(ops + 1, rules)
    BY <2>3, <2>7 DEF Prepared
  <2>8. CASE /\ IsJournal(Loaded)
             /\ call'.journal.pid = Loaded.pid
             /\ call'.journal.ident = Loaded.ident
    BY <1>3, <2>2, <2>8
  <2>9. CASE pc = "mark" /\ IsJournal(Loaded) /\ call'.journal = Activated(Loaded)
    <3>1. call'.journal.pid = cmd
      BY <1>3, <2>9 DEF Activated, Journal
    <3>2. CASE ~ManagedRunning
      BY <2>3, <3>1, <3>2 DEF ManagedRunning
    <3>3. CASE ManagedRunning
      <4>1. cmd \in Pids /\ call'.journal.ident = proc[cmd].born
        BY <1>0, <1>3, <2>9, <3>3 DEF Activated, Journal, ManagedRunning, TypeOK
      <4>2. proc[cmd].born \in Nat /\ born \in Nat /\ proc[cmd].born <= born
        BY <1>0, <4>1 DEF TypeOK, Process, EInv, BornInOrder
      <4>3. proc'[cmd].kind = "none" \/ proc'[cmd] = proc[cmd] \/ proc'[cmd].born # proc[cmd].born
        BY <1>1, <4>1, <4>2 DEF ProcessesMoveOn
      <4> QED
        BY <3>1, <3>3, <4>1, <4>3 DEF NamesHelper, Alive, HInv, ManagedIsHelper
    <3> QED
      BY <3>2, <3>3
  <2> QED
    BY <2>1, <2>3, <2>4, <2>5, <2>6, <2>7, <2>8, <2>9 DEF HandMovesOn
<1> QED
  BY <1>4, <1>5, <1>6, ManagedMoving, RetryMoving DEF HInv, JournalsNameHelpers

\* A host the program has never run on.
LEMMA NamesInitial == Init => HInv
  BY DEF Init, HInv, JournalsNameHelpers, ManagedIsHelper, ManagedRunning, RetryHasJournal,
         IsJournal, Carrying, Holding

\* A step from the look at the recorded process to an error is taken for a
\* damaged journal, for a recorded process that runs, or for one that is gone.
LEMMA RefusalStep ==
    ASSUME IInv, HInv, [Next]_vars, pc' = "err", pc \in {"load", "identity"}
    PROVE  \/ Loaded = Corrupt
           \/ HelperRuns
           \/ pc = "identity" /\ ~Alive(call.journal.pid)
<1>1. LoadJournal \/ CompareIdentity
  <2>1. CASE Recovery
    BY <2>1
       DEF Recovery, LoadJournal, CompareIdentity, CaptureStale, QuarantinePrimary, BackUpPrimary, ReplacePrimary,
           WriteFails, RemoveTun, RemoveEntry, RemovalDone, RemovalDenied, PrivilegedRecovery,
           RecoveryFails, VerifyRecovery, SaveLastClean, DropPrimary, DropPreviousGood, StepFails
  <2>2. CASE Launch \/ Shutdown
    BY <2>2
       DEF Launch, AgentTunnelPreflight, CheckHost, ClearPreviousGood, SpawnHelper,
           SpawnFails, AbortPrepared, HelperReady, HelperNotReady, MarkTunnelActive, MarkFails,
           Shutdown, BeginStop, SignalHelper, SignalTooLate, HelperGone, StopTimesOut,
           KillTimesOut, FinishTransaction
  <2>3. CASE StartAgentTunnel \/ StopAndWait \/ RecoverStaleNetworkState \/ Crash \/ Restart
    BY <2>3 DEF StartAgentTunnel, StopAndWait, RecoverStaleNetworkState, Crash, Restart
  <2>4. CASE \/ WaiterClears \/ CorruptPrimary
             \/ (\E p \in Pids : \/ StartProxy(p) \/ HelperApplies(p)
                                 \/ ProcessExits(p) \/ PidReused(p))
             \/ \E e \in Foreign : ForeignChange(e)
    BY <2>4
       DEF WaiterClears, CorruptPrimary, StartProxy, HelperApplies, ProcessExits, PidReused,
           ForeignChange
  <2>5. CASE UNCHANGED vars
    BY <2>5 DEF vars
  <2> QED
    BY <2>1, <2>2, <2>3, <2>4, <2>5 DEF Next, Operation, Environment
<1>2. CASE LoadJournal
  <2>1. Loaded = Absent => ~call.failing
    BY <1>2, LoadedIsLatest DEF IInv, HInv, RetryHasJournal, LoadJournal
  <2> QED
    BY <1>2, <2>1 DEF LoadJournal, Return, Finish
<1>3. CASE CompareIdentity
  <2>1. /\ pc = "identity" /\ call.journal \in Journal /\ call.journal.pid # NoPid
        /\ NamesHelper(call.journal)
    BY <1>3 DEF CompareIdentity, IInv, JournalInHand, Holding, Carrying, HInv, RetryHasJournal,
                JournalsNameHelpers
  <2>2. \/ ~Alive(call.journal.pid)
        \/ Alive(call.journal.pid) /\ proc[call.journal.pid].born = call.journal.ident
    BY <1>3, <2>1 DEF CompareIdentity, NamesHelper, Goto
  <2> QED
    BY <2>1, <2>2 DEF NamesHelper, HelperRuns, Journal
<1> QED
  BY <1>1, <1>2, <1>3

\* As long as no SAFE proxy is started beside the tunnel, a refusal of the
\* recovery means a journal that cannot be read, a helper that still runs, or a
\* recorded process that exited between the two looks at it: a PID that another
\* process has by now does not block it.
THEOREM RefusalIsJustified ==
    ASSUME "proxy" \notin Faults
    PROVE  Spec => RefusalIsCautious
<1>1. Spec => []HInv
  <2>1. IInv /\ EInv /\ HInv /\ [Next]_vars => HInv'
    BY NamesPreserved
  <2> QED
    BY <2>1, NamesInitial, HostInvariance, PTL DEF Spec
<1>2. IInv /\ HInv /\ [Next]_vars
        => [pc' = "err" /\ pc \in {"load", "identity"}
              => \/ Loaded = Corrupt
                 \/ HelperRuns
                 \/ pc = "identity" /\ ~Alive(call.journal.pid)]_vars
  BY RefusalStep
<1> QED
  BY <1>1, <1>2, HostInvariance, PTL DEF Spec, RefusalIsCautious
=============================================================================

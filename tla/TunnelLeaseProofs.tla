-------------------------- MODULE TunnelLeaseProofs --------------------------
(***************************************************************************)
(* TunnelTransaction, proved further: what the journal guarantees of the   *)
(* host while no journal file is damaged and a crash leaves no helper      *)
(* alive that the active journal does not record yet; one that it records  *)
(* may outlive the control plane.  Every routing entry and every helper of *)
(* the tunnel is covered by an open journal on disk; the transaction       *)
(* implements NetworkLease; a stop that succeeds has released everything,  *)
(* a start that succeeds has recorded its helper.                          *)
(***************************************************************************)
EXTENDS TunnelTransactionProofs

-----------------------------------------------------------------------------
(* The inductive invariant.                                                *)

Writing == pc \in {"backup", "replace"}

\* The prepared journal is being written, or has been.
Opening == pc = "spawn" \/ (Writing /\ call.next = "spawn")

\* No file is damaged: the backup is never needed.
Undamaged == primary # Corrupt /\ pc # "quarantine" /\ ~call.fromBackup

\* The primary is an open journal from the prepared write until persistCleanJournal
\* removes it; every write on the way replaces it by an open journal.
OpenOnDisk ==
    /\ primary # Absent => primary.phase \in OpenPhases /\ ops # 0
    /\ pc \in {"backup", "replace", "removeTun", "mutate", "escalate", "verify", "clearBackup"}
         => call.journal.phase \in OpenPhases
    /\ Writing /\ call.next # "spawn" => primary # Absent
    /\ pc \in {"spawn", "saveClean", "dropPrimary"} => primary # Absent

RecordedIn(j, p) == j.pid = p /\ j.ident = proc[p].born

\* A helper belongs to the latest transaction and runs under its journal, as
\* the managed process or, after a crash, as the process the journal records.
HelperIsKnown ==
    \A p \in Pids : proc[p].kind = "helper" =>
        /\ proc[p].op = ops /\ primary # Absent
        /\ cmd = p \/ RecordedIn(primary, p)

AllManaged == \A p \in Pids : proc[p].kind = "helper" => cmd = p
AllRecorded == \A p \in Pids : proc[p].kind = "helper" => RecordedIn(primary, p)

\* The points at which no helper runs: recovery past the look at the recorded
\* process, and before the launch.
Unattended ==
    \/ pc \in {"capture", "removeTun", "mutate", "escalate", "verify", "saveClean",
               "dropPrimary", "dropBackup", "begin", "clearBackup", "spawn", "abort"}
    \/ Writing /\ call.next # "done"

\* On the way to that look, and from the launch to the end of its record.
Arriving == pc \in {"preflight", "load", "identity"}
Attending == pc \in {"ready", "mark"} \/ (Writing /\ call.next = "done")

Attendance ==
    /\ Unattended => ~HelperRuns
    /\ Arriving => AllRecorded
    /\ Attending => AllManaged
    /\ pc = "identity" => call.journal = primary

\* The points at which the reserved namespace is known to be free.
Vacant ==
    \/ pc \in {"clearBackup", "abort", "saveClean", "dropPrimary", "dropBackup"}
    \/ Opening

Occupancy ==
    /\ Vacant => ~OwnedDirty
    /\ OwnedDirty => primary # Absent

\* Last-clean is of an older transaction until this one has released the host.
LastClean ==
    /\ lastClean # Absent => lastClean.op <= ops
    /\ Opening => ops # 0 /\ (lastClean # Absent => lastClean.op < ops)
    /\ pc = "dropPrimary" => lastClean # Absent /\ lastClean.op = ops
    /\ lastClean # Absent /\ lastClean.op = ops => ~OwnedDirty /\ ~HelperRuns

\* Inductive together with IInv and EInv.
LInv == Undamaged /\ OpenOnDisk /\ HelperIsKnown /\ Attendance /\ Occupancy /\ LastClean

-----------------------------------------------------------------------------
(* What a step may do to the helpers and to the reserved namespace.        *)

\* Any step but the launch of a helper only ends helpers, keeps the one that
\* runs managed (a crash leaves only what the journal records), and brings state
\* into the reserved namespace only while a helper runs.
UseMovesOn ==
    /\ \A p \in Pids : proc'[p].kind = "helper" =>
         /\ proc'[p] = proc[p]
         /\ cmd = p => cmd' = p \/ (pc' = "down" /\ RecordedIn(primary, p))
    /\ OwnedDirty' => OwnedDirty \/ HelperRuns

\* A process that is no helper starts.
LEMMA OtherStarts ==
    ASSUME TypeOK, NEW p \in Pids, NEW kind, kind # "helper", NEW op,
           Start(p, kind, op), (cmd' = p /\ ~ManagedRunning) \/ cmd' = cmd, UNCHANGED host
    PROVE  UseMovesOn
<1>1. ASSUME NEW q \in Pids, proc'[q].kind = "helper"
      PROVE  proc'[q] = proc[q] /\ (cmd = q => cmd' = q)
  <2>1. proc'[q] = IF q = p THEN [kind |-> kind, born |-> born + 1, op |-> op] ELSE proc[q]
    BY DEF Start, TypeOK
  <2> QED
    BY <1>1, <2>1, JournalAssumption DEF ManagedRunning
<1> QED
  BY <1>1 DEF UseMovesOn, OwnedDirty, host

\* A process ends; a helper may leave any part of its tunnel behind.
LEMMA AnyEnds ==
    ASSUME TypeOK, NEW p \in Pids, proc' = [proc EXCEPT ![p].kind = "none"],
           cmd' = cmd \/ cmd = p, tun' => tun, rules' \subseteq rules
    PROVE  UseMovesOn
<1>1. ASSUME NEW q \in Pids, proc'[q].kind = "helper"
      PROVE  proc'[q] = proc[q] /\ (cmd = q => cmd' = q)
  <2>1. proc'[q] = IF q = p THEN [proc[q] EXCEPT !.kind = "none"] ELSE proc[q]
    BY DEF TypeOK
  <2>2. [proc[p] EXCEPT !.kind = "none"].kind = "none"
    BY DEF TypeOK, Process
  <2>3. q # p
    BY <1>1, <2>1, <2>2
  <2> QED
    BY <2>1, <2>3
<1> QED
  BY <1>1 DEF UseMovesOn, OwnedDirty

\* An operation's own step leaves the processes alone and adds nothing to the
\* host.
LEMMA OperationMoves ==
    ASSUME UNCHANGED <<proc, cmd>>, tun' => tun, rules' \subseteq rules
    PROVE  UseMovesOn
  BY DEF UseMovesOn, OwnedDirty

\* Undamaged files: what loadTunnelJournal returns is the primary.
LEMMA LoadedIsPrimary ==
    ASSUME TypeOK, Undamaged
    PROVE  /\ Loaded = primary /\ Loaded # Corrupt
           /\ ~LoadedFromBackup(primary, previousGood, lastClean)
           /\ IsJournal(primary) <=> primary # Absent
           /\ primary # Absent => primary \in Journal
  BY DEF TypeOK, Undamaged, Loaded, Load, LoadedFromBackup, IsJournal, File

\* Every step but the launch, when no unrecorded helper survives a crash.
LEMMA UseMoving ==
    ASSUME IInv, "stranded" \notin Faults, Undamaged, [Next]_vars
    PROVE  UseMovesOn \/ \E p \in Pids : SpawnHelper(p)
<1> USE DEF disk, host, processes, manager
<1>0. TypeOK /\ Loaded = primary
  BY LoadedIsPrimary DEF IInv
<1>1. CASE UNCHANGED <<proc, cmd, tun, rules>>
  BY <1>1, OperationMoves
<1>2. CASE RemoveTun \/ (\E e \in Entries : RemoveEntry(e)) \/ PrivilegedRecovery
  <2>1. UNCHANGED <<proc, cmd>> /\ (tun' => tun) /\ rules' \subseteq rules
    BY <1>2 DEF RemoveTun, RemoveEntry, PrivilegedRecovery
  <2> QED
    BY <2>1, OperationMoves
<1>3. CASE \E p \in Pids : StartProxy(p) \/ PidReused(p)
  <2>1. PICK p \in Pids : StartProxy(p) \/ PidReused(p)
    BY <1>3
  <2>2. /\ Start(p, "proxy", 0) \/ Start(p, "other", 0)
        /\ (cmd' = p /\ ~ManagedRunning) \/ cmd' = cmd
        /\ UNCHANGED host
    BY <2>1 DEF StartProxy, PidReused
  <2> QED
    BY <1>0, <2>2, OtherStarts
<1>4. CASE \E p \in Pids : ProcessExits(p)
  <2>1. PICK p \in Pids : ProcessExits(p)
    BY <1>4
  <2>2. /\ proc' = [proc EXCEPT ![p].kind = "none"] /\ cmd' = cmd
        /\ (tun' => tun) /\ rules' \subseteq rules
    BY <2>1 DEF ProcessExits
  <2> QED
    BY <1>0, <2>2, AnyEnds
<1>5. CASE Crash
  <2>1. CASE ManagedRunning /\ ~Outlives
    <3>1. /\ proc' = [proc EXCEPT ![cmd].kind = "none"] /\ cmd \in Pids
          /\ (tun' => tun) /\ rules' \subseteq rules
      BY <1>0, <1>5, <2>1 DEF Crash, ManagedRunning, TypeOK
    <3> QED
      BY <1>0, <3>1, AnyEnds
  <2>2. CASE ~ManagedRunning \/ Outlives
    <3>1. UNCHANGED <<proc, tun, rules>> /\ pc' = "down"
      BY <1>5, <2>2 DEF Crash
    <3>2. ASSUME NEW p \in Pids, proc[p].kind = "helper", cmd = p
          PROVE  RecordedIn(primary, p)
      <4>1. Outlives
        BY <2>2, <3>2, JournalAssumption DEF ManagedRunning
      <4> QED
        BY <1>0, <3>2, <4>1 DEF Outlives, RecordsLive, RecordedIn
    <3> QED
      BY <3>1, <3>2 DEF UseMovesOn, OwnedDirty
  <2> QED
    BY <2>1, <2>2
<1>6. CASE WaiterClears
  <2>1. cmd \in Pids /\ proc[cmd].kind = "none" /\ UNCHANGED <<proc, tun, rules>>
    BY <1>0, <1>6 DEF WaiterClears, ManagedRunning, Alive, TypeOK
  <2> QED
    BY <2>1 DEF UseMovesOn, OwnedDirty
<1>7. CASE \E p \in Pids : HelperApplies(p)
  <2>1. HelperRuns /\ UNCHANGED <<proc, cmd>>
    BY <1>7 DEF HelperApplies, HelperRuns
  <2> QED
    BY <2>1 DEF UseMovesOn
<1>8. CASE \E e \in Foreign : ForeignChange(e)
  <2>1. /\ UNCHANGED <<proc, cmd, tun>>
        /\ rules' \cap Reserved = rules \cap Reserved
    BY <1>8, JournalAssumption DEF ForeignChange
  <2> QED
    BY <2>1 DEF UseMovesOn, OwnedDirty
<1>9. CASE Recovery
  BY <1>1, <1>2, <1>9
     DEF Recovery, LoadJournal, CompareIdentity, CaptureStale, QuarantinePrimary,
         BackUpPrimary, ReplacePrimary, WriteFails, RemovalDone, RemovalDenied, RecoveryFails, VerifyRecovery,
         SaveLastClean, DropPrimary, DropPreviousGood, StepFails
<1>10. CASE Shutdown
  BY <1>1, <1>10
     DEF Shutdown, BeginStop, SignalHelper, SignalTooLate, HelperGone, StopTimesOut,
         KillTimesOut, FinishTransaction
<1>11. CASE Launch /\ ~ \E p \in Pids : SpawnHelper(p)
  BY <1>1, <1>11
     DEF Launch, AgentTunnelPreflight, CheckHost, ClearPreviousGood, SpawnFails, AbortPrepared,
         HelperReady, HelperNotReady, MarkTunnelActive, MarkFails
<1>12. CASE StartAgentTunnel \/ StopAndWait \/ RecoverStaleNetworkState
  BY <1>1, <1>12 DEF StartAgentTunnel, StopAndWait, RecoverStaleNetworkState
<1>13. CASE CorruptPrimary \/ Restart
  BY <1>1, <1>13 DEF CorruptPrimary, Restart
<1>14. CASE UNCHANGED vars
  BY <1>1, <1>14 DEF vars
<1> QED
  BY <1>3, <1>4, <1>5, <1>6, <1>7, <1>8, <1>9, <1>10, <1>11, <1>12, <1>13, <1>14
     DEF Next, Operation, Environment

\* What such a step leaves of the invariant, as long as the primary stays, no
\* longer matters, or is replaced while no helper depends on its record.
LEMMA UseKept ==
    ASSUME LInv, UseMovesOn, UNCHANGED ops,
           \/ primary' = primary
           \/ ~OwnedDirty /\ ~HelperRuns
           \/ primary' # Absent /\ AllManaged /\ pc' # "down"
    PROVE  /\ HelperIsKnown'
           /\ HelperRuns' => HelperRuns
           /\ OwnedDirty' => OwnedDirty \/ HelperRuns
           /\ OwnedDirty' => primary' # Absent
           /\ primary' = primary /\ AllRecorded => AllRecorded'
           /\ pc' # "down" /\ AllManaged => AllManaged'
<1>1. /\ HelperRuns' => HelperRuns
      /\ OwnedDirty' => OwnedDirty \/ HelperRuns
      /\ pc' # "down" /\ AllManaged => AllManaged'
  BY DEF UseMovesOn, HelperRuns, AllManaged
<1>2. primary' = primary /\ AllRecorded => AllRecorded'
  BY DEF UseMovesOn, AllRecorded, RecordedIn
<1>3. OwnedDirty' => primary' # Absent
  BY <1>1 DEF LInv, Occupancy, HelperIsKnown, HelperRuns
<1>4. HelperIsKnown'
  BY <1>1 DEF LInv, HelperIsKnown, UseMovesOn, HelperRuns, RecordedIn, AllManaged
<1> QED
  BY <1>1, <1>2, <1>3, <1>4

\* The points at which the invariant asks nothing of the step.
Rest == {"idle", "ok", "err", "down", "stop", "signal", "await", "killed", "finish"}

\* A step to such a point, or on in the launch, that leaves the files alone keeps
\* the invariant.
LEMMA RestStep ==
    ASSUME LInv, UseMovesOn, UNCHANGED disk, UNCHANGED ops, ~call'.fromBackup,
           pc' \in Rest \/ (AllManaged /\ pc' = "mark")
    PROVE  LInv'
<1>1. /\ HelperIsKnown' /\ (HelperRuns' => HelperRuns)
      /\ OwnedDirty' => OwnedDirty \/ HelperRuns
      /\ OwnedDirty' => primary' # Absent
      /\ primary' = primary /\ lastClean' = lastClean
      /\ pc' = "mark" => AllManaged'
  BY UseKept DEF disk, Rest
<1> QED
  BY <1>1 DEF LInv, Undamaged, OpenOnDisk, Attendance, Occupancy, LastClean, Writing, Opening,
              Unattended, Arriving, Attending, Vacant, Rest

\* So does a step towards the look at the recorded process.
LEMMA ArriveStep ==
    ASSUME LInv, UseMovesOn, UNCHANGED disk, UNCHANGED ops, AllRecorded,
           pc' \in {"preflight", "load", "identity"}, ~call'.fromBackup,
           pc' = "identity" => call'.journal = primary
    PROVE  LInv'
<1>1. /\ HelperIsKnown' /\ (HelperRuns' => HelperRuns)
      /\ OwnedDirty' => OwnedDirty \/ HelperRuns
      /\ OwnedDirty' => primary' # Absent
      /\ primary' = primary /\ lastClean' = lastClean
      /\ AllRecorded'
  BY UseKept DEF disk
<1> QED
  BY <1>1 DEF LInv, Undamaged, OpenOnDisk, Attendance, Occupancy, LastClean, Writing, Opening,
              Unattended, Arriving, Attending, Vacant

\* So does a step of the environment.
LEMMA BesideStep ==
    ASSUME LInv, UseMovesOn, UNCHANGED disk, UNCHANGED <<ops, pc, call>>
    PROVE  LInv'
<1>1. /\ HelperIsKnown' /\ (HelperRuns' => HelperRuns)
      /\ OwnedDirty' => OwnedDirty \/ HelperRuns
      /\ OwnedDirty' => primary' # Absent
      /\ primary' = primary /\ lastClean' = lastClean
      /\ AllRecorded => AllRecorded'
      /\ pc # "down" /\ AllManaged => AllManaged'
  BY UseKept DEF disk
<1>2. Vacant => Unattended
  BY DEF Vacant, Unattended, Opening, Writing
<1>3. UNCHANGED <<pc, call, ops, primary, lastClean>>
  BY <1>1
<1>4. /\ Undamaged' /\ OpenOnDisk'
      /\ Unattended' = Unattended /\ Vacant' = Vacant /\ Opening' = Opening
      /\ Arriving' = Arriving /\ Attending' = Attending
  BY <1>3 DEF LInv, Undamaged, OpenOnDisk, Unattended, Vacant, Opening, Writing, Arriving, Attending
<1>5. Attending => pc # "down"
  BY DEF Attending, Writing
<1>6. Attendance'
  BY <1>1, <1>3, <1>4, <1>5 DEF LInv, Attendance
<1> QED
  BY <1>1, <1>2, <1>3, <1>4, <1>6 DEF LInv, Attendance, Occupancy, LastClean

\* A step that works on, with no helper running, and knows its way: the journal
\* in hand is open where it is going to be written, there is a primary where
\* the step needs one, and the namespace is free where the step says so.
LEMMA WorkStep ==
    ASSUME LInv, UseMovesOn, UNCHANGED disk, UNCHANGED ops, ~HelperRuns,
           pc' \notin {"quarantine", "spawn", "dropPrimary", "identity"}, ~call'.fromBackup,
           pc' \in {"backup", "replace", "removeTun", "mutate", "escalate", "verify", "clearBackup"}
             => call'.journal.phase \in OpenPhases,
           pc' \in {"backup", "replace"} => call'.next # "spawn" /\ primary # Absent,
           pc' = "saveClean" => primary # Absent,
           Vacant' => ~OwnedDirty
    PROVE  LInv'
<1>1. /\ HelperIsKnown' /\ (HelperRuns' => HelperRuns)
      /\ OwnedDirty' => OwnedDirty \/ HelperRuns
      /\ OwnedDirty' => primary' # Absent
      /\ primary' = primary /\ lastClean' = lastClean
  BY UseKept DEF disk
<1>2. ~Opening' /\ ~HelperRuns' /\ (OwnedDirty' => OwnedDirty)
  BY <1>1 DEF Opening, Writing
<1>3. Undamaged' /\ OpenOnDisk'
  BY <1>1 DEF LInv, Undamaged, OpenOnDisk, Writing
<1>4. Attendance'
  BY <1>2 DEF Attendance, HelperRuns, AllManaged, AllRecorded
<1> QED
  BY <1>1, <1>2, <1>3, <1>4 DEF LInv, Occupancy, LastClean

\* An operation that returns, or is rolled back, keeps it, a failed write that
\* has replaced its file included.
LEMMA ReturnStep ==
    ASSUME TypeOK, LInv, UNCHANGED <<host, processes, manager>>,
           \/ primary' = primary
           \/ /\ primary' \notin {Absent, Corrupt} /\ primary'.phase \in OpenPhases
              /\ ops # 0 /\ AllManaged,
           \/ lastClean' = lastClean
           \/ lastClean' # Absent /\ lastClean'.op = ops /\ ~OwnedDirty /\ ~HelperRuns,
           Rollback \/ \E ok \in BOOLEAN : Finish(ok)
    PROVE  LInv'
<1>1. pc' \in Rest /\ pc' # "down" /\ ~call'.fromBackup
  <2>1. CASE Rollback
    BY <2>1 DEF Rollback, NoCall, Rest
  <2>2. CASE \E ok \in BOOLEAN : Finish(ok)
    BY <2>2 DEF Finish, NoCall, Rest
  <2> QED
    BY <2>1, <2>2
<1>2. UseMovesOn /\ UNCHANGED ops /\ ops \in Nat
  BY OperationMoves DEF TypeOK, host, processes, manager
<1>3. /\ HelperIsKnown' /\ (HelperRuns' => HelperRuns) /\ (OwnedDirty' => primary' # Absent)
      /\ OwnedDirty' => OwnedDirty
  <2>1. OwnedDirty' => OwnedDirty
    BY DEF OwnedDirty, host
  <2> QED
    BY <1>1, <1>2, <2>1, UseKept
<1>4. Undamaged' /\ OpenOnDisk'
  BY <1>1, <1>2 DEF LInv, Undamaged, OpenOnDisk, Writing, Rest
<1>5. ~Unattended' /\ ~Arriving' /\ ~Attending' /\ ~Vacant' /\ ~Opening' /\ pc' \notin {"identity", "dropPrimary"}
  BY <1>1 DEF Unattended, Arriving, Attending, Vacant, Opening, Writing, Rest
<1>6. LastClean'
  BY <1>2, <1>3, <1>5 DEF LInv, LastClean
<1> QED
  BY <1>3, <1>4, <1>5, <1>6 DEF LInv, Attendance, Occupancy

-----------------------------------------------------------------------------
(* The steps of recovery and of the journal writes.                        *)

\* RecoverStaleNetworkState and the journal writes keep it: the primary is open
\* while recovery works, last-clean is written and the primary dropped only
\* after the claim has been verified absent.
LEMMA LeaseRecovery ==
    ASSUME IInv, EInv, LInv, UseMovesOn, Recovery
    PROVE  LInv'
<1> USE DEF disk, host, processes, manager
<1>0. /\ TypeOK /\ JournalInHand /\ PrimaryAtStep /\ Undamaged /\ OpenOnDisk
      /\ HelperIsKnown /\ Attendance
  BY DEF IInv, LInv
<1>a. ASSUME UNCHANGED <<disk, host, processes, manager>>,
             Rollback \/ \E ok \in BOOLEAN : Finish(ok)
      PROVE  LInv'
  BY <1>0, <1>a, ReturnStep
<1>b. Unattended => ~HelperRuns
  BY <1>0 DEF Attendance
<1>c. Writing => AllManaged
  BY <1>0 DEF Attendance, Attending, Unattended, HelperRuns, AllManaged
<1>1. CASE LoadJournal
  <2>1. /\ UNCHANGED <<disk, host, processes, manager>> /\ pc = "load" /\ AllRecorded
        /\ Loaded = primary /\ ~LoadedFromBackup(primary, previousGood, lastClean)
        /\ LoadedFromBackup(primary, previousGood, lastClean) \in BOOLEAN
    BY <1>0, <1>1, LoadedIsPrimary DEF LoadJournal, Attendance, Arriving, LoadedFromBackup
  <2>2. CASE \E ok \in BOOLEAN : Finish(ok)
    BY <1>a, <2>1, <2>2
  <2>3. CASE /\ Loaded = Absent /\ pc' = "begin"
             /\ call' = [call EXCEPT !.journal = Absent, !.fromBackup = FALSE]
    <3>1. ~call'.fromBackup
      BY <1>0, <2>3 DEF TypeOK, Call
    <3>2. ~HelperRuns
      BY <1>0, <2>1, <2>3 DEF HelperIsKnown, HelperRuns
    <3> QED
      BY <2>1, <2>3, <3>1, <3>2, WorkStep DEF Vacant, Opening, Writing
  <2>4. CASE /\ Loaded # Absent
             /\ pc' = IF Loaded.phase \in FinalPhases THEN "saveClean"
                      ELSE IF Loaded.pid # NoPid /\ Alive(Loaded.pid) THEN "identity"
                      ELSE "capture"
             /\ call' = [call EXCEPT !.journal = Loaded,
                           !.fromBackup = LoadedFromBackup(primary, previousGood, lastClean)]
    <3>1. ~call'.fromBackup /\ call'.journal = primary
      BY <1>0, <2>1, <2>4 DEF TypeOK, Call
    <3>2. primary.phase \notin FinalPhases
      BY <1>0, <2>1, <2>4 DEF OpenOnDisk, OpenPhases, FinalPhases
    <3>3. CASE primary.pid # NoPid /\ Alive(primary.pid)
      BY <2>1, <2>4, <3>1, <3>2, <3>3, ArriveStep
    <3>4. CASE ~(primary.pid # NoPid /\ Alive(primary.pid))
      <4>1. ~HelperRuns
        BY <2>1, <3>4, JournalAssumption DEF AllRecorded, RecordedIn, HelperRuns, Alive
      <4> QED
        BY <2>1, <2>4, <3>1, <3>2, <3>4, <4>1, WorkStep DEF Vacant, Opening, Writing
    <3> QED
      BY <3>3, <3>4
  <2> QED
    BY <1>1, <2>1, <2>2, <2>3, <2>4 DEF LoadJournal, Return
<1>2. CASE CaptureStale
  <2> DEFINE j == call.journal
             claimed == IF j.observed THEN j.owned
                        ELSE Merge(j.owned, Delta(j.before, rules))
             stale == [j EXCEPT !.owned = claimed, !.phase = "recovering"]
  <2>1. /\ pc = "capture" /\ j \in Journal /\ ~HelperRuns /\ ~call.fromBackup
        /\ primary # Absent
        /\ UNCHANGED <<disk, host, processes, manager>>
        /\ pc' = "backup" /\ call' = [call EXCEPT !.journal = stale, !.next = "mutate"]
    BY <1>0, <1>2, <1>b
       DEF CaptureStale, WriteJournal, JournalInHand, PrimaryAtStep, Holding, Unattended, Undamaged
  <2>2. stale.phase \in OpenPhases
    BY <2>1 DEF Journal, OpenPhases
  <2> HIDE DEF stale
  <2>3. call'.journal = stale /\ call'.next = "mutate" /\ ~call'.fromBackup
    BY <1>0, <2>1 DEF TypeOK, Call
  <2> QED
    BY <2>1, <2>2, <2>3, WorkStep DEF Vacant, Opening, Writing
<1>3. CASE QuarantinePrimary
  BY <1>0, <1>3 DEF QuarantinePrimary, Undamaged
<1>4. CASE BackUpPrimary
  <2>1. /\ pc = "backup" /\ pc' = "replace" /\ UNCHANGED <<primary, lastClean, ops, call>>
        /\ UNCHANGED host
    BY <1>4 DEF BackUpPrimary, Goto
  <2>2. /\ HelperIsKnown' /\ (HelperRuns' => HelperRuns)
        /\ OwnedDirty' => OwnedDirty \/ HelperRuns
        /\ OwnedDirty' => primary' # Absent
        /\ AllManaged => AllManaged'
    BY <2>1, UseKept
  <2>3. /\ Unattended' = Unattended /\ Vacant' = Vacant /\ Opening' = Opening
        /\ Attending' = Attending /\ ~Arriving'
        /\ Undamaged' /\ OpenOnDisk'
    BY <1>0, <2>1
       DEF Unattended, Vacant, Opening, Writing, Undamaged, OpenOnDisk, Attending, Arriving
  <2>4. Vacant => Unattended
    BY DEF Vacant, Unattended, Opening, Writing
  <2>5. Attendance'
    BY <1>0, <2>1, <2>2, <2>3 DEF Attendance
  <2> QED
    BY <1>b, <2>1, <2>2, <2>3, <2>4, <2>5 DEF LInv, Occupancy, LastClean
<1>5. CASE ReplacePrimary
  <2>1. /\ pc = "replace" /\ primary' = call.journal
        /\ UNCHANGED <<previousGood, lastClean, host, processes, manager>>
        /\ call.journal \in Journal /\ call.journal.phase \in OpenPhases
        /\ call.next \in {"spawn", "done", "mutate", "fail"}
    BY <1>0, <1>5 DEF ReplacePrimary, JournalInHand, Holding, OpenOnDisk, TypeOK, Call
  <2>2. primary' # Absent /\ primary' # Corrupt /\ AllManaged
    BY <1>0, <1>c, <2>1, JournalAssumption DEF Writing
  <2>3. /\ \/ pc' \in {"ok", "err"}
           \/ pc' = "spawn" /\ call.next = "spawn"
           \/ pc' = "removeTun" /\ call.next = "mutate" /\ call'.journal = call.journal
        /\ ~call'.fromBackup
    <3>1. CASE \E ok \in BOOLEAN : Finish(ok)
      BY <3>1 DEF Finish, NoCall
    <3>2. CASE call.next = "spawn" /\ Goto("spawn")
      BY <1>0, <3>2 DEF Goto, Undamaged
    <3>3. CASE call.next = "mutate" /\ pc' = "removeTun" /\ call' = [call EXCEPT !.todo = call.journal.owned]
      BY <1>0, <3>3 DEF TypeOK, Call, Undamaged
    <3> QED
      BY <1>5, <2>1, <3>1, <3>2, <3>3 DEF ReplacePrimary, AfterWrite
  <2>4. /\ HelperIsKnown' /\ (HelperRuns' => HelperRuns)
        /\ OwnedDirty' => OwnedDirty \/ HelperRuns
    BY <2>1, <2>2, <2>3, UseKept
  <2>5. ops # 0 /\ UNCHANGED ops
    BY <1>0, <2>1 DEF OpenOnDisk, LInv, LastClean, Opening, Writing
  <2>6. Undamaged' /\ OpenOnDisk'
    BY <2>1, <2>2, <2>5, <2>3 DEF Undamaged, OpenOnDisk, Writing
  <2>7. Vacant' => Vacant /\ Opening
    BY <2>1, <2>3 DEF Vacant, Opening, Writing
  <2>8. Unattended' => Unattended
    BY <2>1, <2>3 DEF Unattended, Writing
  <2>9. Vacant => Unattended
    BY DEF Vacant, Unattended, Opening, Writing
  <2>10. Opening' => Opening
    BY <2>1, <2>3 DEF Opening, Writing
  <2>11. ~Arriving' /\ ~Attending' /\ pc' \notin {"dropPrimary", "identity"}
    BY <2>3 DEF Arriving, Attending, Writing
  <2>12. Attendance'
    BY <1>b, <2>4, <2>8, <2>11 DEF Attendance
  <2> QED
    BY <1>b, <2>1, <2>2, <2>4, <2>5, <2>6, <2>7, <2>8, <2>9, <2>10, <2>11, <2>12
       DEF LInv, Occupancy, LastClean
<1>6. CASE WriteFails
  <2>1. /\ Writing /\ primary' \in {primary, call.journal} /\ lastClean' = lastClean
        /\ UNCHANGED <<host, processes, manager>>
        /\ Rollback \/ \E ok \in BOOLEAN : Finish(ok)
    BY <1>6 DEF WriteFails, Writing
  <2>2. /\ call.journal \in Journal /\ call.journal.phase \in OpenPhases
        /\ call.next \in {"spawn", "done", "mutate", "fail"}
    BY <1>0, <2>1 DEF JournalInHand, Holding, OpenOnDisk, TypeOK, Call, Writing
  <2>3. ops # 0 /\ AllManaged /\ call.journal \notin {Absent, Corrupt}
    BY <1>0, <1>c, <2>1, <2>2, JournalAssumption DEF OpenOnDisk, LInv, LastClean, Opening
  <2> QED
    BY <1>0, <2>1, <2>2, <2>3, ReturnStep
<1>7. CASE RemoveTun \/ RemovalDone
  <2>1. /\ pc \in {"removeTun", "mutate"} /\ pc' \in {"mutate", "verify"}
        /\ UNCHANGED <<disk, ops, call>> /\ ~HelperRuns
    BY <1>7, <1>b DEF RemoveTun, RemovalDone, Goto, Unattended
  <2> QED
    BY <1>0, <2>1, WorkStep DEF Vacant, Opening, Writing, Undamaged, OpenOnDisk
<1>8. ASSUME NEW e \in Entries, RemoveEntry(e)
      PROVE  LInv'
  <2>1. /\ UNCHANGED <<disk, ops, pc>> /\ pc = "mutate" /\ ~HelperRuns
        /\ call' = [call EXCEPT !.todo = @ \ {e}]
    BY <1>8, <1>b DEF RemoveEntry, Unattended
  <2>2. call'.journal = call.journal /\ ~call'.fromBackup
    BY <1>0, <2>1 DEF TypeOK, Call, Undamaged
  <2> QED
    BY <1>0, <2>1, <2>2, WorkStep DEF Vacant, Opening, Writing, OpenOnDisk
<1>9. CASE RemovalDenied
  <2>1. /\ UNCHANGED <<disk, ops>> /\ pc' = "escalate" /\ pc \in {"removeTun", "mutate"}
        /\ call' = [call EXCEPT !.todo = {}] /\ ~HelperRuns
    BY <1>9, <1>b DEF RemovalDenied, Unattended
  <2>2. call'.journal = call.journal /\ ~call'.fromBackup
    BY <1>0, <2>1 DEF TypeOK, Call, Undamaged
  <2> QED
    BY <1>0, <2>1, <2>2, WorkStep DEF Vacant, Opening, Writing, OpenOnDisk
<1>10. CASE PrivilegedRecovery
  <2>1. /\ UNCHANGED <<disk, ops>> /\ pc' = "removeTun" /\ pc = "escalate" /\ ~HelperRuns
        /\ call' = [call EXCEPT !.asRoot = TRUE, !.todo = Reserved]
    BY <1>10, <1>b DEF PrivilegedRecovery, Unattended
  <2>2. call'.journal = call.journal /\ ~call'.fromBackup
    BY <1>0, <2>1 DEF TypeOK, Call, Undamaged
  <2> QED
    BY <1>0, <2>1, <2>2, WorkStep DEF Vacant, Opening, Writing, OpenOnDisk
<1>11. CASE pc \in {"escalate", "verify"} /\ WriteJournal(call.journal, "fail")
            /\ UNCHANGED <<disk, host, processes, manager>>
  <2>1. pc' = "backup" /\ ~HelperRuns /\ primary # Absent
    BY <1>0, <1>11, <1>b DEF WriteJournal, Unattended, PrimaryAtStep
  <2>2. call'.journal = call.journal /\ call'.next = "fail" /\ ~call'.fromBackup
    BY <1>0, <1>11 DEF WriteJournal, TypeOK, Call, Undamaged
  <2> QED
    BY <1>0, <1>11, <2>1, <2>2, WorkStep DEF Vacant, Opening, Writing, OpenOnDisk
<1>12. CASE VerifyRecovery
  <2>1. /\ pc = "verify" /\ UNCHANGED <<disk, host, processes, manager>> /\ ~HelperRuns
        /\ primary # Absent /\ Reserved \subseteq call.journal.owned
    BY <1>0, <1>12, <1>b
       DEF VerifyRecovery, Unattended, PrimaryAtStep, EInv, JournalsAreHonest, Honest, Carrying, Holding
  <2>2. CASE /\ call.journal.owned \cap rules = {} /\ ~tun
             /\ pc' = "saveClean"
             /\ call' = [call EXCEPT !.journal.phase = "clean",
                                     !.journal.pid = NoPid, !.journal.ident = 0]
    <3>1. ~call'.fromBackup
      BY <1>0, <2>2 DEF TypeOK, Call, Undamaged
    <3>2. ~OwnedDirty
      BY <2>1, <2>2 DEF OwnedDirty
    <3> QED
      BY <2>1, <2>2, <3>1, <3>2, WorkStep
  <2> QED
    BY <1>12, <1>11, <1>a, <2>1, <2>2 DEF VerifyRecovery
<1>13. CASE SaveLastClean
  <2>1. /\ UNCHANGED <<primary, ops, call>> /\ pc' = "dropPrimary" /\ pc = "saveClean"
        /\ lastClean' = call.journal /\ primary # Absent /\ ~OwnedDirty /\ ~HelperRuns
        /\ call.journal \in Journal /\ call.journal.op = ops
    BY <1>0, <1>13, <1>b
       DEF SaveLastClean, Goto, OpenOnDisk, LInv, Occupancy, Vacant, Unattended, JournalInHand, Holding
  <2>2. /\ HelperIsKnown' /\ ~HelperRuns' /\ ~OwnedDirty'
    BY <2>1, UseKept
  <2>3. lastClean' # Absent /\ ops \in Nat /\ lastClean'.op = ops
    BY <1>0, <2>1, JournalAssumption DEF TypeOK
  <2>4. Undamaged' /\ OpenOnDisk'
    BY <1>0, <2>1 DEF Undamaged, OpenOnDisk, Writing
  <2>5. ~Opening' /\ ~Arriving' /\ ~Attending'
    BY <2>1 DEF Opening, Writing, Arriving, Attending
  <2> QED
    BY <2>1, <2>2, <2>3, <2>4, <2>5 DEF LInv, Attendance, Occupancy, LastClean
<1>14. CASE DropPrimary
  <2>1. /\ primary' = Absent /\ UNCHANGED <<lastClean, ops, call>>
        /\ pc = "dropPrimary" /\ pc' = "dropBackup"
        /\ ~OwnedDirty /\ ~HelperRuns
    BY <1>14, <1>b
       DEF DropPrimary, Goto, LInv, Occupancy, Vacant, Unattended
  <2>2. /\ HelperIsKnown' /\ ~HelperRuns' /\ ~OwnedDirty'
    BY <2>1, UseKept
  <2>3. Undamaged' /\ OpenOnDisk' /\ ~Opening' /\ ~Arriving' /\ ~Attending'
    BY <1>0, <2>1, JournalAssumption
       DEF Undamaged, OpenOnDisk, Writing, Opening, Arriving, Attending
  <2> QED
    BY <2>1, <2>2, <2>3 DEF LInv, Attendance, Occupancy, LastClean
<1>15. CASE DropPreviousGood
  <2>1. /\ UNCHANGED <<primary, lastClean, ops>> /\ pc = "dropBackup" /\ primary = Absent
        /\ ~OwnedDirty /\ ~HelperRuns
    BY <1>0, <1>15, <1>b DEF DropPreviousGood, LInv, Occupancy, Vacant, Unattended, PrimaryAtStep
  <2>2. pc' \in {"ok", "err", "begin"} /\ ~call'.fromBackup
    <3>1. CASE Finish(TRUE)
      BY <3>1 DEF Finish, NoCall
    <3>2. CASE pc' = "begin" /\ call' = [call EXCEPT !.journal = Absent, !.fromBackup = FALSE]
      BY <1>0, <3>2 DEF TypeOK, Call
    <3> QED
      BY <1>15, <3>1, <3>2 DEF DropPreviousGood, Return
  <2>3. /\ HelperIsKnown' /\ ~HelperRuns' /\ ~OwnedDirty'
    BY <2>1, UseKept
  <2>4. /\ Undamaged' /\ OpenOnDisk' /\ ~Opening' /\ ~Arriving' /\ ~Attending'
        /\ pc' # "dropPrimary"
    BY <1>0, <2>1, <2>2 DEF Undamaged, OpenOnDisk, Writing, Opening, Arriving, Attending
  <2> QED
    BY <2>1, <2>2, <2>3, <2>4 DEF LInv, Attendance, Occupancy, LastClean
<1>16. CASE StepFails
  <2>1. /\ UNCHANGED <<primary, previousGood, host, processes, manager>> /\ Finish(FALSE)
        /\ lastClean' = lastClean \/ (pc = "saveClean" /\ lastClean' = call.journal)
    BY <1>16 DEF StepFails
  <2>2. pc = "saveClean" => /\ call.journal # Absent /\ call.journal.op = ops
                            /\ ~OwnedDirty /\ ~HelperRuns
    BY <1>0, <1>b, JournalAssumption
       DEF JournalInHand, Holding, LInv, Occupancy, Vacant, Unattended
  <2> QED
    BY <1>0, <2>1, <2>2, ReturnStep
<1>17. CASE CompareIdentity
  <2>1. /\ UNCHANGED <<disk, host, processes, manager>> /\ pc = "identity"
        /\ AllRecorded /\ call.journal = primary
    BY <1>0, <1>17 DEF CompareIdentity, Attendance, Arriving
  <2>2. CASE Alive(primary.pid) /\ proc[primary.pid].born # primary.ident /\ Goto("capture")
    <3>1. ~HelperRuns
      BY <2>1, <2>2 DEF AllRecorded, RecordedIn, HelperRuns
    <3> QED
      BY <1>0, <2>1, <2>2, <3>1, WorkStep DEF Goto, Vacant, Opening, Writing, Undamaged
  <2> QED
    BY <1>17, <1>a, <2>1, <2>2 DEF CompareIdentity
<1> QED
  BY <1>1, <1>2, <1>3, <1>4, <1>5, <1>6, <1>7, <1>8, <1>9, <1>10, <1>11, <1>12,
     <1>13, <1>14, <1>15, <1>16, <1>17 DEF Recovery, RecoveryFails

-----------------------------------------------------------------------------
(* The steps of the launch, the shutdown and the environment.              *)

\* The launch keeps it: the namespace was free when the prepared journal was
\* taken, and the helper starts under the journal that claims it.
LEMMA LeaseLaunch ==
    ASSUME IInv, LInv, Launch, UseMovesOn \/ \E p \in Pids : SpawnHelper(p)
    PROVE  LInv'
<1> USE DEF disk, host, processes, manager
<1>0. TypeOK /\ JournalInHand /\ PrimaryAtStep /\ Undamaged /\ OpenOnDisk /\ Attendance
  BY DEF IInv, LInv
<1>a. ASSUME UNCHANGED <<disk, host, processes, manager>>,
             Rollback \/ \E ok \in BOOLEAN : Finish(ok)
      PROVE  LInv'
  BY <1>0, <1>a, ReturnStep
<1>b. /\ Unattended => ~HelperRuns
      /\ Vacant => ~OwnedDirty
  BY <1>0 DEF LInv, Attendance, Occupancy
<1>1. CASE CheckHost
  <2>1. CASE /\ pc = "begin" /\ NamespaceFree /\ pc' = "clearBackup"
             /\ call' = [call EXCEPT !.journal = Prepared(ops + 1, rules)]
             /\ UNCHANGED <<disk, host, processes, manager>>
    <3>1. call'.journal = Prepared(ops + 1, rules) /\ ~call'.fromBackup
      BY <1>0, <2>1 DEF TypeOK, Call, Undamaged
    <3>2. call'.journal.phase \in OpenPhases
      BY <3>1 DEF Prepared, OpenPhases
    <3>3. ~OwnedDirty /\ ~HelperRuns
      BY <1>b, <2>1 DEF OwnedDirty, NamespaceFree, Unattended
    <3>4. UseMovesOn
      BY <2>1, OperationMoves
    <3> QED
      BY <2>1, <3>1, <3>2, <3>3, <3>4, WorkStep
  <2> QED
    BY <1>1, <1>a, <2>1 DEF CheckHost
<1>2. CASE ClearPreviousGood
  <2>1. /\ pc = "clearBackup" /\ pc' = "backup" /\ ops' = ops + 1 /\ ops \in Nat
        /\ UNCHANGED <<primary, lastClean, host, processes, cmd, mode>>
        /\ primary = Absent /\ ~OwnedDirty /\ ~HelperRuns
        /\ call.journal.phase \in OpenPhases
    BY <1>0, <1>2, <1>b
       DEF ClearPreviousGood, WriteJournal, PrimaryAtStep, OpenOnDisk, Unattended, Vacant, TypeOK
  <2>2. call'.journal = call.journal /\ call'.next = "spawn" /\ ~call'.fromBackup
    BY <1>0, <1>2 DEF ClearPreviousGood, WriteJournal, TypeOK, Call, Undamaged
  <2>3. ~OwnedDirty' /\ ~HelperRuns' /\ HelperIsKnown'
    BY <2>1 DEF OwnedDirty, HelperRuns, HelperIsKnown
  <2>4. Undamaged' /\ OpenOnDisk'
    BY <1>0, <2>1, <2>2 DEF Undamaged, OpenOnDisk, Writing
  <2>5. lastClean # Absent => lastClean.op \in Nat /\ lastClean.op <= ops
    BY <1>0 DEF TypeOK, Journal, LInv, LastClean
  <2>6. ops' # 0 /\ (lastClean' # Absent => lastClean'.op < ops' /\ lastClean'.op # ops' /\ lastClean'.op <= ops')
    BY <2>1, <2>5
  <2>7. ~Arriving' /\ ~Attending'
    BY <2>1, <2>2 DEF Arriving, Attending, Writing
  <2> QED
    BY <2>1, <2>3, <2>4, <2>6, <2>7 DEF LInv, Attendance, Occupancy, LastClean
<1>3. ASSUME NEW p \in Pids, SpawnHelper(p)
      PROVE  LInv'
  <2>1. /\ pc = "spawn" /\ pc' = "ready" /\ UNCHANGED <<primary, lastClean, tun, rules, ops>>
        /\ cmd' = p /\ ~HelperRuns /\ primary # Absent
        /\ proc' = [proc EXCEPT ![p] = [kind |-> "helper", born |-> born + 1, op |-> ops]]
        /\ call' = [NoCall EXCEPT !.op = "start"]
    BY <1>0, <1>3, <1>b
       DEF SpawnHelper, Start, Unattended, OpenOnDisk, JournalInHand, Holding
  <2>2. ~call'.fromBackup
    BY <2>1 DEF NoCall
  <2>3. \A q \in Pids : proc'[q].kind = "helper" => q = p /\ proc'[q].op = ops
    BY <1>0, <2>1 DEF TypeOK, HelperRuns
  <2>4. HelperIsKnown' /\ AllManaged'
    BY <2>1, <2>3 DEF HelperIsKnown, AllManaged
  <2>5. Undamaged' /\ OpenOnDisk' /\ ~Opening' /\ ~Unattended' /\ ~Vacant' /\ ~Arriving'
    BY <1>0, <2>1, <2>2 DEF Undamaged, OpenOnDisk, Opening, Writing, Unattended, Vacant, Arriving
  <2>6. lastClean # Absent => lastClean.op \in Nat /\ lastClean.op < ops /\ ops \in Nat
    BY <1>0, <2>1 DEF TypeOK, Journal, LInv, LastClean, Opening
  <2>7. lastClean' # Absent => lastClean'.op <= ops' /\ lastClean'.op # ops'
    BY <2>1, <2>6
  <2>8. OwnedDirty' => primary' # Absent
    BY <2>1
  <2> QED
    BY <2>1, <2>4, <2>5, <2>7, <2>8 DEF LInv, Attendance, Occupancy, LastClean
<1>4. CASE SpawnFails
  <2>1. /\ pc = "spawn" /\ pc' = "abort" /\ UNCHANGED <<disk, host, processes, manager>>
        /\ ~HelperRuns /\ ~OwnedDirty /\ ~call'.fromBackup
    BY <1>4, <1>b DEF SpawnFails, NoCall, Unattended, Vacant, Opening
  <2>2. UseMovesOn
    BY <2>1, OperationMoves
  <2> QED
    BY <2>1, <2>2, WorkStep
<1>5. CASE AbortPrepared
  <2>1. CASE /\ pc = "abort" /\ IsJournal(Loaded) /\ pc' = "saveClean"
             /\ call' = [call EXCEPT !.journal = [Loaded EXCEPT !.phase = "aborted-before-network-apply"],
                                     !.ret = "abort"]
             /\ UNCHANGED <<disk, host, processes, manager>>
    <3>1. primary # Absent
      BY <2>1, LoadedIsLatest DEF IInv
    <3>2. ~call'.fromBackup /\ ~HelperRuns /\ ~OwnedDirty
      BY <1>0, <1>b, <2>1 DEF TypeOK, Call, Undamaged, Unattended, Vacant
    <3>3. UseMovesOn
      BY <2>1, OperationMoves
    <3> QED
      BY <2>1, <3>1, <3>2, <3>3, WorkStep
  <2> QED
    BY <1>5, <1>a, <2>1 DEF AbortPrepared
<1>6. CASE HelperReady
  <2>1. UNCHANGED <<disk, ops, call>> /\ pc' = "mark" /\ UseMovesOn /\ AllManaged
    BY <1>0, <1>6, OperationMoves DEF HelperReady, Goto, Attendance, Attending
  <2> QED
    BY <1>0, <2>1, RestStep DEF Undamaged
<1>7. CASE HelperNotReady \/ MarkFails
  BY <1>7, <1>a DEF HelperNotReady, MarkFails
<1>8. CASE MarkTunnelActive
  <2>1. CASE /\ pc = "mark" /\ IsJournal(Loaded) /\ WriteJournal(Activated(Loaded), "done")
             /\ UNCHANGED <<disk, host, processes, manager>>
    <3>1. Loaded \in Journal /\ primary # Absent
      BY <2>1, LoadedIsLatest DEF IInv
    <3>2. call'.journal = Activated(Loaded) /\ call'.next = "done" /\ ~call'.fromBackup /\ pc' = "backup"
      BY <1>0, <2>1 DEF WriteJournal, TypeOK, Call, Undamaged
    <3>3. call'.journal.phase \in OpenPhases
      BY <3>1, <3>2 DEF Activated, Journal, OpenPhases
    <3>4. UseMovesOn
      BY <2>1, OperationMoves
    <3>5. /\ HelperIsKnown' /\ (HelperRuns' => HelperRuns)
          /\ OwnedDirty' => primary' # Absent
          /\ UNCHANGED <<primary, lastClean, ops, tun, rules>>
          /\ AllManaged'
      BY <1>0, <2>1, <3>2, <3>4, UseKept DEF Attendance, Attending
    <3>6. ~Unattended' /\ ~Vacant' /\ ~Opening' /\ ~Arriving'
      BY <3>2 DEF Unattended, Vacant, Opening, Writing, Arriving
    <3>7. Undamaged' /\ OpenOnDisk'
      BY <1>0, <3>1, <3>2, <3>3, <3>5 DEF Undamaged, OpenOnDisk, Writing
    <3>8. OwnedDirty' => OwnedDirty
      BY <3>5 DEF OwnedDirty
    <3> QED
      BY <3>2, <3>5, <3>6, <3>7, <3>8 DEF LInv, Attendance, Occupancy, LastClean
  <2> QED
    BY <1>8, <1>a, <2>1 DEF MarkTunnelActive
<1>9. CASE AgentTunnelPreflight
  <2>1. CASE /\ pc = "preflight" /\ pc' = "load" /\ call' = [call EXCEPT !.ret = "begin"]
             /\ UNCHANGED <<disk, host, processes, manager>>
    <3>1. ~call'.fromBackup /\ AllRecorded
      BY <1>0, <2>1 DEF TypeOK, Call, Undamaged, Attendance, Arriving
    <3>2. UseMovesOn
      BY <2>1, OperationMoves
    <3> QED
      BY <2>1, <3>1, <3>2, ArriveStep
  <2> QED
    BY <1>9, <1>a, <2>1 DEF AgentTunnelPreflight
<1> QED
  BY <1>1, <1>2, <1>3, <1>4, <1>5, <1>6, <1>7, <1>8, <1>9 DEF Launch

\* Without a managed process a helper is one that the journal records.
LEMMA NoneManaged ==
    ASSUME HelperIsKnown, ~ManagedRunning
    PROVE  AllRecorded
  BY JournalAssumption DEF HelperIsKnown, ManagedRunning, AllRecorded

\* StopAndWait and the entries of the public operations keep it: recovery
\* begins with no managed process left.
LEMMA LeaseShutdown ==
    ASSUME IInv, LInv, UseMovesOn,
           Shutdown \/ StartAgentTunnel \/ StopAndWait \/ RecoverStaleNetworkState
    PROVE  LInv'
<1> USE DEF disk, host, processes, manager
<1>0. TypeOK /\ Undamaged /\ HelperIsKnown
  BY DEF IInv, LInv
<1>1. UNCHANGED <<disk, host, processes, manager>>
  BY DEF Shutdown, BeginStop, SignalHelper, SignalTooLate, HelperGone, StopTimesOut,
         KillTimesOut, FinishTransaction, StartAgentTunnel, StopAndWait, RecoverStaleNetworkState
<1>2. CASE \E ok \in BOOLEAN : Finish(ok)
  BY <1>0, <1>1, <1>2, ReturnStep
<1>3. CASE pc' \in Rest /\ call'.fromBackup = call.fromBackup
  BY <1>0, <1>1, <1>3, RestStep DEF Undamaged
<1>4. CASE BeginStop \/ SignalHelper \/ StopTimesOut
  <2>1. pc' \in {"signal", "await", "killed"} /\ call'.fromBackup = call.fromBackup
    BY <1>0, <1>4 DEF BeginStop, SignalHelper, StopTimesOut, TypeOK, Call
  <2> QED
    BY <1>3, <2>1 DEF Rest
<1>5. CASE Goto("finish")
  BY <1>3, <1>5 DEF Goto, Rest
<1>6. CASE ~ManagedRunning /\ pc' = "load" /\ call' = [call EXCEPT !.ret = "finish"]
  <2>1. ~call'.fromBackup /\ AllRecorded
    BY <1>0, <1>6, NoneManaged DEF TypeOK, Call, Undamaged
  <2> QED
    BY <1>1, <1>6, <2>1, ArriveStep
<1>7. CASE StartAgentTunnel \/ RecoverStaleNetworkState
  <2>1. pc' \in {"preflight", "load"} /\ ~call'.fromBackup /\ AllRecorded
    BY <1>0, <1>7, NoneManaged DEF StartAgentTunnel, RecoverStaleNetworkState, NoCall
  <2> QED
    BY <1>1, <2>1, ArriveStep
<1>8. CASE StopAndWait
  <2>1. pc' = "stop" /\ call'.fromBackup = call.fromBackup
    BY <1>0, <1>8 DEF StopAndWait, NoCall, Undamaged, TypeOK, Call
  <2> QED
    BY <1>3, <2>1 DEF Rest
<1> QED
  BY <1>2, <1>4, <1>5, <1>6, <1>7, <1>8
     DEF Shutdown, SignalTooLate, HelperGone, KillTimesOut, FinishTransaction

\* Processes, other network managers and a crash keep it.
LEMMA LeaseEnvironment ==
    ASSUME LInv, UseMovesOn, "corruption" \notin Faults, Environment
    PROVE  LInv'
<1> USE DEF disk, host, processes, manager
<1>1. CASE \/ WaiterClears
           \/ (\E p \in Pids : \/ StartProxy(p) \/ HelperApplies(p)
                               \/ ProcessExits(p) \/ PidReused(p))
           \/ \E e \in Foreign : ForeignChange(e)
  <2>1. UNCHANGED disk /\ UNCHANGED <<ops, pc, call>>
    BY <1>1 DEF WaiterClears, StartProxy, HelperApplies, ProcessExits, PidReused, ForeignChange
  <2> QED
    BY <2>1, BesideStep
<1>2. CASE Crash
  <2>1. UNCHANGED <<disk, ops>> /\ pc' = "down" /\ ~call'.fromBackup
    BY <1>2 DEF Crash, NoCall
  <2> QED
    BY <2>1, RestStep DEF Rest
<1>3. CASE Restart
  <2>1. UNCHANGED <<disk, ops>> /\ pc' = "idle" /\ call'.fromBackup = call.fromBackup
    BY <1>3 DEF Restart
  <2> QED
    BY <2>1, RestStep DEF Rest, LInv, Undamaged
<1> QED
  BY <1>1, <1>2, <1>3 DEF Environment, CorruptPrimary

-----------------------------------------------------------------------------
(* The invariant and what it says.                                         *)

\* A host the program has never run on.
LEMMA LeaseInitial == Init => LInv
<1> SUFFICES ASSUME Init
             PROVE  LInv
  OBVIOUS
<1>1. ~OwnedDirty /\ ~HelperRuns
  BY JournalAssumption DEF Init, OwnedDirty, HelperRuns, NoProcess
<1> QED
  BY <1>1, JournalAssumption
     DEF Init, LInv, Undamaged, OpenOnDisk, HelperIsKnown, Attendance, Occupancy, LastClean,
         Unattended, Arriving, Attending, Vacant, Opening, Writing, NoCall, HelperRuns

\* Every step keeps it.
LEMMA LeasePreserved ==
    ASSUME "stranded" \notin Faults, "corruption" \notin Faults,
           IInv, EInv, LInv, [Next]_vars
    PROVE  LInv'
<1>1. UseMovesOn \/ \E p \in Pids : SpawnHelper(p)
  BY UseMoving DEF LInv
<1>2. CASE UNCHANGED vars
  BY <1>2, OperationMoves, BesideStep DEF vars, disk, host, processes, manager
<1>3. CASE Launch
  BY <1>1, <1>3, LeaseLaunch
<1>4. CASE UseMovesOn /\ Next
  BY <1>3, <1>4, LeaseRecovery, LeaseShutdown, LeaseEnvironment DEF Next, Operation
<1> QED
  BY <1>1, <1>2, <1>3, <1>4 DEF Launch

\* The journal covers the host, at every step of every operation.
THEOREM LeaseInvariance ==
    ASSUME "stranded" \notin Faults, "corruption" \notin Faults
    PROVE  Spec => [](IInv /\ EInv /\ LInv)
<1>1. IInv /\ EInv /\ LInv /\ [Next]_vars => LInv'
  BY LeasePreserved
<1> QED
  BY <1>1, LeaseInitial, HostInvariance, PTL DEF Spec

\* Unless a helper outlives a crash before its active journal is on disk, or the
\* journal is damaged: state of the tunnel on the host and a running helper are
\* covered by a journal that can be loaded, claims the reserved namespace and
\* belongs to the helper's transaction (beginTunnelTransaction writes it before
\* the process is started).
THEOREM HostIsJournaled ==
    ASSUME "stranded" \notin Faults, "corruption" \notin Faults
    PROVE  Spec => []OwnedStateIsJournaled
<1>1. IInv /\ EInv /\ LInv => OwnedStateIsJournaled
  <2> SUFFICES ASSUME IInv, EInv, LInv, OwnedDirty \/ HelperRuns
               PROVE  /\ IsJournal(Loaded)
                      /\ Reserved \subseteq Loaded.owned
                      /\ \A p \in Pids : proc[p].kind = "helper" => proc[p].op = Loaded.op
    BY DEF OwnedStateIsJournaled
  <2>1. primary # Absent
    BY DEF LInv, Occupancy, HelperIsKnown, HelperRuns
  <2>2. Loaded = primary /\ IsJournal(primary) /\ primary.op = ops
    BY <2>1, LoadedIsPrimary DEF IInv, LInv, LatestOnDisk
  <2> QED
    BY <2>2 DEF EInv, JournalsAreHonest, Honest, LInv, HelperIsKnown
<1> QED
  BY <1>1, LeaseInvariance, PTL

\* Under the same two exclusions: once last-clean records the latest transaction
\* nothing of it is left, although it is written before the open journal is
\* removed (persistCleanJournal).
THEOREM CleanMeansGone ==
    ASSUME "stranded" \notin Faults, "corruption" \notin Faults
    PROVE  Spec => []FinalizedLeavesNothing
<1>1. LInv => FinalizedLeavesNothing
  BY DEF LInv, LastClean, FinalizedLeavesNothing, FinalizedIn, IsJournal
<1> QED
  BY <1>1, LeaseInvariance, PTL

-----------------------------------------------------------------------------
(* The transaction implements the lease.                                   *)

\* The lease, the newest one so far and the use of the namespace, as the files
\* say it while none is damaged.
Held == IF primary # Absent THEN ops ELSE 0
Newest == IF primary # Absent THEN ops
          ELSE IF lastClean # Absent THEN lastClean.op ELSE 0
InUse == OwnedDirty \/ HelperRuns

\* That is what the refinement mapping reads.
LEMMA MappingReads ==
    ASSUME IInv, LInv
    PROVE  /\ (IF IsJournal(Loaded) THEN Loaded.op ELSE 0) = Held
           /\ (IF IsJournal(Loaded) THEN Loaded.op
               ELSE IF IsJournal(lastClean) THEN lastClean.op ELSE 0) = Newest
<1>1. /\ Loaded = primary /\ (IsJournal(primary) <=> primary # Absent)
      /\ primary # Absent => primary.op = ops
  BY LoadedIsPrimary DEF IInv, LInv, LatestOnDisk
<1>2. IsJournal(lastClean) <=> lastClean # Absent
  BY JournalAssumption DEF IInv, TypeOK, IsJournal
<1> QED
  BY <1>1, <1>2 DEF Held, Newest

\* Few steps touch the primary, last-clean or the operation id.
LEMMA FewWrite ==
    ASSUME "corruption" \notin Faults, Undamaged, [Next]_vars
    PROVE  \/ UNCHANGED <<primary, lastClean, ops>>
           \/ /\ pc = "replace" /\ primary' = call.journal
              /\ UNCHANGED <<lastClean, ops, host, processes>>
           \/ /\ pc = "saveClean" /\ UNCHANGED <<primary, ops, host, processes>>
           \/ DropPrimary \/ ClearPreviousGood
<1> USE DEF disk, manager
<1>1. CASE Recovery
  BY <1>1
     DEF Recovery, LoadJournal, CompareIdentity, CaptureStale, QuarantinePrimary, BackUpPrimary,
         ReplacePrimary, WriteFails, RemoveTun, RemoveEntry, RemovalDone, RemovalDenied,
         PrivilegedRecovery, RecoveryFails, VerifyRecovery, SaveLastClean, DropPreviousGood,
         StepFails, Undamaged
<1>2. CASE Launch
  BY <1>2
     DEF Launch, AgentTunnelPreflight, CheckHost, SpawnHelper, SpawnFails, AbortPrepared,
         HelperReady, HelperNotReady, MarkTunnelActive, MarkFails
<1>3. CASE Shutdown
  BY <1>3
     DEF Shutdown, BeginStop, SignalHelper, SignalTooLate, HelperGone, StopTimesOut,
         KillTimesOut, FinishTransaction
<1>4. CASE StartAgentTunnel \/ StopAndWait \/ RecoverStaleNetworkState
  BY <1>4 DEF StartAgentTunnel, StopAndWait, RecoverStaleNetworkState
<1>5. CASE Environment
  BY <1>5
     DEF Environment, WaiterClears, CorruptPrimary, Crash, Restart, StartProxy, HelperApplies,
         ProcessExits, PidReused, ForeignChange
<1>6. CASE UNCHANGED vars
  BY <1>6 DEF vars
<1> QED
  BY <1>1, <1>2, <1>3, <1>4, <1>5, <1>6 DEF Next, Operation

\* Every step opens the lease on a free namespace, closes it on a free one,
\* occupies the namespace under it, or at most vacates it.
LEMMA LeaseMoves ==
    ASSUME "stranded" \notin Faults, "corruption" \notin Faults,
           IInv, IInv', EInv, LInv, LInv', [Next]_vars
    PROVE  \/ /\ Held = 0 /\ ~InUse /\ Held' > Newest /\ Newest' = Held' /\ ~InUse'
           \/ Held # 0 /\ InUse' /\ UNCHANGED <<Held, Newest>>
           \/ ~InUse' /\ UNCHANGED <<Held, Newest>>
           \/ Held # 0 /\ ~InUse /\ Held' = 0 /\ Newest' = Newest /\ ~InUse'
<1> USE DEF disk, host, processes, manager
<1>0. /\ TypeOK /\ TypeOK' /\ ops \in Nat /\ JournalInHand /\ PrimaryAtStep
      /\ Undamaged /\ OpenOnDisk /\ Occupancy /\ Attendance
  BY DEF IInv, TypeOK, LInv
<1>1. InUse => primary # Absent
  BY DEF InUse, LInv, Occupancy, HelperIsKnown, HelperRuns
<1>2. primary # Absent => ops # 0
  BY <1>0 DEF OpenOnDisk
<1>3. CASE UNCHANGED <<primary, lastClean, ops>>
  <2>1. UNCHANGED <<Held, Newest>>
    BY <1>3 DEF Held, Newest
  <2>2. InUse' => Held # 0
    <3>1. (InUse => primary # Absent)'
      BY DEF InUse, LInv, Occupancy, HelperIsKnown, HelperRuns
    <3> QED
      BY <1>2, <1>3, <3>1 DEF Held
  <2> QED
    BY <2>1, <2>2
<1>4. CASE /\ pc = "replace" /\ primary' = call.journal
           /\ UNCHANGED <<lastClean, ops, host, processes>>
  <2>1. /\ pc = "replace" /\ primary' = call.journal /\ UNCHANGED <<lastClean, ops>>
        /\ UNCHANGED <<host, processes>> /\ call.journal \in Journal
    BY <1>0, <1>4 DEF JournalInHand, Holding
  <2>2. primary' # Absent /\ (InUse' <=> InUse)
    BY <2>1, JournalAssumption DEF InUse, OwnedDirty, HelperRuns
  <2>3. CASE primary # Absent
    <3>1. UNCHANGED <<Held, Newest>>
      BY <2>1, <2>2, <2>3 DEF Held, Newest
    <3>2. Held # 0
      BY <1>2, <2>3 DEF Held
    <3> QED
      BY <3>1, <3>2
  <2>4. CASE primary = Absent
    <3>1. Opening /\ ~InUse
      BY <1>0, <1>1, <2>1, <2>4 DEF OpenOnDisk, Writing, Opening
    <3>2. ops # 0 /\ (lastClean # Absent => lastClean.op < ops)
      BY <3>1 DEF LInv, LastClean
    <3>3. Held = 0 /\ Held' = ops /\ Newest' = ops
      BY <2>1, <2>2, <2>4 DEF Held, Newest
    <3>4. Held' > Newest
      BY <1>0, <2>4, <3>2, <3>3 DEF Newest, TypeOK, Journal
    <3> QED
      BY <2>2, <3>1, <3>3, <3>4
  <2> QED
    BY <2>3, <2>4
<1>5. CASE DropPrimary
  <2>1. /\ pc = "dropPrimary" /\ primary' = Absent /\ UNCHANGED <<lastClean, ops>>
        /\ UNCHANGED <<host, processes>>
    BY <1>5 DEF DropPrimary
  <2>2. ~InUse /\ primary # Absent /\ lastClean # Absent /\ lastClean.op = ops
    BY <1>0, <2>1
       DEF LInv, Attendance, Occupancy, LastClean, OpenOnDisk, Unattended, Vacant, InUse
  <2>3. ~InUse'
    BY <2>1, <2>2 DEF InUse, OwnedDirty, HelperRuns
  <2>4. Held # 0 /\ Held' = 0 /\ Newest' = Newest
    BY <1>2, <2>1, <2>2 DEF Held, Newest
  <2> QED
    BY <2>2, <2>3, <2>4
<1>6. CASE pc = "saveClean" /\ UNCHANGED <<primary, ops, host, processes>>
  <2>1. /\ pc = "saveClean" /\ UNCHANGED <<primary, ops>> /\ UNCHANGED <<host, processes>>
    BY <1>6
  <2>2. ~InUse /\ primary # Absent
    BY <1>0, <2>1 DEF Attendance, Occupancy, OpenOnDisk, Unattended, Vacant, InUse
  <2>3. ~InUse'
    BY <2>1, <2>2 DEF InUse, OwnedDirty, HelperRuns
  <2>4. UNCHANGED <<Held, Newest>>
    BY <2>1, <2>2 DEF Held, Newest
  <2> QED
    BY <2>3, <2>4
<1>7. CASE ClearPreviousGood
  <2>1. /\ primary = Absent /\ UNCHANGED <<primary, lastClean>> /\ UNCHANGED <<host, processes>>
    BY <1>0, <1>7 DEF ClearPreviousGood, PrimaryAtStep
  <2>2. ~InUse /\ ~InUse'
    BY <1>1, <2>1 DEF InUse, OwnedDirty, HelperRuns
  <2>3. UNCHANGED <<Held, Newest>>
    BY <2>1 DEF Held, Newest
  <2> QED
    BY <2>2, <2>3
<1> QED
  BY <1>0, <1>3, <1>4, <1>5, <1>6, <1>7, FewWrite

\* Under the same two exclusions the transaction is the lease: the reserved
\* namespace is in use only under an open journal, a journal opens on a free
\* namespace and closes on a free one, and every transaction is newer than all
\* before it.
THEOREM TransactionIsLease ==
    ASSUME "stranded" \notin Faults, "corruption" \notin Faults
    PROVE  Spec => ImplementsLease
<1>1. Init => Lease!Init
  <2> SUFFICES ASSUME Init
               PROVE  Lease!Init
    OBVIOUS
  <2>1. IInv /\ LInv /\ primary = Absent /\ lastClean = Absent
    BY Initial, LeaseInitial DEF Init
  <2>2. ~OwnedDirty /\ ~HelperRuns
    BY JournalAssumption DEF Init, OwnedDirty, HelperRuns, NoProcess
  <2> QED
    BY <2>1, <2>2, MappingReads DEF Lease!Init, Held, Newest
<1>2. IInv /\ IInv' /\ EInv /\ LInv /\ LInv' /\ [Next]_vars => [Lease!Next]_(Lease!vars)
  <2> SUFFICES ASSUME IInv, IInv', EInv, LInv, LInv', [Next]_vars
               PROVE  [Lease!Next]_(Lease!vars)
    OBVIOUS
  <2>1. /\ (IF IsJournal(Loaded) THEN Loaded.op ELSE 0) = Held
        /\ (IF IsJournal(Loaded) THEN Loaded.op
            ELSE IF IsJournal(lastClean) THEN lastClean.op ELSE 0) = Newest
    BY MappingReads
  <2>2. /\ (IF IsJournal(Loaded) THEN Loaded.op ELSE 0)' = Held'
        /\ (IF IsJournal(Loaded) THEN Loaded.op
            ELSE IF IsJournal(lastClean) THEN lastClean.op ELSE 0)' = Newest'
    <3>1. (/\ Loaded = primary
           /\ IsJournal(primary) <=> primary # Absent
           /\ primary # Absent => primary.op = ops
           /\ IsJournal(lastClean) <=> lastClean # Absent)'
      BY JournalAssumption
         DEF IInv, TypeOK, LInv, LatestOnDisk, Undamaged, Loaded, Load, IsJournal
    <3> QED
      BY <3>1 DEF Held, Newest
  <2>3. Lease!Next
    BY <2>1, <2>2, LeaseMoves
       DEF Lease!Next, Lease!Open, Lease!Occupy, Lease!Vacate, Lease!Close, InUse
  <2> QED
    BY <2>3
<1> QED
  BY <1>1, <1>2, LeaseInvariance, PTL DEF Spec, ImplementsLease, Lease!Spec

-----------------------------------------------------------------------------
(* What a stop and a start that succeed leave behind.                      *)

\* From the launch to the activation the caller is a start that may succeed.
Launched == pc \in {"ready", "mark"} => call.op = "start" /\ ~call.failing

\* The activation write belongs to such a start, and records every helper.
Recording ==
    Writing /\ call.next = "done" =>
        /\ call.op = "start" /\ ~call.failing /\ call.journal.phase = "active"
        /\ \A p \in Pids : proc[p].kind = "helper" =>
             call.journal.pid = p /\ call.journal.ident = proc[p].born

\* A stop that saw no tunnel state has no journal to finish.
NothingToFinish ==
    pc \in {"signal", "await", "killed"} /\ ~call.hadTunnel => primary = Absent

\* Where a start is that may still succeed: it recovers only on the way to
\* beginTunnelTransaction.
StartGoesOn ==
    call.op = "start" /\ ~call.failing /\ pc \in Running =>
        \/ pc \in {"preflight", "ready", "mark"}
        \/ Writing /\ call.next = "done"
        \/ /\ call.ret = "begin"
           /\ pc \notin {"stop", "signal", "await", "killed", "finish", "abort"}

\* Inductive together with IInv, EInv and LInv.
OInv == Launched /\ Recording /\ NothingToFinish /\ StartGoesOn

\* What the steps of recovery do to the caller's variables: return, roll back,
\* or work on for the same caller.
LEMMA RecoveryWorksOn ==
    ASSUME IInv, Recovery
    PROVE  \/ \E ok \in BOOLEAN : Finish(ok)
           \/ Rollback
           \/ /\ call'.op = call.op /\ call'.failing = call.failing /\ call'.ret = call.ret
              /\ \/ pc = "backup" /\ pc' = "replace" /\ call' = call
                 \/ /\ pc' \in Running /\ pc' \notin {"ready", "mark", "stop", "signal", "await",
                                                      "killed", "finish", "abort", "preflight"}
                    /\ pc' \in {"backup", "replace"} => call'.next \in {"mutate", "fail"}
                    /\ Writing => call.next # "done"
<1> DEFINE Kept == call'.op = call.op /\ call'.failing = call.failing /\ call'.ret = call.ret
<1>0. TypeOK /\ JournalInHand
  BY DEF IInv
<1>1. CASE LoadJournal
  <2>1. CASE /\ pc = "load" /\ pc' = "begin"
             /\ call' = [call EXCEPT !.journal = Absent, !.fromBackup = FALSE]
    <3>1. Kept
      BY <1>0, <2>1 DEF TypeOK, Call
    <3> QED
      BY <2>1, <3>1 DEF Running, Writing
  <2>2. CASE /\ pc = "load" /\ pc' \in {"saveClean", "identity", "capture"}
             /\ call' = [call EXCEPT !.journal = Loaded,
                           !.fromBackup = LoadedFromBackup(primary, previousGood, lastClean)]
    <3>1. Kept
      BY <1>0, <2>2 DEF TypeOK, Call
    <3> QED
      BY <2>2, <3>1 DEF Running, Writing
  <2> QED
    BY <1>1, <2>1, <2>2 DEF LoadJournal, Return
<1>2. CASE CaptureStale
  <2> DEFINE j == call.journal
             claimed == IF j.observed THEN j.owned
                        ELSE Merge(j.owned, Delta(j.before, rules))
             stale == [j EXCEPT !.owned = claimed, !.phase = "recovering"]
  <2>1. /\ pc = "capture"
        /\ \/ pc' = "quarantine" /\ call' = [call EXCEPT !.journal = stale]
           \/ pc' = "backup" /\ call' = [call EXCEPT !.journal = stale, !.next = "mutate"]
    BY <1>2 DEF CaptureStale, WriteJournal
  <2> HIDE DEF stale
  <2>2. Kept /\ (pc' = "backup" => call'.next = "mutate")
    BY <1>0, <2>1 DEF TypeOK, Call
  <2> QED
    BY <2>1, <2>2 DEF Running, Writing
<1>3. CASE QuarantinePrimary
  <2>1. /\ pc = "quarantine" /\ pc' = "backup"
        /\ call' = [call EXCEPT !.fromBackup = FALSE, !.next = "mutate"]
    BY <1>3 DEF QuarantinePrimary
  <2>2. Kept /\ call'.next = "mutate"
    BY <1>0, <2>1 DEF TypeOK, Call
  <2> QED
    BY <2>1, <2>2 DEF Running, Writing
<1>4. CASE BackUpPrimary
  BY <1>4 DEF BackUpPrimary, Goto
<1>5. CASE ReplacePrimary
  <2>1. pc = "replace" /\ call.next \in {"spawn", "done", "mutate", "fail"}
    BY <1>0, <1>5 DEF ReplacePrimary, JournalInHand, TypeOK, Call
  <2>2. CASE call.next = "spawn" /\ Goto("spawn")
    BY <2>2 DEF Goto, Running
  <2>3. CASE /\ call.next = "mutate" /\ pc' = "removeTun"
             /\ call' = [call EXCEPT !.todo = call.journal.owned]
    <3>1. Kept
      BY <1>0, <2>3 DEF TypeOK, Call
    <3> QED
      BY <2>3, <3>1 DEF Running
  <2> QED
    BY <1>5, <2>1, <2>2, <2>3 DEF ReplacePrimary, AfterWrite
<1>6. CASE WriteFails \/ StepFails
  BY <1>6 DEF WriteFails, StepFails
<1>7. CASE CompareIdentity \/ RemoveTun \/ RemovalDone \/ SaveLastClean \/ DropPrimary
  BY <1>7 DEF CompareIdentity, RemoveTun, RemovalDone, SaveLastClean, DropPrimary, Goto, Running,
              Writing
<1>8. ASSUME NEW e \in Entries, RemoveEntry(e)
      PROVE  Kept /\ pc = "mutate" /\ pc' = pc
  <2>1. pc = "mutate" /\ pc' = pc /\ call' = [call EXCEPT !.todo = @ \ {e}]
    BY <1>8 DEF RemoveEntry
  <2> QED
    BY <1>0, <2>1 DEF TypeOK, Call
<1>9. CASE \E e \in Entries : RemoveEntry(e)
  BY <1>8, <1>9 DEF Running, Writing
<1>10. CASE RemovalDenied
  <2>1. /\ pc' = "escalate" /\ pc \in {"removeTun", "mutate"}
        /\ call' = [call EXCEPT !.todo = {}]
    BY <1>10 DEF RemovalDenied
  <2>2. Kept
    BY <1>0, <2>1 DEF TypeOK, Call
  <2> QED
    BY <2>1, <2>2 DEF Running, Writing
<1>11. CASE pc \in {"escalate", "verify"} /\ WriteJournal(call.journal, "fail")
  <2>1. Kept /\ call'.next = "fail"
    BY <1>0, <1>11 DEF WriteJournal, TypeOK, Call
  <2> QED
    BY <1>11, <2>1 DEF WriteJournal, Running, Writing
<1>12. CASE VerifyRecovery
  <2>1. CASE /\ pc = "verify" /\ pc' = "saveClean"
             /\ call' = [call EXCEPT !.journal.phase = "clean",
                                     !.journal.pid = NoPid, !.journal.ident = 0]
    <3>1. Kept
      BY <1>0, <2>1 DEF TypeOK, Call
    <3> QED
      BY <2>1, <3>1 DEF Running, Writing
  <2> QED
    BY <1>12, <1>11, <2>1 DEF VerifyRecovery
<1>13. CASE DropPreviousGood
  <2>1. CASE /\ pc = "dropBackup" /\ pc' = "begin"
             /\ call' = [call EXCEPT !.journal = Absent, !.fromBackup = FALSE]
    <3>1. Kept
      BY <1>0, <2>1 DEF TypeOK, Call
    <3> QED
      BY <2>1, <3>1 DEF Running, Writing
  <2> QED
    BY <1>13, <2>1 DEF DropPreviousGood, Return
<1>14. CASE PrivilegedRecovery
  <2>1. /\ pc' = "removeTun" /\ pc = "escalate"
        /\ call' = [call EXCEPT !.asRoot = TRUE, !.todo = Reserved]
    BY <1>14 DEF PrivilegedRecovery
  <2>2. Kept
    BY <1>0, <2>1 DEF TypeOK, Call
  <2> QED
    BY <2>1, <2>2 DEF Running, Writing
<1> QED
  BY <1>1, <1>2, <1>3, <1>4, <1>5, <1>6, <1>7, <1>9, <1>10, <1>11, <1>12, <1>13, <1>14
     DEF Recovery, RecoveryFails

\* An operation that has returned, or is rolled back, has nothing to record.
LEMMA OutcomeStep ==
    ASSUME Rollback \/ \E ok \in BOOLEAN : Finish(ok)
    PROVE  OInv'
<1>1. CASE Rollback
  <2>1. pc' = "stop" /\ call'.failing
    BY <1>1 DEF Rollback, NoCall
  <2> QED
    BY <2>1 DEF OInv, Launched, Recording, NothingToFinish, StartGoesOn, Writing
<1>2. CASE \E ok \in BOOLEAN : Finish(ok)
  <2>1. pc' \in {"ok", "err"}
    BY <1>2 DEF Finish
  <2> QED
    BY <2>1 DEF OInv, Launched, Recording, NothingToFinish, StartGoesOn, Writing, Running
<1> QED
  BY <1>1, <1>2

\* The activation records the managed process, which is the only helper; while
\* the record is written helpers only end.
LEMMA Records ==
    ASSUME IInv, LInv, OInv, UseMovesOn \/ pc' \notin {"backup", "replace"}
    PROVE  /\ UNCHANGED <<pc, call>> => Recording'
           /\ pc = "backup" /\ pc' = "replace" /\ call' = call => Recording'
<1>1. ASSUME UseMovesOn, call' = call,
             Writing, call.next = "done"
      PROVE  Recording'
  <2>1. /\ call.op = "start" /\ ~call.failing /\ call.journal.phase = "active"
        /\ \A p \in Pids : proc[p].kind = "helper" =>
             call.journal.pid = p /\ call.journal.ident = proc[p].born
    BY <1>1 DEF OInv, Recording
  <2>2. \A p \in Pids : proc'[p].kind = "helper" => proc'[p] = proc[p]
    BY <1>1 DEF UseMovesOn
  <2> QED
    BY <1>1, <2>1, <2>2 DEF Recording
<1> QED
  BY <1>1 DEF Recording, Writing

\* Every step keeps it.
LEMMA OutcomePreserved ==
    ASSUME "stranded" \notin Faults, "corruption" \notin Faults,
           IInv, EInv, LInv, OInv, [Next]_vars
    PROVE  OInv'
<1> USE DEF disk, host, processes, manager
<1>0. /\ TypeOK /\ JournalInHand /\ Undamaged /\ Launched /\ NothingToFinish /\ StartGoesOn
      /\ Attendance
  BY DEF IInv, LInv, OInv
<1>a. ASSUME Rollback \/ \E ok \in BOOLEAN : Finish(ok)
      PROVE  OInv'
  BY <1>a, OutcomeStep
<1>b. UseMovesOn \/ \E p \in Pids : SpawnHelper(p)
  BY UseMoving DEF LInv
<1>1. CASE Recovery
  <2>1. CASE /\ call'.op = call.op /\ call'.failing = call.failing /\ call'.ret = call.ret
             /\ pc = "backup" /\ pc' = "replace" /\ call' = call
    <3>1. UseMovesOn
      BY <1>b, <2>1 DEF SpawnHelper
    <3>2. Recording'
      BY <2>1, <3>1, Records
    <3> QED
      BY <1>0, <2>1, <3>2 DEF OInv, Launched, NothingToFinish, StartGoesOn, Writing, Running
  <2>2. CASE /\ call'.op = call.op /\ call'.failing = call.failing /\ call'.ret = call.ret
             /\ pc' \in Running
             /\ pc' \notin {"ready", "mark", "stop", "signal", "await", "killed", "finish",
                            "abort", "preflight"}
             /\ pc' \in {"backup", "replace"} => call'.next \in {"mutate", "fail"}
             /\ Writing => call.next # "done"
    <3>1. pc \in Running /\ pc \notin {"preflight", "ready", "mark"}
      BY <1>1
         DEF Recovery, LoadJournal, CompareIdentity, CaptureStale, QuarantinePrimary,
             BackUpPrimary, ReplacePrimary, WriteFails, RemoveTun, RemoveEntry, RemovalDone, RemovalDenied, PrivilegedRecovery,
             RecoveryFails, VerifyRecovery, SaveLastClean, DropPrimary, DropPreviousGood, StepFails,
             Running
    <3>2. Launched' /\ NothingToFinish' /\ Recording'
      BY <2>2 DEF Launched, NothingToFinish, Recording, Writing
    <3>3. StartGoesOn'
      BY <1>0, <2>2, <3>1 DEF StartGoesOn
    <3> QED
      BY <3>2, <3>3 DEF OInv
  <2> QED
    BY <1>1, <1>a, <2>1, <2>2, RecoveryWorksOn
<1>2. CASE AgentTunnelPreflight
  <2>1. CASE pc = "preflight" /\ pc' = "load" /\ call' = [call EXCEPT !.ret = "begin"]
    <3>1. call'.ret = "begin"
      BY <1>0, <2>1 DEF TypeOK, Call
    <3> QED
      BY <2>1, <3>1 DEF OInv, Launched, Recording, NothingToFinish, StartGoesOn, Writing
  <2> QED
    BY <1>2, <1>a, <2>1 DEF AgentTunnelPreflight
<1>3. CASE CheckHost
  <2>1. CASE /\ pc = "begin" /\ pc' = "clearBackup"
             /\ call' = [call EXCEPT !.journal = Prepared(ops + 1, rules)]
    <3>1. call'.ret = call.ret /\ call'.op = call.op /\ call'.failing = call.failing
      BY <1>0, <2>1 DEF TypeOK, Call
    <3>2. StartGoesOn'
      BY <1>0, <2>1, <3>1 DEF StartGoesOn, Writing, Running
    <3> QED
      BY <2>1, <3>2 DEF OInv, Launched, Recording, NothingToFinish, Writing
  <2> QED
    BY <1>3, <1>a, <2>1 DEF CheckHost
<1>4. CASE ClearPreviousGood
  <2>1. /\ pc = "clearBackup" /\ pc' = "backup"
        /\ call' = [call EXCEPT !.journal = call.journal, !.next = "spawn"]
    BY <1>4 DEF ClearPreviousGood, WriteJournal
  <2>2. /\ call'.ret = call.ret /\ call'.op = call.op /\ call'.failing = call.failing
        /\ call'.next = "spawn"
    BY <1>0, <2>1 DEF TypeOK, Call
  <2>3. StartGoesOn'
    BY <1>0, <2>1, <2>2 DEF StartGoesOn, Writing, Running
  <2> QED
    BY <2>1, <2>2, <2>3 DEF OInv, Launched, Recording, NothingToFinish, Writing
<1>5. CASE \E p \in Pids : SpawnHelper(p)
  <2>1. pc' = "ready" /\ call'.op = "start" /\ ~call'.failing
    BY <1>5 DEF SpawnHelper, NoCall
  <2> QED
    BY <2>1 DEF OInv, Launched, Recording, NothingToFinish, StartGoesOn, Writing
<1>6. CASE SpawnFails
  <2>1. pc' = "abort" /\ call'.failing
    BY <1>6 DEF SpawnFails, NoCall
  <2> QED
    BY <2>1 DEF OInv, Launched, Recording, NothingToFinish, StartGoesOn, Writing
<1>7. CASE AbortPrepared
  <2> DEFINE aborted == [Loaded EXCEPT !.phase = "aborted-before-network-apply"]
  <2>1. CASE /\ pc = "abort" /\ pc' = "saveClean"
             /\ call' = [call EXCEPT !.journal = aborted, !.ret = "abort"]
    <3> HIDE DEF aborted
    <3>1. call'.op = call.op /\ call'.failing = call.failing
      BY <1>0, <2>1 DEF TypeOK, Call
    <3>2. ~(call.op = "start" /\ ~call.failing)
      BY <1>0, <2>1 DEF StartGoesOn, Writing, Running
    <3> QED
      BY <2>1, <3>1, <3>2 DEF OInv, Launched, Recording, NothingToFinish, StartGoesOn, Writing
  <2> QED
    BY <1>7, <1>a, <2>1 DEF AbortPrepared
<1>8. CASE HelperReady
  <2>1. pc = "ready" /\ pc' = "mark" /\ call' = call
    BY <1>8 DEF HelperReady, Goto
  <2> QED
    BY <1>0, <2>1 DEF OInv, Launched, Recording, NothingToFinish, StartGoesOn, Writing
<1>9. CASE HelperNotReady \/ MarkFails
  BY <1>9, <1>a DEF HelperNotReady, MarkFails
<1>10. CASE MarkTunnelActive
  <2>1. CASE /\ pc = "mark" /\ IsJournal(Loaded) /\ WriteJournal(Activated(Loaded), "done")
             /\ UNCHANGED processes
    <3>1. Loaded \in Journal
      BY <2>1, LoadedIsLatest DEF IInv
    <3>2. /\ call'.journal = Activated(Loaded) /\ call'.next = "done" /\ pc' = "backup"
          /\ call'.op = "start" /\ ~call'.failing
      BY <1>0, <2>1 DEF WriteJournal, TypeOK, Call, Launched
    <3>3. /\ Activated(Loaded).phase = "active" /\ Activated(Loaded).pid = cmd
          /\ Activated(Loaded).ident = IF ManagedRunning THEN proc[cmd].born ELSE 0
      BY <3>1 DEF Activated, Journal
    <3>4. \A p \in Pids : proc'[p].kind = "helper" =>
             Activated(Loaded).pid = p /\ Activated(Loaded).ident = proc'[p].born
      BY <1>0, <2>1, <3>3, JournalAssumption
         DEF Attendance, Attending, AllManaged, ManagedRunning
    <3>5. Recording'
      BY <3>2, <3>3, <3>4 DEF Recording
    <3> QED
      BY <3>2, <3>5 DEF OInv, Launched, NothingToFinish, StartGoesOn, Writing
  <2> QED
    BY <1>10, <1>a, <2>1 DEF MarkTunnelActive
<1>11. CASE BeginStop
  <2>1. /\ pc = "stop" /\ pc' = "signal" /\ UNCHANGED disk
        /\ call' = [call EXCEPT !.hadTunnel = (mode = "agent-tunnel" \/ JournalOpen),
                                !.target = IF ManagedRunning THEN proc[cmd].born ELSE 0]
    BY <1>11 DEF BeginStop
  <2>2. /\ call'.hadTunnel = (mode = "agent-tunnel" \/ JournalOpen)
        /\ call'.op = call.op /\ call'.failing = call.failing
    BY <1>0, <2>1 DEF TypeOK, Call
  <2>3. ~call'.hadTunnel => primary' = Absent
    BY <1>0, <2>1, <2>2, LoadedIsPrimary DEF JournalOpen, StatusOpen, Loaded
  <2>4. ~(call.op = "start" /\ ~call.failing)
    BY <1>0, <2>1 DEF StartGoesOn, Writing, Running
  <2> QED
    BY <2>1, <2>2, <2>3, <2>4 DEF OInv, Launched, Recording, NothingToFinish, StartGoesOn, Writing
<1>12. CASE SignalHelper \/ StopTimesOut
  <2>1. /\ pc \in {"signal", "await"} /\ pc' \in {"await", "killed"} /\ UNCHANGED disk
        /\ \/ call' = [call EXCEPT !.target = 0]
           \/ call' = [call EXCEPT !.failing = TRUE]
    BY <1>12 DEF SignalHelper, StopTimesOut
  <2>2. /\ call'.hadTunnel = call.hadTunnel /\ call'.op = call.op
        /\ call'.failing \in {call.failing, TRUE}
    BY <1>0, <2>1 DEF TypeOK, Call
  <2>3. ~(call.op = "start" /\ ~call.failing)
    BY <1>0, <2>1 DEF StartGoesOn, Writing, Running
  <2> QED
    BY <1>0, <2>1, <2>2, <2>3
       DEF OInv, Launched, Recording, NothingToFinish, StartGoesOn, Writing
<1>13. CASE pc \in {"await", "killed"} /\ Goto("finish")
  <2>1. ~(call.op = "start" /\ ~call.failing)
    BY <1>0, <1>13 DEF StartGoesOn, Writing, Running
  <2> QED
    BY <1>13, <2>1 DEF Goto, OInv, Launched, Recording, NothingToFinish, StartGoesOn, Writing
<1>14. CASE pc = "finish" /\ pc' = "load" /\ call' = [call EXCEPT !.ret = "finish"]
  <2>1. ~(call.op = "start" /\ ~call.failing)
    BY <1>0, <1>14 DEF StartGoesOn, Writing, Running
  <2>2. call'.op = call.op /\ call'.failing = call.failing
    BY <1>0, <1>14 DEF TypeOK, Call
  <2> QED
    BY <1>14, <2>1, <2>2 DEF OInv, Launched, Recording, NothingToFinish, StartGoesOn, Writing
<1>15. CASE Shutdown
  BY <1>15, <1>a, <1>11, <1>12, <1>13, <1>14
     DEF Shutdown, SignalTooLate, HelperGone, KillTimesOut, FinishTransaction
<1>16. CASE StartAgentTunnel \/ StopAndWait \/ RecoverStaleNetworkState
  <2>1. /\ pc' = "preflight" \/ (pc' \in {"stop", "load"} /\ call'.op \in {"stop", "recover"})
    BY <1>16 DEF StartAgentTunnel, StopAndWait, RecoverStaleNetworkState, NoCall
  <2> QED
    BY <2>1 DEF OInv, Launched, Recording, NothingToFinish, StartGoesOn, Writing
<1>17. CASE Crash \/ Restart
  <2>1. pc' \in {"down", "idle"}
    BY <1>17 DEF Crash, Restart
  <2> QED
    BY <2>1 DEF OInv, Launched, Recording, NothingToFinish, StartGoesOn, Writing, Running
<1>18. CASE UNCHANGED <<primary, pc, call>> /\ UseMovesOn
  <2>1. Recording'
    BY <1>18, Records
  <2> QED
    BY <1>0, <1>18, <2>1 DEF OInv, Launched, NothingToFinish, StartGoesOn, Writing
<1>19. CASE \/ WaiterClears \/ CorruptPrimary
            \/ (\E p \in Pids : \/ StartProxy(p) \/ HelperApplies(p)
                                \/ ProcessExits(p) \/ PidReused(p))
            \/ \E e \in Foreign : ForeignChange(e)
  <2>1. UNCHANGED <<primary, pc, call>>
    BY <1>19
       DEF WaiterClears, CorruptPrimary, StartProxy, HelperApplies, ProcessExits, PidReused,
           ForeignChange
  <2> QED
    BY <1>5, <1>18, <1>b, <2>1
<1>20. CASE UNCHANGED vars
  BY <1>5, <1>18, <1>20, <1>b DEF vars
<1> QED
  BY <1>1, <1>2, <1>3, <1>4, <1>5, <1>6, <1>7, <1>8, <1>9, <1>10, <1>15, <1>16, <1>17, <1>19,
     <1>20 DEF Next, Operation, Environment, Launch

\* The ways an operation comes to succeed.
LEMMA SucceedsBy ==
    ASSUME IInv, [Next]_vars, pc # "ok", pc' = "ok"
    PROVE  /\ ~call.failing
           /\ \/ ReplacePrimary /\ pc = "replace" /\ call.next = "done"
              \/ /\ primary' = Absent
                 /\ \/ pc \in {"load", "dropBackup"} /\ call.ret # "begin"
                    \/ pc = "finish"
              \/ /\ UNCHANGED disk
                 /\ pc \in {"await", "killed"} /\ ~call.hadTunnel
<1> USE DEF disk, manager
<1>0. TypeOK /\ JournalInHand /\ PrimaryAtStep
  BY DEF IInv
<1>1. CASE LoadJournal
  <2>1. pc = "load" /\ UNCHANGED primary /\ Loaded = Absent /\ Return(TRUE)
    <3>1. ~Return(FALSE)
      BY DEF Return, Finish
    <3> QED
      BY <1>1, <3>1 DEF LoadJournal
  <2>2. primary = Absent
    BY <2>1, LoadedIsLatest DEF IInv
  <2> QED
    BY <2>1, <2>2 DEF Return, Finish
<1>2. CASE ReplacePrimary
  <2>1. pc = "replace" /\ call.next \in {"spawn", "done", "mutate", "fail"}
    BY <1>0, <1>2 DEF ReplacePrimary, JournalInHand, TypeOK, Call
  <2> QED
    BY <1>2, <2>1 DEF ReplacePrimary, AfterWrite, Finish, Goto
<1>3. CASE DropPreviousGood
  BY <1>0, <1>3 DEF DropPreviousGood, Return, Finish, PrimaryAtStep
<1>4. CASE HelperGone
  BY <1>4 DEF HelperGone, Finish, Goto
<1>5. CASE FinishTransaction
  <2>1. pc = "finish" /\ UNCHANGED primary /\ Loaded = Absent /\ Finish(TRUE)
    <3>1. ~Finish(FALSE)
      BY DEF Finish
    <3> QED
      BY <1>5, <3>1 DEF FinishTransaction
  <2>2. primary = Absent
    BY <2>1, LoadedIsLatest DEF IInv
  <2> QED
    BY <2>1, <2>2 DEF Finish
<1>6. ~Finish(FALSE) /\ ~Rollback
  BY DEF Finish, Rollback
<1>7. CASE \/ CompareIdentity \/ CaptureStale \/ QuarantinePrimary \/ BackUpPrimary \/ WriteFails
           \/ RemoveTun \/ (\E e \in Entries : RemoveEntry(e)) \/ RemovalDone \/ RemovalDenied
           \/ PrivilegedRecovery \/ RecoveryFails \/ VerifyRecovery
           \/ SaveLastClean \/ DropPrimary \/ StepFails
  BY <1>6, <1>7
     DEF CompareIdentity, CaptureStale, QuarantinePrimary, BackUpPrimary, WriteFails, RemoveTun,
         RemoveEntry,
         RemovalDone, RemovalDenied, PrivilegedRecovery, RecoveryFails, VerifyRecovery,
         SaveLastClean, DropPrimary, StepFails, Goto, WriteJournal
<1>8. CASE Launch
  BY <1>6, <1>8
     DEF Launch, AgentTunnelPreflight, CheckHost, ClearPreviousGood, SpawnHelper, SpawnFails,
         AbortPrepared, HelperReady, HelperNotReady, MarkTunnelActive, MarkFails, Goto, WriteJournal
<1>9. CASE \/ BeginStop \/ SignalHelper \/ SignalTooLate \/ StopTimesOut \/ KillTimesOut
           \/ StartAgentTunnel \/ StopAndWait \/ RecoverStaleNetworkState \/ Crash \/ Restart
  BY <1>6, <1>9
     DEF BeginStop, SignalHelper, SignalTooLate, StopTimesOut, KillTimesOut, StartAgentTunnel,
         StopAndWait, RecoverStaleNetworkState, Crash, Restart
<1>10. CASE \/ WaiterClears \/ CorruptPrimary
            \/ (\E p \in Pids : \/ StartProxy(p) \/ HelperApplies(p)
                                \/ ProcessExits(p) \/ PidReused(p))
            \/ \E e \in Foreign : ForeignChange(e)
  BY <1>10
     DEF WaiterClears, CorruptPrimary, StartProxy, HelperApplies, ProcessExits, PidReused,
         ForeignChange
<1>11. CASE UNCHANGED vars
  BY <1>11 DEF vars
<1> QED
  BY <1>1, <1>2, <1>3, <1>4, <1>5, <1>7, <1>8, <1>9, <1>10, <1>11
     DEF Next, Operation, Environment, Recovery, Shutdown

\* Who wins: a start only by its activation write, a stop only with the journal
\* gone.
LEMMA OutcomeOnSuccess ==
    ASSUME IInv, LInv, LInv', OInv, [Next]_vars, pc # "ok", pc' = "ok"
    PROVE  /\ call.op = "start" =>
                /\ IsJournal(primary')
                /\ primary'.phase = "active" /\ primary'.op = ops
                /\ \A p \in Pids :
                     proc'[p].kind = "helper" => primary'.pid = p /\ primary'.ident = proc'[p].born
           /\ call.op = "stop" => ~JournalOpen' /\ ~OwnedDirty' /\ ~HelperRuns'
<1>0. TypeOK /\ StartGoesOn /\ Recording /\ NothingToFinish
  BY DEF IInv, OInv
<1>1. CASE ReplacePrimary /\ pc = "replace" /\ call.next = "done"
  <2>1. /\ primary' = call.journal /\ proc' = proc /\ call.journal \in Journal
        /\ call.journal.op = ops
    BY <1>1 DEF ReplacePrimary, processes, IInv, JournalInHand, Holding
  <2>2. /\ call.op = "start" /\ call.journal.phase = "active"
        /\ \A p \in Pids : proc[p].kind = "helper" =>
             call.journal.pid = p /\ call.journal.ident = proc[p].born
    BY <1>0, <1>1 DEF Recording, Writing
  <2>3. IsJournal(primary')
    BY <2>1, JournalAssumption DEF IsJournal
  <2> QED
    BY <2>1, <2>2, <2>3
<1>2. CASE primary' = Absent /\ ~(call.op = "start")
  <2>1. ~OwnedDirty' /\ ~HelperRuns'
    BY <1>2 DEF LInv, Occupancy, HelperIsKnown, HelperRuns
  <2>2. ~JournalOpen'
    BY <1>2, JournalAssumption DEF JournalOpen, StatusOpen, Load
  <2> QED
    BY <1>2, <2>1, <2>2
<1>3. /\ ~call.failing
      /\ \/ pc \in {"load", "dropBackup"} /\ call.ret # "begin"
         \/ pc \in {"finish", "await", "killed"}
      => call.op # "start"
  BY <1>0 DEF StartGoesOn, Writing, Running
<1>4. UNCHANGED disk /\ pc \in {"await", "killed"} /\ ~call.hadTunnel => primary' = Absent
  BY <1>0 DEF NothingToFinish, disk
<1> QED
  BY <1>1, <1>2, <1>3, <1>4, SucceedsBy

\* All four parts of the invariant hold together.
LEMMA OutcomeInvariance ==
    ASSUME "stranded" \notin Faults, "corruption" \notin Faults
    PROVE  Spec => [](IInv /\ LInv /\ OInv)
<1>1. Init => OInv
  BY DEF Init, OInv, Launched, Recording, NothingToFinish, StartGoesOn, Writing, Running
<1>2. IInv /\ EInv /\ LInv /\ OInv /\ [Next]_vars => OInv'
  BY OutcomePreserved
<1> QED
  BY <1>1, <1>2, LeaseInvariance, PTL DEF Spec

\* Under the same two exclusions StopAndWait reports success only with the
\* journal closed, the reserved namespace empty and no helper left, whatever
\* failed on the way; a recorded helper that outlived a crash makes it fail.
THEOREM StopIsComplete ==
    ASSUME "stranded" \notin Faults, "corruption" \notin Faults
    PROVE  Spec => StopReleases
<1>1. IInv /\ LInv /\ LInv' /\ OInv /\ [Next]_vars =>
        [call.op = "stop" /\ pc # "ok" /\ pc' = "ok"
           => ~JournalOpen' /\ ~OwnedDirty' /\ ~HelperRuns']_vars
  BY OutcomeOnSuccess
<1> QED
  BY <1>1, OutcomeInvariance, PTL DEF Spec, StopReleases

\* Under the same two exclusions a start that succeeds leaves the active journal
\* of its transaction on disk, and no helper runs but the one it names: no later recovery takes it for dead
\* (markTunnelActive, after the process may have exited and its PID passed on).
THEOREM StartIsRecorded ==
    ASSUME "stranded" \notin Faults, "corruption" \notin Faults
    PROVE  Spec => StartLeavesActive
<1>1. IInv /\ LInv /\ LInv' /\ OInv /\ [Next]_vars =>
        [call.op = "start" /\ pc # "ok" /\ pc' = "ok"
           => /\ IsJournal(primary')
              /\ primary'.phase = "active" /\ primary'.op = ops
              /\ \A p \in Pids :
                   proc'[p].kind = "helper" => primary'.pid = p /\ primary'.ident = proc'[p].born]_vars
  BY OutcomeOnSuccess
<1> QED
  BY <1>1, OutcomeInvariance, PTL DEF Spec, StartLeavesActive
=============================================================================

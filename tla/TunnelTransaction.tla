------------------------- MODULE TunnelTransaction -------------------------
(***************************************************************************)
(* The Agent Tunnel transaction: Manager.StartAgentTunnel, StopAndWait and *)
(* RecoverStaleNetworkState, step by step, over the journal files, the     *)
(* host's TUN and routing entries, the managed sing-box process and a      *)
(* control plane that may crash between any two steps.                     *)
(*                                                                         *)
(* One operation runs at a time (the caller's lifecycleMu); everything     *)
(* else - the helper, the process waiter, Manager.Start, other network     *)
(* managers, crash, corruption - interleaves with its steps.               *)
(***************************************************************************)
EXTENDS TunnelJournal

CONSTANTS
    Faults,     \* which hostile events the environment may produce
    MaxOps,     \* bound: transactions begun in a behaviour
    MaxBorn     \* bound: processes created in a behaviour

ASSUME FaultsAssumption ==
    Faults \subseteq {"crash", "io", "eperm", "corruption", "orphan", "stranded",
                "foreign", "proxy", "reuse"}

ASSUME BoundsAssumption == MaxOps \in Nat /\ MaxBorn \in Nat

VARIABLES
    primary,        \* network-state.json
    previousGood,   \* network-state.json.previous-good
    lastClean,      \* network-state-last-clean.json
    tun,            \* does the interface antigravity-tun exist
    rules,          \* routing entries present in the kernel
    proc,           \* the processes: kind, start time, transaction served
    born,           \* start time of the latest process
    cmd,            \* Manager.cmd: the managed process's PID, or NoPid
    mode,           \* Manager.mode
    ops,            \* transactions begun so far
    pc,             \* control point of the running operation, or its outcome
    call            \* the running operation's local variables

disk == <<primary, previousGood, lastClean>>
host == <<tun, rules>>
processes == <<proc, born>>
manager == <<cmd, mode, ops>>
vars == <<disk, host, processes, manager, pc, call>>

Modes == {"off", "proxy", "agent-tunnel"}
Outcomes == {"idle", "ok", "err"}    \* no operation is running
Running == {"preflight", "load", "identity", "capture", "quarantine", "backup", "replace", "removeTun",
            "mutate", "escalate", "verify", "saveClean", "dropPrimary", "dropBackup",
            "begin", "clearBackup", "spawn", "abort", "ready", "mark",
            "stop", "signal", "await", "killed", "finish"}

Process == [kind : {"none", "helper", "proxy", "other"},
            born : Nat, op : Nat]
NoProcess == [kind |-> "none", born |-> 0, op |-> 0]
Alive(p) == proc[p].kind # "none"

\* What the journal's PID fields say about a process that runs now.
RecordsLive(j) ==
    /\ j.pid # NoPid
    /\ Alive(j.pid)
    /\ proc[j.pid].born = j.ident

\* Local variables: the journal in memory (j) and whether it came from the
\* previous-good file, what recovery has still to remove and whether the root
\* helper removes it, what follows the journal write in progress, who called
\* RecoverStaleNetworkState, and StopAndWait's hadTunnelState, process to
\* signal and error to report.
Call == [op : {"none", "start", "stop", "recover"},
         journal : Journal \cup {Absent}, fromBackup : BOOLEAN,
         todo : SUBSET Entries, asRoot : BOOLEAN, next : {"none", "spawn", "done", "mutate", "fail"},
         ret : {"none", "begin", "finish", "abort"},
         hadTunnel : BOOLEAN, failing : BOOLEAN, target : Nat]

NoCall == [op |-> "none", journal |-> Absent, fromBackup |-> FALSE,
           todo |-> {}, asRoot |-> FALSE, next |-> "none", ret |-> "none",
           hadTunnel |-> FALSE, failing |-> FALSE, target |-> 0]

Loaded == Load(primary, previousGood, lastClean)
JournalOpen == StatusOpen(primary, previousGood, lastClean)
ManagedRunning == cmd # NoPid

TypeOK ==
    /\ primary \in File /\ previousGood \in File
    /\ lastClean \in Journal \cup {Absent}
    /\ tun \in BOOLEAN /\ rules \subseteq Entries
    /\ proc \in [Pids -> Process] /\ born \in Nat
    /\ cmd \in Pids \cup {NoPid} /\ mode \in Modes /\ ops \in Nat
    /\ pc \in Running \cup Outcomes \cup {"down"}
    /\ call \in Call

Init ==
    /\ primary = Absent /\ previousGood = Absent /\ lastClean = Absent
    /\ tun = FALSE /\ rules \in SUBSET Foreign
    /\ proc = [p \in Pids |-> NoProcess] /\ born = 0
    /\ cmd = NoPid /\ mode = "off" /\ ops = 0
    /\ pc = "idle" /\ call = NoCall

-----------------------------------------------------------------------------
(* How an operation moves and ends.                                        *)

Goto(l) == pc' = l /\ UNCHANGED call

\* The operation returns to its caller; a rollback, an abort or a stop that
\* timed out reports its error even when the clean-up went well.
Finish(ok) ==
    /\ pc' = IF ok /\ ~call.failing THEN "ok" ELSE "err"
    /\ call' = [NoCall EXCEPT !.op = call.op]

\* RecoverStaleNetworkState (or persistCleanJournal under abort) returns: only
\* beginTunnelTransaction goes on after a success.
Return(ok) ==
    IF ok /\ call.ret = "begin"
    THEN /\ pc' = "begin"
         /\ call' = [call EXCEPT !.journal = Absent, !.fromBackup = FALSE]
    ELSE Finish(ok)

\* rollbackFailedAgentTunnelStart: StopAndWait, and the cause is returned.
Rollback ==
    /\ pc' = "stop"
    /\ call' = [NoCall EXCEPT !.op = call.op, !.failing = TRUE]

\* Enter writeTunnelJournal with journal j; then says what follows it.
WriteJournal(j, then) ==
    /\ pc' = "backup"
    /\ call' = [call EXCEPT !.journal = j, !.next = then]

-----------------------------------------------------------------------------
(* The public operations.                                                  *)

\* StartAgentTunnel refuses while a managed process runs; errors of the
\* installation and of the host's privileges return before that.
StartAgentTunnel ==
    /\ pc \in Outcomes
    /\ ~ManagedRunning
    /\ ops < MaxOps
    /\ pc' = "preflight"
    /\ call' = [NoCall EXCEPT !.op = "start"]
    /\ UNCHANGED <<disk, host, processes, manager>>

\* No TUN of ours, no entry in the reserved table and priorities.
NamespaceFree == ~tun /\ rules \cap Reserved = {}

\* AgentTunnelPreflight blocks on what an earlier run left, so that a start
\* recovers only journals whose network is gone.  It may block for the VPN, the
\* API listener or the snapshot as well.
AgentTunnelPreflight ==
    /\ pc = "preflight"
    /\ \/ NamespaceFree /\ pc' = "load" /\ call' = [call EXCEPT !.ret = "begin"]
       \/ Finish(FALSE)
    /\ UNCHANGED <<disk, host, processes, manager>>

StopAndWait ==
    /\ pc \in Outcomes
    /\ pc' = "stop"
    /\ call' = [NoCall EXCEPT !.op = "stop"]
    /\ UNCHANGED <<disk, host, processes, manager>>

\* On its own, as a restarted control plane runs it: like both callers, with
\* no managed process of this Manager.
RecoverStaleNetworkState ==
    /\ pc \in Outcomes
    /\ ~ManagedRunning
    /\ pc' = "load"
    /\ call' = [NoCall EXCEPT !.op = "recover", !.ret = "finish"]
    /\ UNCHANGED <<disk, host, processes, manager>>

-----------------------------------------------------------------------------
(* RecoverStaleNetworkState, up to the first mutation.                     *)

\* Mutant: a prepared transaction is not recovered.
BugLoadSkipsPrepared ==
    /\ pc = "load"
    /\ IF Loaded = Absent THEN Return(TRUE)
       ELSE IF Loaded = Corrupt THEN Return(FALSE)
       ELSE IF Loaded.phase = "prepared" THEN Return(TRUE)
       ELSE /\ pc' = "capture"
            /\ call' = [call EXCEPT !.journal = Loaded]
    /\ UNCHANGED <<disk, host, processes, manager>>

\* Mutant: the recorded PID is not looked up.
BugLoadIgnoresHelper ==
    /\ pc = "load"
    /\ IF Loaded = Absent THEN Return(TRUE)
       ELSE IF Loaded = Corrupt THEN Return(FALSE)
       ELSE pc' = "capture" /\ call' = [call EXCEPT !.journal = Loaded]
    /\ UNCHANGED <<disk, host, processes, manager>>

\* platformProcessAlive asks only whether the recorded PID is in use.
LoadJournal ==
    /\ pc = "load"
    /\ IF Loaded = Absent THEN Return(TRUE)
       ELSE IF Loaded = Corrupt THEN Return(FALSE)
       ELSE /\ pc' = IF Loaded.phase \in FinalPhases THEN "saveClean"
                     ELSE IF Loaded.pid # NoPid /\ Alive(Loaded.pid) THEN "identity"
                     ELSE "capture"
            /\ call' = [call EXCEPT !.journal = Loaded,
                          !.fromBackup = LoadedFromBackup(primary, previousGood, lastClean)]
    /\ UNCHANGED <<disk, host, processes, manager>>

\* Mutant: any process under the recorded PID is taken for the helper.
BugIdentityNotCompared ==
    /\ pc = "identity"
    /\ Finish(FALSE)
    /\ UNCHANGED <<disk, host, processes, manager>>

\* platformProcessIdentity, a second reading: no recorded identity, a process
\* that is gone by now and the recorded process itself all refuse.
CompareIdentity ==
    /\ pc = "identity"
    /\ LET j == call.journal
       IN  IF j.ident = 0 \/ ~Alive(j.pid) \/ proc[j.pid].born = j.ident
           THEN Finish(FALSE)
           ELSE Goto("capture")
    /\ UNCHANGED <<disk, host, processes, manager>>

\* The snapshot of the host as it is now adds to the claim only while no
\* active snapshot was recorded.  Then quarantineInvalidPrimary, if needed.
CaptureStale ==
    /\ pc = "capture"
    /\ LET j == call.journal
           claimed == IF j.observed THEN j.owned
                      ELSE Merge(j.owned, Delta(j.before, rules))
           stale == [j EXCEPT !.owned = claimed, !.phase = "recovering"]
       IN  IF call.fromBackup
           THEN pc' = "quarantine" /\ call' = [call EXCEPT !.journal = stale]
           ELSE WriteJournal(stale, "mutate")
    /\ UNCHANGED <<disk, host, processes, manager>>

QuarantinePrimary ==
    /\ pc = "quarantine"
    /\ primary' = Absent
    /\ pc' = "backup"
    /\ call' = [call EXCEPT !.fromBackup = FALSE, !.next = "mutate"]
    /\ UNCHANGED <<previousGood, lastClean, host, processes, manager>>

-----------------------------------------------------------------------------
(* writeTunnelJournal = atomicfile.Write: the current value is copied to   *)
(* previous-good, then the target is replaced; each is atomic and durable. *)

BackUpPrimary ==
    /\ pc = "backup"
    /\ previousGood' = IF primary = Absent THEN previousGood ELSE primary
    /\ Goto("replace")
    /\ UNCHANGED <<primary, lastClean, host, processes, manager>>

\* What follows a successful write.
AfterWrite ==
    CASE call.next = "done"   -> Finish(TRUE)
      [] call.next = "fail"   -> Finish(FALSE)
      [] call.next = "spawn"  -> Goto("spawn")
      [] call.next = "mutate" ->
            /\ pc' = "removeTun"
            /\ call' = [call EXCEPT !.todo = call.journal.owned]

ReplacePrimary ==
    /\ pc = "replace"
    /\ primary' = call.journal
    /\ AfterWrite
    /\ UNCHANGED <<previousGood, lastClean, host, processes, manager>>

\* Mutant: a failed activation write is reported as success.
BugWriteErrorIgnored ==
    /\ "io" \in Faults
    /\ pc \in {"backup", "replace"}
    /\ Finish(call.next = "done")
    /\ UNCHANGED <<disk, host, processes, manager>>

\* A failed activation write rolls the start back; any other returns an error.
\* The file is replaced all the same when only the directory cannot be synced.
WriteFails ==
    /\ "io" \in Faults
    /\ \/ /\ pc = "backup"
          /\ previousGood' \in {previousGood, IF primary = Absent THEN previousGood ELSE primary}
          /\ UNCHANGED primary
       \/ /\ pc = "replace"
          /\ primary' \in {primary, call.journal}
          /\ UNCHANGED previousGood
    /\ IF call.next = "done" THEN Rollback ELSE Finish(FALSE)
    /\ UNCHANGED <<lastClean, host, processes, manager>>

-----------------------------------------------------------------------------
(* recoverPlatformOwnedNetworkState: the TUN first, then every claimed     *)
(* entry.  ip(8) may fail, or print nothing and leave the entry in place,  *)
(* which deleteRulePriority takes for "not present".                       *)

RemoveTun ==
    /\ pc = "removeTun"
    /\ tun' = FALSE
    /\ Goto("mutate")
    /\ UNCHANGED <<disk, rules, processes, manager>>

RemoveEntry(e) ==
    /\ pc = "mutate"
    /\ e \in call.todo
    /\ rules' \in {rules \ {e}} \cup IF "eperm" \in Faults THEN {rules} ELSE {}
    /\ call' = [call EXCEPT !.todo = @ \ {e}]
    /\ UNCHANGED <<disk, tun, processes, manager, pc>>

RemovalDone ==
    /\ pc = "mutate" /\ call.todo = {}
    /\ Goto("verify")
    /\ UNCHANGED <<disk, host, processes, manager>>

RemovalDenied ==
    /\ "eperm" \in Faults
    /\ \/ pc = "removeTun" /\ tun
       \/ pc = "mutate" /\ call.todo \cap rules # {}
    /\ pc' = "escalate"
    /\ call' = [call EXCEPT !.todo = {}]
    /\ UNCHANGED <<disk, host, processes, manager>>

\* tryPrivilegedNetworkRecovery: the root helper reads the journal file again
\* and refuses unless it is a recovering journal of a dead PID that claims
\* the reserved namespace and nothing else.
PrivilegedAccepts ==
    /\ IsJournal(primary)
    /\ primary.phase = "recovering"
    /\ primary.pid # NoPid => ~Alive(primary.pid)
    /\ OwnsExactlyReserved(primary)

\* It then runs the same removals, with its own error if they are denied.
PrivilegedRecovery ==
    /\ pc = "escalate"
    /\ ~call.asRoot /\ PrivilegedAccepts
    /\ pc' = "removeTun"
    /\ call' = [call EXCEPT !.asRoot = TRUE, !.todo = Reserved]
    /\ UNCHANGED <<disk, host, processes, manager>>

\* Not a permission error, authorization declined, or the helper refuses: the
\* error is noted in the journal and returned.
RecoveryFails ==
    /\ pc = "escalate"
    /\ WriteJournal(call.journal, "fail")
    /\ UNCHANGED <<disk, host, processes, manager>>

\* Mutant: the snapshot after recovery is not compared with the claim.
BugVerifyNothing ==
    /\ pc = "verify"
    /\ IF tun THEN Finish(FALSE)
       ELSE /\ pc' = "saveClean"
            /\ call' = [call EXCEPT !.journal.phase = "clean",
                                    !.journal.pid = NoPid, !.journal.ident = 0]
    /\ UNCHANGED <<disk, host, processes, manager>>

\* verifyOwnedDeltaAbsent notes its error in the journal; a TUN that is still
\* there is only returned.
VerifyRecovery ==
    /\ pc = "verify"
    /\ IF call.journal.owned \cap rules # {} THEN WriteJournal(call.journal, "fail")
       ELSE IF tun THEN Finish(FALSE)
       ELSE /\ pc' = "saveClean"
            /\ call' = [call EXCEPT !.journal.phase = "clean",
                                    !.journal.pid = NoPid, !.journal.ident = 0]
    /\ UNCHANGED <<disk, host, processes, manager>>

-----------------------------------------------------------------------------
(* persistCleanJournal: record the operation as clean, then drop its       *)
(* journal and its backup.                                                 *)

\* Mutant: the file on disk is kept as last-clean, not the journal in memory.
BugSaveWhatIsOnDisk ==
    /\ pc = "saveClean"
    /\ lastClean' = primary
    /\ Goto("dropPrimary")
    /\ UNCHANGED <<primary, previousGood, host, processes, manager>>

SaveLastClean ==
    /\ pc = "saveClean"
    /\ lastClean' = call.journal
    /\ Goto("dropPrimary")
    /\ UNCHANGED <<primary, previousGood, host, processes, manager>>

DropPrimary ==
    /\ pc = "dropPrimary"
    /\ primary' = Absent
    /\ Goto("dropBackup")
    /\ UNCHANGED <<previousGood, lastClean, host, processes, manager>>

DropPreviousGood ==
    /\ pc = "dropBackup"
    /\ previousGood' = Absent
    /\ Return(TRUE)
    /\ UNCHANGED <<primary, lastClean, host, processes, manager>>

\* A snapshot, a rename, a removal or the write of last-clean (before or after
\* its rename) fails: the error is returned as it is.
StepFails ==
    /\ "io" \in Faults
    /\ pc \in {"capture", "quarantine", "verify", "saveClean", "dropPrimary",
               "dropBackup", "begin", "clearBackup"}
    /\ lastClean' \in {lastClean} \cup IF pc = "saveClean" THEN {call.journal} ELSE {}
    /\ Finish(FALSE)
    /\ UNCHANGED <<primary, previousGood, host, processes, manager>>

-----------------------------------------------------------------------------
(* beginTunnelTransaction after the recovery, then the launch.             *)

\* The namespace must still be free.
CheckHost ==
    /\ pc = "begin"
    /\ IF ~NamespaceFree THEN Finish(FALSE)
       ELSE /\ pc' = "clearBackup"
            /\ call' = [call EXCEPT !.journal = Prepared(ops + 1, rules)]
    /\ UNCHANGED <<disk, host, processes, manager>>

\* Mutant: the older operation's backup stays.
BugKeepPreviousGood ==
    /\ pc = "clearBackup"
    /\ ops' = ops + 1
    /\ WriteJournal(call.journal, "spawn")
    /\ UNCHANGED <<disk, host, processes, cmd, mode>>

\* Remove an older operation's backup, then write the prepared journal.
ClearPreviousGood ==
    /\ pc = "clearBackup"
    /\ previousGood' = Absent
    /\ ops' = ops + 1
    /\ WriteJournal(call.journal, "spawn")
    /\ UNCHANGED <<primary, lastClean, host, processes, cmd, mode>>

Start(p, kind, op) ==
    /\ ~Alive(p) /\ p # cmd /\ born < MaxBorn
    /\ born' = born + 1
    /\ proc' = [proc EXCEPT ![p] = [kind |-> kind, born |-> born + 1, op |-> op]]

\* startLocked in tunnel mode.
SpawnHelper(p) ==
    /\ pc = "spawn" /\ ~ManagedRunning
    /\ Start(p, "helper", call.journal.op)
    /\ cmd' = p /\ mode' = "agent-tunnel"
    /\ pc' = "ready"
    /\ call' = [NoCall EXCEPT !.op = "start"]
    /\ UNCHANGED <<disk, host, ops>>

\* A managed process appeared meanwhile, the configuration could not be
\* written or checked, or the process did not start.
SpawnFails ==
    /\ pc = "spawn"
    /\ pc' = "abort"
    /\ call' = [NoCall EXCEPT !.op = "start", !.failing = TRUE]
    /\ UNCHANGED <<disk, host, processes, manager>>

\* abortPreparedTunnelTransaction: nothing to do unless a prepared journal can
\* be loaded and no managed process runs.
AbortPrepared ==
    /\ pc = "abort"
    /\ IF IsJournal(Loaded) /\ Loaded.phase = "prepared" /\ ~ManagedRunning
       THEN /\ pc' = "saveClean"
            /\ call' = [call EXCEPT !.journal = [Loaded EXCEPT !.phase = "aborted-before-network-apply"],
                                    !.ret = "abort"]
       ELSE Finish(FALSE)
    /\ UNCHANGED <<disk, host, processes, manager>>

\* waitAgentTunnelReady: the managed process runs, owns the listener (left to
\* the environment) and the TUN is up.
HelperReady ==
    /\ pc = "ready" /\ ManagedRunning /\ tun
    /\ Goto("mark")
    /\ UNCHANGED <<disk, host, processes, manager>>

\* The process exited, the wait timed out or was cancelled.
HelperNotReady ==
    /\ pc = "ready"
    /\ Rollback
    /\ UNCHANGED <<disk, host, processes, manager>>

\* Mutant: the managed PID is not recorded.
BugActivatedWithoutPid(j) ==
    [j EXCEPT !.phase = "active", !.observed = TRUE,
              !.owned = Merge(@, Delta(j.before, rules))]

\* markTunnelActive.  ManagedPID is 0 when the waiter has already cleared it.
Activated(j) ==
    [j EXCEPT !.phase = "active", !.pid = cmd,
              !.ident = IF ManagedRunning THEN proc[cmd].born ELSE 0,
              !.observed = TRUE, !.owned = Merge(@, Delta(j.before, rules))]

MarkTunnelActive ==
    /\ pc = "mark"
    /\ IF IsJournal(Loaded) THEN WriteJournal(Activated(Loaded), "done") ELSE Rollback
    /\ UNCHANGED <<disk, host, processes, manager>>

\* The snapshot fails, or the process is gone before its identity is read.
MarkFails ==
    /\ pc = "mark"
    /\ "io" \in Faults \/ (ManagedRunning /\ ~Alive(cmd))
    /\ Rollback
    /\ UNCHANGED <<disk, host, processes, manager>>

-----------------------------------------------------------------------------
(* StopAndWait.                                                            *)

\* Mutant: only the mode in memory decides whether there is state to recover.
BugStopTrustsMode ==
    /\ pc = "stop"
    /\ pc' = "signal"
    /\ call' = [call EXCEPT !.hadTunnel = (mode = "agent-tunnel"),
                            !.target = IF ManagedRunning THEN proc[cmd].born ELSE 0]
    /\ UNCHANGED <<disk, host, processes, manager>>

\* hadTunnelState, and Stop's copy of m.cmd.
BeginStop ==
    /\ pc = "stop"
    /\ pc' = "signal"
    /\ call' = [call EXCEPT !.hadTunnel = (mode = "agent-tunnel" \/ JournalOpen),
                            !.target = IF ManagedRunning THEN proc[cmd].born ELSE 0]
    /\ UNCHANGED <<disk, host, processes, manager>>

\* SIGTERM.  A process that has been waited for is an error (ErrProcessDone).
StillManaged(b) == ManagedRunning /\ proc[cmd].born = b

SignalHelper ==
    /\ pc = "signal"
    /\ call.target # 0 => StillManaged(call.target)
    /\ pc' = "await"
    /\ call' = [call EXCEPT !.target = 0]
    /\ UNCHANGED <<disk, host, processes, manager>>

SignalTooLate ==
    /\ pc = "signal"
    /\ call.target # 0
    /\ StillManaged(call.target) => ~Alive(cmd)
    /\ Finish(FALSE)
    /\ UNCHANGED <<disk, host, processes, manager>>

HelperGone ==
    /\ pc \in {"await", "killed"}
    /\ ~ManagedRunning
    /\ IF call.hadTunnel THEN Goto("finish") ELSE Finish(TRUE)
    /\ UNCHANGED <<disk, host, processes, manager>>

\* The caller's deadline: kill, and wait a little longer.
StopTimesOut ==
    /\ pc = "await" /\ ManagedRunning
    /\ pc' = "killed"
    /\ call' = [call EXCEPT !.failing = TRUE]
    /\ UNCHANGED <<disk, host, processes, manager>>


KillTimesOut ==
    /\ pc = "killed" /\ ManagedRunning
    /\ Finish(FALSE)
    /\ UNCHANGED <<disk, host, processes, manager>>

\* finishTunnelTransaction.
FinishTransaction ==
    /\ pc = "finish"
    /\ IF Loaded = Absent THEN Finish(TRUE)
       ELSE IF Loaded = Corrupt \/ ManagedRunning THEN Finish(FALSE)
       ELSE pc' = "load" /\ call' = [call EXCEPT !.ret = "finish"]
    /\ UNCHANGED <<disk, host, processes, manager>>

-----------------------------------------------------------------------------
(* What happens around the operation.                                      *)

\* Manager.Start: a SAFE proxy process, started under m.mu.
StartProxy(p) ==
    /\ "proxy" \in Faults
    /\ pc # "down" /\ ~ManagedRunning
    /\ Start(p, "proxy", 0)
    /\ cmd' = p /\ mode' = "proxy"
    /\ UNCHANGED <<disk, host, ops, pc, call>>

\* startLocked's goroutine: Wait returned.
WaiterClears ==
    /\ ManagedRunning /\ ~Alive(cmd)
    /\ cmd' = NoPid /\ mode' = "off"
    /\ UNCHANGED <<disk, host, processes, ops, pc, call>>

\* sing-box applies its tunnel, one change at a time.
HelperApplies(p) ==
    /\ proc[p].kind = "helper"
    /\ \/ tun' = TRUE /\ UNCHANGED rules
       \/ \E e \in Reserved : rules' = rules \cup {e} /\ UNCHANGED tun
    /\ UNCHANGED <<disk, processes, manager, pc, call>>

\* A process ends; a helper may leave any part of its tunnel behind.
ProcessExits(p) ==
    /\ Alive(p)
    /\ proc' = [proc EXCEPT ![p].kind = "none"]
    /\ IF proc[p].kind = "helper"
       THEN /\ tun' \in {tun, FALSE}
            /\ \E gone \in SUBSET Reserved : rules' = rules \ gone
       ELSE UNCHANGED host
    /\ UNCHANGED <<disk, born, manager, pc, call>>

\* An unrelated process gets a PID that was free.
PidReused(p) ==
    /\ "reuse" \in Faults
    /\ Start(p, "other", 0)
    /\ UNCHANGED <<disk, host, manager, pc, call>>

\* Another network manager installs or removes an entry of its own.
ForeignChange(e) ==
    /\ "foreign" \in Faults
    /\ rules' \in {rules \cup {e}, rules \ {e}}
    /\ UNCHANGED <<disk, tun, processes, manager, pc, call>>

\* The primary journal file is damaged.
CorruptPrimary ==
    /\ "corruption" \in Faults
    /\ IsJournal(primary)
    /\ primary' = Corrupt
    /\ UNCHANGED <<previousGood, lastClean, host, processes, manager, pc, call>>

\* Whom the death of the control plane may leave alive: Pdeathsig takes its
\* managed process with it, but not at once, and not at all when sing-box
\* carries file capabilities.  A helper is an "orphan" once its active journal is
\* on disk, and "stranded" until then.
Outlives ==
    \/ "stranded" \in Faults
    \/ "orphan" \in Faults /\ (proc[cmd].kind = "helper"
                                 => IsJournal(Loaded) /\ RecordsLive(Loaded) /\ Loaded.pid = cmd)

\* The control plane dies.
Crash ==
    /\ "crash" \in Faults
    /\ pc # "down"
    /\ pc' = "down" /\ call' = NoCall
    /\ cmd' = NoPid /\ mode' = "off"
    /\ IF ManagedRunning /\ ~Outlives
       THEN /\ proc' = [proc EXCEPT ![cmd].kind = "none"]
            /\ IF proc[cmd].kind = "helper"
               THEN /\ tun' \in {tun, FALSE}
                    /\ \E gone \in SUBSET Reserved : rules' = rules \ gone
               ELSE UNCHANGED host
       ELSE UNCHANGED <<proc, host>>
    /\ UNCHANGED <<disk, born, ops>>

Restart ==
    /\ pc = "down"
    /\ pc' = "idle"
    /\ UNCHANGED <<disk, host, processes, manager, call>>

-----------------------------------------------------------------------------
Recovery ==
    \/ LoadJournal \/ CompareIdentity \/ CaptureStale \/ QuarantinePrimary
    \/ BackUpPrimary \/ ReplacePrimary \/ WriteFails
    \/ RemoveTun \/ (\E e \in Entries : RemoveEntry(e)) \/ RemovalDone \/ RemovalDenied
    \/ PrivilegedRecovery \/ RecoveryFails \/ VerifyRecovery
    \/ SaveLastClean \/ DropPrimary \/ DropPreviousGood \/ StepFails

Launch ==
    \/ AgentTunnelPreflight \/ CheckHost \/ ClearPreviousGood
    \/ (\E p \in Pids : SpawnHelper(p)) \/ SpawnFails \/ AbortPrepared
    \/ HelperReady \/ HelperNotReady \/ MarkTunnelActive \/ MarkFails

Shutdown ==
    \/ BeginStop \/ SignalHelper \/ SignalTooLate \/ HelperGone
    \/ StopTimesOut \/ KillTimesOut \/ FinishTransaction

Operation == Recovery \/ Launch \/ Shutdown

Environment ==
    \/ WaiterClears \/ CorruptPrimary \/ Crash \/ Restart
    \/ \E p \in Pids : \/ StartProxy(p) \/ HelperApplies(p)
                       \/ ProcessExits(p) \/ PidReused(p)
    \/ \E e \in Foreign : ForeignChange(e)

Next ==
    \/ StartAgentTunnel \/ StopAndWait \/ RecoverStaleNetworkState
    \/ Operation
    \/ Environment

Spec == Init /\ [][Next]_vars
FairSpec == Spec /\ WF_vars(Operation)
-----------------------------------------------------------------------------
(* Properties.                                                             *)

OwnedDirty == tun \/ rules \cap Reserved # {}
HelperRuns == \E p \in Pids : proc[p].kind = "helper"

\* The steps in which recovery changes the host network.
Mutation ==
    \/ pc = "removeTun" /\ pc' = "mutate"
    \/ pc = "mutate" /\ pc' = "mutate" /\ call'.todo # call.todo

\* Host state of the tunnel and a running helper are covered by a journal that
\* can be loaded, belongs to the helper's transaction and claims the whole
\* reserved namespace: recovery can find everything (network_state.go: "the
\* journal therefore already knows what may be cleaned even if the process dies
\* before active evidence is persisted").  Any step may fail and the control
\* plane may die at any point; a helper may outlive it once its active journal is
\* on disk, not before.
OwnedStateIsJournaled ==
    OwnedDirty \/ HelperRuns =>
        /\ IsJournal(Loaded)
        /\ Reserved \subseteq Loaded.owned
        /\ \A p \in Pids : proc[p].kind = "helper" => proc[p].op = Loaded.op

\* A damaged primary never makes an older transaction's journal loadable, and
\* no journal survives into the next transaction (beginTunnelTransaction: "A
\* previous operation's backup must never become a candidate").
LoadableJournalIsLatest ==
    /\ IsJournal(Loaded) => Loaded.op = ops
    /\ IsJournal(primary) /\ IsJournal(previousGood) => previousGood.op = primary.op

\* Once last-clean records the latest transaction, nothing of it is left on
\* the host and no helper of it runs, although the record is written before
\* the open journal is dropped (persistCleanJournal).
FinalizedLeavesNothing ==
    FinalizedIn(lastClean, [op |-> ops]) => ~OwnedDirty /\ ~HelperRuns

\* While the namespace holds state, the transaction stays visibly open; the
\* repair of a damaged primary is the only moment when it is not on disk.
OwnedStateStaysOpen ==
    OwnedDirty => JournalOpen \/ pc \in {"backup", "replace"}

\* StopAndWait reports success only with the journal closed, the reserved
\* namespace empty and no helper left.
StopReleases ==
    [][call.op = "stop" /\ pc # "ok" /\ pc' = "ok"
        => ~JournalOpen' /\ ~OwnedDirty' /\ ~HelperRuns']_vars

\* A start that succeeds leaves the durable active journal of its transaction,
\* and the helper, as long as it runs, is the process that journal names, so
\* that no later recovery takes it for dead: writes may fail, the process may
\* exit and its PID be another's by then (markTunnelActive).
StartLeavesActive ==
    [][call.op = "start" /\ pc # "ok" /\ pc' = "ok"
        => /\ IsJournal(primary')
           /\ primary'.phase = "active" /\ primary'.op = ops
           /\ \A p \in Pids :
                proc'[p].kind = "helper" => primary'.pid = p /\ primary'.ident = proc'[p].born]_vars

\* Recovery never removes an entry that was on the host before the
\* transaction began, however often it is repeated.
PreexistingEntriesSurvive ==
    [][Mutation => (rules \ rules') \cap call.journal.before = {}]_vars

\* Recovery does not touch the network while the process its journal records
\* is alive ("live previous helper PIDs always fail closed").
NoMutationUnderRecordedHelper ==
    [][Mutation => ~RecordsLive(call.journal)]_vars

\* Recovery refuses only for a journal that cannot be read, for a helper that
\* still runs, or for a recorded PID that was in use at the first reading and
\* free at the second.  A PID that verifiably belongs to another process does
\* not block it (the PID is compared with the start time recorded beside it).
RefusalIsCautious ==
    [][pc' = "err" /\ pc \in {"load", "identity"}
        => \/ Loaded = Corrupt
           \/ HelperRuns
           \/ pc = "identity" /\ ~Alive(call.journal.pid)]_vars


\* The transaction implements the lease: its open journal is the lease.
Lease == INSTANCE NetworkLease WITH
    lease <- IF IsJournal(Loaded) THEN Loaded.op ELSE 0,
    latest <- IF IsJournal(Loaded) THEN Loaded.op
              ELSE IF IsJournal(lastClean) THEN lastClean.op ELSE 0,
    inUse <- OwnedDirty \/ HelperRuns
ImplementsLease == Lease!Spec
=============================================================================

--------------------------- MODULE ControlPlane ---------------------------
(***************************************************************************)
(* The local control plane (internal/app) around the SAFE proxy: the HTTP  *)
(* handlers that start, stop and reconfigure it, the boot-time auto-start, *)
(* the settings in memory and on disk, and the managed sing-box with its   *)
(* listener (internal/proxy, Manager in proxy mode).                       *)
(*                                                                         *)
(* Handlers are goroutines: they interleave at every step, and only        *)
(* lifecycleMu keeps some of them apart.  start, safe, tunnel/start and    *)
(* tunnel/launch run the same startSafeProxy and setProxyAutoStart(true);  *)
(* safe and tunnel/launch then launch Antigravity as launch does.          *)
(* Listen address, open-on-start and the tunnel options are left out: no   *)
(* step tells them apart.                                                  *)
(***************************************************************************)
EXTENDS Naturals, FiniteSets

CONSTANTS
    Requests,       \* goroutines that serve HTTP requests
    Boot,           \* autoStartProxy's goroutine
    Free,           \* nobody holds lifecycleMu
    Configs,        \* data-plane configurations (host, port, VPN, DNS, version)
    LoadsAs,        \* what New makes of a saved configuration
    Nil,            \* an unset local variable
    Faults,         \* which hostile events the environment may produce
    MaxServed,      \* bound: requests accepted in a behaviour
    MaxStarted      \* bound: sing-box processes started in a behaviour

ASSUME ControlPlaneAssumption ==
    /\ Boot \notin Requests /\ Free \notin Requests \cup {Boot}
    /\ Configs # {}
    /\ LoadsAs \in [Configs -> SUBSET Configs]
    /\ Faults \subseteq {"crash", "orphan", "io", "sync", "foreign"}
    /\ MaxServed \in Nat /\ MaxStarted \in Nat

VARIABLES
    up,             \* does the control plane run
    settings,       \* Server.settings
    file,           \* config.json
    cfg,            \* Manager.cfg
    child,          \* the managed process: its state, configuration and number
    confirmed,      \* Manager.proxyReadinessConfirmed
    foreign,        \* configurations whose address a foreign process listens on
    journalOpen,    \* is a network transaction left open by an earlier run
    lifecycleMu,    \* who holds it
    req,            \* what each goroutine is doing
    served,         \* requests accepted
    evidence,       \* history: the process that the confirming poll saw managed
    last            \* history: the start or stop that last succeeded under the lock

plane == <<settings, file, cfg>>
manager == <<child, confirmed, evidence>>
outside == <<up, foreign, served>>
vars == <<plane, manager, outside, journalOpen, lifecycleMu, req, last>>

Threads == Requests \cup {Boot}
Attempts == 3       \* len(backoff)

Settings == [cfg : Configs, auto : BOOLEAN]

\* "exited": the process is gone, Wait's goroutine has not cleared m.cmd yet.
Child == [st : {"none", "starting", "listening", "exited"}, cfg : Configs, n : Nat]

Steps == {"lock", "check", "install", "spawn", "poll", "dial", "mark", "enable", "save",
          "stop", "signal", "await", "kill", "finish", "disable",
          "decode", "read", "update", "persist", "commit",
          "reachable", "confirmed", "http", "launch"}

\* A goroutine's local variables: handleConfig's old and cur (cur is also
\* setProxyAutoStart's), StopAndWait's hadTunnelState, whether it found a
\* process to signal, whether it reports an error whatever happens, what
\* follows it, the attempts autoStartProxy has left, and the address a launch has
\* read.  saw is history: the process that a poll found managed, or in which a
\* launch found the healthy proxy.
Request == [op : {"none", "start", "stop", "config", "close", "boot", "launch"},
            pc : Steps \cup {"idle"},
            old : Settings \cup {Nil}, cur : Settings \cup {Nil},
            hadTunnel : BOOLEAN, target : BOOLEAN, failing : BOOLEAN,
            then : {"none", "install", "rollback", "disable", "exit"},
            left : 0..Attempts, http : Configs \cup {Nil}, saw : Nat]

NoRequest == [op |-> "none", pc |-> "idle", old |-> Nil, cur |-> Nil,
              hadTunnel |-> FALSE, target |-> FALSE, failing |-> FALSE,
              then |-> "none", left |-> 0, http |-> Nil, saw |-> 0]

Enter(op) == [NoRequest EXCEPT !.op = op, !.pc = "lock"]
Launch(step, n) == [NoRequest EXCEPT !.op = "launch", !.pc = step, !.saw = n]

\* Serve: the auto-start goroutine exists only when the setting asks for it.
AutoStart(auto) == IF auto THEN [Enter("boot") EXCEPT !.left = Attempts] ELSE NoRequest

TypeOK ==
    /\ up \in BOOLEAN /\ settings \in Settings /\ file \in Settings /\ cfg \in Configs
    /\ child \in Child /\ confirmed \in BOOLEAN /\ evidence \in Nat
    /\ foreign \subseteq Configs /\ journalOpen \in BOOLEAN
    /\ lifecycleMu \in Threads \cup {Free}
    /\ req \in [Threads -> Request] /\ served \in Nat
    /\ last \in {"none", "start", "stop"}

\* New, then Serve.
Init ==
    /\ up = TRUE
    /\ settings \in Settings /\ file = settings /\ cfg = settings.cfg
    /\ child = [st |-> "none", cfg |-> cfg, n |-> 0]
    /\ confirmed = FALSE /\ evidence = 0
    /\ foreign = {} /\ journalOpen \in BOOLEAN
    /\ lifecycleMu = Free
    /\ req = [t \in Threads |-> IF t = Boot THEN AutoStart(settings.auto) ELSE NoRequest]
    /\ served = 0 /\ last = "none"

-----------------------------------------------------------------------------
(* Evidence about the data plane, each read under m.mu or from the kernel. *)

ManagedRunning == child.st # "none"

\* Running(): something accepts connections at the configured address.
Running ==
    \/ cfg \in foreign
    \/ child.st = "listening" /\ child.cfg = cfg

\* Health(), in proxy mode.
Healthy == ManagedRunning /\ Running /\ confirmed /\ ~journalOpen

-----------------------------------------------------------------------------
(* How a goroutine moves.                                                  *)

At(t, step) == up /\ req[t].pc = step
Goto(t, step) == req' = [req EXCEPT ![t].pc = step]

\* The handler returns, releasing lifecycleMu if it holds it (defer Unlock).
Return(t) ==
    /\ req' = [req EXCEPT ![t] = NoRequest]
    /\ lifecycleMu' = IF lifecycleMu = t THEN Free ELSE lifecycleMu

\* startSafeProxy returns: a handler goes on with setProxyAutoStart(true),
\* which is outside the lock; autoStartProxy tries again after an error.
StartReturns(t, ok) ==
    /\ lifecycleMu' = Free
    /\ req' = [req EXCEPT ![t] =
         IF t = Boot
         THEN IF ok \/ req[t].left <= 1 THEN NoRequest
              ELSE [Enter("boot") EXCEPT !.left = req[t].left - 1]
         ELSE IF ok THEN [Enter("start") EXCEPT !.pc = "enable", !.saw = child.n]
              ELSE NoRequest]

\* Enter StopAndWait, and say what follows it.
StopThen(t, next) ==
    req' = [req EXCEPT ![t].pc = "stop", ![t].then = next, ![t].failing = (next = "rollback")]

\* The control plane process ends.  Pdeathsig takes the managed process along,
\* unless "orphan": a listener that ignores the signal keeps its address.
Dies ==
    /\ up' = FALSE
    /\ req' = [t \in Threads |-> NoRequest] /\ lifecycleMu' = Free
    /\ child' = [child EXCEPT !.st = "none"] /\ confirmed' = FALSE
    /\ foreign' = IF "orphan" \in Faults /\ child.st = "listening"
                  THEN foreign \cup {child.cfg} ELSE foreign
    /\ last' = IF \E q \in Requests : req[q].pc # "idle" THEN "none" ELSE last

\* StopAndWait returns; Close is followed by the end of main.
StopReturns(t, ok) ==
    LET good == ok /\ ~req[t].failing IN
    IF req[t].then = "exit" THEN Dies
    ELSE /\ CASE good /\ req[t].then \in {"install", "disable"} ->
                   /\ Goto(t, req[t].then)
                   /\ UNCHANGED lifecycleMu
              [] ~good /\ req[t].op \in {"start", "boot"} -> StartReturns(t, FALSE)
              [] ~good /\ req[t].op = "stop" -> Return(t)
         /\ UNCHANGED <<up, child, confirmed, foreign, last>>

-----------------------------------------------------------------------------
(* The handlers are entered.                                               *)

Accept(q, entered) ==
    /\ up /\ req[q].pc = "idle"
    /\ \A r \in Requests : req[r].op # "close"        \* the listener is closed first
    /\ served < MaxServed
    /\ served' = served + 1
    /\ req' = [req EXCEPT ![q] = entered]
    /\ UNCHANGED <<plane, manager, up, foreign, journalOpen, lifecycleMu, last>>

handleStart(q) == Accept(q, Enter("start"))
handleStop(q) == Accept(q, Enter("stop"))
handleConfig(q) == Accept(q, Enter("config"))
Close(q) == Accept(q, Enter("close"))

\* No lock: the first readings of Health() are Mode(), the journal and
\* ManagedRunning().
handleLaunch(q) ==
    Accept(q, IF ManagedRunning /\ ~journalOpen THEN Launch("reachable", child.n) ELSE NoRequest)

LockLifecycle(t) ==
    /\ At(t, "lock")
    /\ lifecycleMu = Free
    /\ lifecycleMu' = t
    /\ CASE req[t].op \in {"start", "boot"} -> Goto(t, "check")
         [] req[t].op = "stop"   -> StopThen(t, "disable")
         [] req[t].op = "close"  -> StopThen(t, "exit")
         [] req[t].op = "config" -> Goto(t, "decode")
    /\ UNCHANGED <<plane, manager, outside, journalOpen, last>>

-----------------------------------------------------------------------------
(* startSafeProxy.                                                         *)

\* Mutant: a process that runs is taken for a healthy proxy.
BugCheckTrustsProcess(t) ==
    /\ At(t, "check")
    /\ IF ManagedRunning
       THEN StartReturns(t, TRUE) /\ last' = IF t = Boot THEN last ELSE "start"
       ELSE Goto(t, "install") /\ UNCHANGED <<lifecycleMu, last>>
    /\ UNCHANGED <<plane, manager, outside, journalOpen>>

\* Every reading that can disagree with one taken at the same time has the
\* process gone and its mode off, which the last reading, Mode(), would see.
CheckHealth(t) ==
    /\ At(t, "check")
    /\ CASE Healthy -> StartReturns(t, TRUE) /\ last' = IF t = Boot THEN last ELSE "start"
         [] ManagedRunning /\ ~Healthy -> StopThen(t, "install") /\ UNCHANGED <<lifecycleMu, last>>
         [] ~ManagedRunning -> Goto(t, "install") /\ UNCHANGED <<lifecycleMu, last>>
    /\ UNCHANGED <<plane, manager, outside, journalOpen>>

InstallVerified(t) ==
    /\ At(t, "install")
    /\ Goto(t, "spawn")
    /\ UNCHANGED <<plane, manager, outside, journalOpen, lifecycleMu, last>>

\* Mutant: the readiness of the previous process is kept.
BugStartKeepsReadiness(t) ==
    /\ At(t, "spawn") /\ ~ManagedRunning /\ child.n < MaxStarted
    /\ child' = [st |-> "starting", cfg |-> cfg, n |-> child.n + 1]
    /\ Goto(t, "poll")
    /\ UNCHANGED <<plane, confirmed, evidence, outside, journalOpen, lifecycleMu, last>>

\* Manager.Start: the configuration is written and loaded under m.mu.
StartManaged(t) ==
    /\ At(t, "spawn") /\ ~ManagedRunning /\ child.n < MaxStarted
    /\ child' = [st |-> "starting", cfg |-> cfg, n |-> child.n + 1]
    /\ confirmed' = FALSE
    /\ Goto(t, "poll")
    /\ UNCHANGED <<plane, evidence, outside, journalOpen, lifecycleMu, last>>

\* No verified binary, the configuration check or the start failed, or the
\* process exited before it was reachable.
StartFails(t) ==
    /\ At(t, "install") \/ At(t, "spawn") \/ (At(t, "poll") /\ ~ManagedRunning)
    /\ StartReturns(t, FALSE)
    /\ UNCHANGED <<plane, manager, outside, journalOpen, last>>

\* Each poll first asks for the managed process ...
PollManaged(t) ==
    /\ At(t, "poll") /\ ManagedRunning
    /\ req' = [req EXCEPT ![t].pc = "dial", ![t].saw = child.n]
    /\ UNCHANGED <<plane, manager, outside, journalOpen, lifecycleMu, last>>

\* ... and then dials the address: the process may be gone by now, and whoever
\* listens there answers.
PollReachable(t) ==
    /\ At(t, "dial") /\ Running
    /\ Goto(t, "mark")
    /\ UNCHANGED <<plane, manager, outside, journalOpen, lifecycleMu, last>>

PollAgain(t) ==
    /\ At(t, "dial") /\ ~Running
    /\ Goto(t, "poll")
    /\ UNCHANGED <<plane, manager, outside, journalOpen, lifecycleMu, last>>

\* The deadline or the request's context: rollbackProxyStart.
PollTimesOut(t) ==
    /\ At(t, "dial") /\ ~Running
    /\ StopThen(t, "rollback")
    /\ UNCHANGED <<plane, manager, outside, journalOpen, lifecycleMu, last>>

\* Whatever ManagedListenerOwned says of the listener, which is only published.
MarkProxyReadinessConfirmed(t) ==
    /\ At(t, "mark")
    /\ confirmed' = TRUE /\ evidence' = req[t].saw
    /\ StartReturns(t, TRUE)
    /\ last' = IF t = Boot THEN last ELSE "start"
    /\ UNCHANGED <<plane, child, outside, journalOpen>>

-----------------------------------------------------------------------------
(* setProxyAutoStart: memory under s.mu, then the file under no lock.      *)

SetAutoStart(t) ==
    LET cur == [settings EXCEPT !.auto = (req[t].op = "start")] IN
    /\ At(t, "enable") \/ At(t, "disable")
    /\ settings' = cur
    /\ req' = [req EXCEPT ![t].pc = "save", ![t].cur = cur]
    /\ last' = IF At(t, "disable") THEN "stop" ELSE last
    /\ UNCHANGED <<file, cfg, manager, outside, journalOpen, lifecycleMu>>

\* Mutant: only the start is written to the file.
BugSaveOnlyStart(t) ==
    /\ At(t, "save")
    /\ file' = IF req[t].op = "start" THEN req[t].cur ELSE file
    /\ Return(t)
    /\ UNCHANGED <<settings, cfg, manager, outside, journalOpen, last>>

\* safe and tunnel/launch go on to the launch.
ThenLaunch(t) ==
    /\ req[t].op = "start"
    /\ req' = [req EXCEPT ![t] = Launch("http", req[t].saw)]
    /\ UNCHANGED lifecycleMu

\* An error is only published; the handler reports success.
SaveAutoStart(t) ==
    /\ At(t, "save")
    /\ file' = req[t].cur \/ ("io" \in Faults /\ file' = file)
    /\ Return(t) \/ ThenLaunch(t)
    /\ UNCHANGED <<settings, cfg, manager, outside, journalOpen, last>>

-----------------------------------------------------------------------------
(* The launch of Antigravity: for handleLaunch the other readings of       *)
(* Health(), then the addresses; no lock is held over any two readings.    *)

LookReachable(t) ==
    /\ At(t, "reachable")
    /\ IF Running THEN Goto(t, "confirmed") ELSE req' = [req EXCEPT ![t] = NoRequest]
    /\ UNCHANGED <<plane, manager, outside, journalOpen, lifecycleMu, last>>

LookConfirmed(t) ==
    /\ At(t, "confirmed")
    /\ IF confirmed THEN Goto(t, "http") ELSE req' = [req EXCEPT ![t] = NoRequest]
    /\ UNCHANGED <<plane, manager, outside, journalOpen, lifecycleMu, last>>

HTTPProxyURL(t) ==
    /\ At(t, "http")
    /\ req' = [req EXCEPT ![t].pc = "launch", ![t].http = cfg]
    /\ UNCHANGED <<plane, manager, outside, journalOpen, lifecycleMu, last>>

\* SOCKSProxyAddr(), and Antigravity is started with both or fails to start.
LaunchWithProxy(t) ==
    /\ At(t, "launch")
    /\ req' = [req EXCEPT ![t] = NoRequest]
    /\ UNCHANGED <<plane, manager, outside, journalOpen, lifecycleMu, last>>

-----------------------------------------------------------------------------
(* handleConfig, after lifecycleMu.                                        *)

\* The body is read with the lock held and no deadline: it comes, or the client
\* gives up, or neither.
DecodeBody(t) ==
    /\ At(t, "decode")
    /\ (Goto(t, "read") /\ UNCHANGED lifecycleMu) \/ Return(t)
    /\ UNCHANGED <<plane, manager, outside, journalOpen, last>>

\* One field of the settings is patched; an invalid patch is rejected.
ReadSettings(t) ==
    /\ At(t, "read")
    /\ \/ \E cur \in {[settings EXCEPT !.cfg = c] : c \in Configs}
                     \cup {[settings EXCEPT !.auto = a] : a \in BOOLEAN} :
            /\ req' = [req EXCEPT ![t].old = settings, ![t].cur = cur,
                         ![t].pc = IF cur.cfg # settings.cfg THEN "update" ELSE "persist"]
            /\ UNCHANGED lifecycleMu
       \/ Return(t)
    /\ UNCHANGED <<plane, manager, outside, journalOpen, last>>

\* Mutant: the configuration changes under a running process.
BugUpdateRunning(t) ==
    /\ At(t, "update")
    /\ cfg' = req[t].cur.cfg /\ Goto(t, "persist") /\ UNCHANGED lifecycleMu
    /\ UNCHANGED <<settings, file, manager, outside, journalOpen, last>>


UpdateStoppedConfig(t) ==
    /\ At(t, "update")
    /\ IF ManagedRunning THEN Return(t) /\ UNCHANGED cfg
       ELSE cfg' = req[t].cur.cfg /\ Goto(t, "persist") /\ UNCHANGED lifecycleMu
    /\ UNCHANGED <<settings, file, manager, outside, journalOpen, last>>

\* Mutant: the settings the patch was applied to are saved.
BugPersistOld(t) ==
    /\ At(t, "persist")
    /\ file' = req[t].old
    /\ Goto(t, "commit")
    /\ UNCHANGED <<settings, cfg, manager, outside, journalOpen, lifecycleMu, last>>

PersistConfig(t) ==
    /\ At(t, "persist")
    /\ file' = req[t].cur
    /\ Goto(t, "commit")
    /\ UNCHANGED <<settings, cfg, manager, outside, journalOpen, lifecycleMu, last>>

\* Mutant: the manager keeps the configuration that could not be saved.
BugPersistFailsNoRollback(t) ==
    /\ At(t, "persist") /\ "io" \in Faults
    /\ Return(t)
    /\ UNCHANGED <<plane, manager, outside, journalOpen, last>>

\* Before the file is replaced or, when only the directory cannot be synced,
\* after.
PersistFails(t) ==
    /\ At(t, "persist")
    /\ \/ "io" \in Faults /\ file' = file
       \/ "sync" \in Faults /\ file' = req[t].cur
    /\ cfg' = IF ManagedRunning THEN cfg ELSE req[t].old.cfg
    /\ Return(t)
    /\ UNCHANGED <<settings, manager, outside, journalOpen, last>>

CommitConfig(t) ==
    /\ At(t, "commit")
    /\ settings' = req[t].cur
    /\ last' = IF req[t].cur.auto # req[t].old.auto THEN "none" ELSE last
    /\ Return(t)
    /\ UNCHANGED <<file, cfg, manager, outside, journalOpen>>

-----------------------------------------------------------------------------
(* StopAndWait, in proxy mode.                                             *)

\* Mutant: a transaction left open by an earlier run is not looked for.
BugStopIgnoresJournal(t) ==
    /\ At(t, "stop")
    /\ req' = [req EXCEPT ![t].pc = "signal", ![t].target = ManagedRunning]
    /\ UNCHANGED <<plane, manager, outside, journalOpen, lifecycleMu, last>>

BeginStop(t) ==
    /\ At(t, "stop")
    /\ req' = [req EXCEPT ![t].pc = "signal", ![t].hadTunnel = journalOpen,
                          ![t].target = ManagedRunning]
    /\ UNCHANGED <<plane, manager, outside, journalOpen, lifecycleMu, last>>

SignalProcess(t) ==
    /\ At(t, "signal")
    /\ req[t].target => ManagedRunning
    /\ Goto(t, "await")
    /\ UNCHANGED <<plane, manager, outside, journalOpen, lifecycleMu, last>>

\* The process has been waited for: Signal reports ErrProcessDone.
SignalTooLate(t) ==
    /\ At(t, "signal")
    /\ req[t].target /\ child.st \in {"exited", "none"}
    /\ StopReturns(t, FALSE)
    /\ UNCHANGED <<plane, evidence, served, journalOpen>>

ProcessGone(t) ==
    /\ At(t, "await") \/ At(t, "kill")
    /\ ~ManagedRunning
    /\ IF req[t].hadTunnel
       THEN Goto(t, "finish") /\ UNCHANGED <<child, confirmed, up, foreign, lifecycleMu, last>>
       ELSE StopReturns(t, TRUE)
    /\ UNCHANGED <<plane, evidence, served, journalOpen>>

\* The deadline passes: kill, and wait once more.
StopTimesOut(t) ==
    /\ At(t, "await") /\ ManagedRunning
    /\ req' = [req EXCEPT ![t].pc = "kill", ![t].failing = TRUE]
    /\ UNCHANGED <<plane, manager, outside, journalOpen, lifecycleMu, last>>

KillTimesOut(t) ==
    /\ At(t, "kill") /\ ManagedRunning
    /\ StopReturns(t, FALSE)
    /\ UNCHANGED <<plane, evidence, served, journalOpen>>

\* finishTunnelTransaction (TunnelTransaction has its steps): recovery closes
\* the journal or refuses.
FinishTransaction(t) ==
    /\ At(t, "finish")
    /\ \E ok \in BOOLEAN :
         /\ journalOpen' = ~ok
         /\ StopReturns(t, ok)
    /\ UNCHANGED <<plane, evidence, served>>

-----------------------------------------------------------------------------
(* What happens around the handlers.                                       *)

\* sing-box binds its listener, unless the address is taken.
ChildListens ==
    /\ child.st = "starting" /\ child.cfg \notin foreign
    /\ child' = [child EXCEPT !.st = "listening"]
    /\ UNCHANGED <<plane, confirmed, evidence, outside, journalOpen, lifecycleMu, req, last>>

ChildExits ==
    /\ child.st \in {"starting", "listening"}
    /\ child' = [child EXCEPT !.st = "exited"]
    /\ UNCHANGED <<plane, confirmed, evidence, outside, journalOpen, lifecycleMu, req, last>>

\* startLocked's goroutine: Wait returned.
WaiterClears ==
    /\ child.st = "exited"
    /\ child' = [child EXCEPT !.st = "none"]
    /\ UNCHANGED <<plane, confirmed, evidence, outside, journalOpen, lifecycleMu, req, last>>

\* Another process takes or leaves an address.
ForeignListener(c) ==
    /\ "foreign" \in Faults
    /\ ~(child.st = "listening" /\ child.cfg = c)
    /\ foreign' \in {foreign \cup {c}, foreign \ {c}}
    /\ UNCHANGED <<plane, manager, up, served, journalOpen, lifecycleMu, req, last>>

Crash ==
    /\ up /\ "crash" \in Faults
    /\ Dies
    /\ UNCHANGED <<plane, evidence, served, journalOpen>>

\* The next run reads its settings from the file: version 1.13.1 becomes the
\* default version, an empty VPN interface one that is found on the host.  New
\* writes the result back; if it cannot, there is no next run yet.
Restart ==
    /\ ~up
    /\ up' = TRUE
    /\ \E c \in LoadsAs[file.cfg] :
         /\ settings' = [file EXCEPT !.cfg = c]
         /\ file' = settings' /\ cfg' = c
    /\ req' = [req EXCEPT ![Boot] = AutoStart(file.auto)]
    /\ UNCHANGED <<manager, foreign, served, journalOpen, lifecycleMu, last>>

-----------------------------------------------------------------------------
Step(t) ==
    \/ LockLifecycle(t) \/ CheckHealth(t) \/ InstallVerified(t) \/ StartManaged(t)
    \/ StartFails(t) \/ PollManaged(t) \/ PollReachable(t) \/ PollAgain(t) \/ PollTimesOut(t)
    \/ MarkProxyReadinessConfirmed(t)
    \/ SetAutoStart(t) \/ SaveAutoStart(t)
    \/ ReadSettings(t) \/ UpdateStoppedConfig(t) \/ PersistConfig(t) \/ PersistFails(t)
    \/ CommitConfig(t)
    \/ BeginStop(t) \/ SignalProcess(t) \/ SignalTooLate(t) \/ ProcessGone(t)
    \/ StopTimesOut(t) \/ KillTimesOut(t) \/ FinishTransaction(t)
    \/ LookReachable(t) \/ LookConfirmed(t)
    \/ HTTPProxyURL(t) \/ LaunchWithProxy(t)

Next ==
    \/ \E q \in Requests : handleStart(q) \/ handleStop(q) \/ handleConfig(q) \/ Close(q)
                           \/ handleLaunch(q) \/ DecodeBody(q)
    \/ \E t \in Threads : Step(t)
    \/ ChildListens \/ ChildExits \/ WaiterClears
    \/ \E c \in Configs : ForeignListener(c)
    \/ Crash \/ Restart

Spec == Init /\ [][Next]_vars

\* Goroutines are scheduled, and the deadline of a loop of polls is noticed; a
\* client need not send the body it announced.
Fairness == \A t \in Threads : WF_vars(Step(t)) /\ SF_vars(PollTimesOut(t))
FairSpec == Spec /\ Fairness
-----------------------------------------------------------------------------
(* Properties.                                                             *)

Quiet == up /\ \A q \in Requests : req[q].pc = "idle"

\* The process runs with the configuration the manager reports
\* (UpdateStoppedConfig: "Mutating Manager.cfg while sing-box is already
\* running would make status/config diverge from the actual loaded config").
RunningMatchesConfig == ManagedRunning => child.cfg = cfg

\* A configuration transaction changes the manager and the settings together
\* or neither: between lifecycle operations they agree, although saving may
\* fail after the manager was changed (handleConfig).
SettingsMatchManager == up /\ lifecycleMu = Free => settings.cfg = cfg

\* Readiness that was confirmed is that of the process that runs now, not of
\* one that exited in the meantime (startLocked resets it, startSafeProxy
\* confirms it after its polls).
ConfirmationIsCurrent == confirmed /\ ManagedRunning => evidence = child.n

\* A start is reported as successful only when a poll, its own or an earlier
\* start's, had found the process that is now the last one started to be the
\* managed one before the address answered: not one that ran before, or that
\* survived a failed stop (startSafeProxy).  It says no more: the process may
\* have exited after that, and the answer may be another listener's.
StartProvesThisProcess ==
    [][\A t \in Requests :
         req[t].pc # "enable" /\ req'[t].pc = "enable" => confirmed' /\ evidence' = child'.n]_vars

\* A stop goes on to switch auto-start off only with the process gone and no
\* transaction of an earlier run left open (StopAndWait).
StopReleasesEverything ==
    [][\A t \in Requests :
         req'[t].pc = "disable" /\ req[t].pc # "disable" => ~ManagedRunning' /\ ~journalOpen']_vars

\* Antigravity is given two addresses of one configuration, that of the process
\* in which its handler found or started the proxy, unless that process ended
\* in the meantime: handler and readings hold no lock (handleLaunch,
\* handleSafeMode, handleTunnelLaunch).
LaunchedThroughCheckedProxy ==
    [][\A t \in Requests :
         /\ req[t].pc = "launch" /\ req'[t].pc = "idle" /\ up'
         /\ ManagedRunning /\ child.n = req[t].saw
         => req[t].http = child.cfg /\ cfg = child.cfg]_vars


\* When nothing is in progress, the auto-start flag, in memory and on disk, is
\* what the last start or stop made it (setProxyAutoStart).
AutoStartFollowsLastOperation ==
    Quiet /\ last # "none" => settings.auto = (last = "start") /\ file.auto = settings.auto

\* When nothing is in progress, the file holds the configuration that is
\* committed in memory, which after a restart is what New made of the file
\* ("configuration transaction committed", "persist normalized settings").
FileHoldsCommittedConfig == Quiet => file.cfg = settings.cfg
=============================================================================

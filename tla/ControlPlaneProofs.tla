------------------------- MODULE ControlPlaneProofs -------------------------
(***************************************************************************)
(* ControlPlane, proved for every set of goroutines and configurations and *)
(* every combination of faults: what lifecycleMu protects, and what the    *)
(* launches, which run outside it, may rely on.  The last part is about a  *)
(* user who sends one request at a time: then the file and the auto-start  *)
(* flag follow what was asked for.                                         *)
(***************************************************************************)
EXTENDS ControlPlane, TLAPS

-----------------------------------------------------------------------------
(* The invariant.                                                          *)

StopSteps == {"stop", "signal", "await", "kill", "finish"}
StartSteps == {"check", "install", "spawn", "poll", "dial", "mark"}

\* Between lifecycleMu.Lock and its Unlock: setProxyAutoStart(true) comes after
\* it, setProxyAutoStart(false) before.
Inside(r) ==
    \/ r.pc \in StopSteps \cup StartSteps
                 \cup {"disable", "decode", "read", "update", "persist", "commit"}
    \/ r.pc = "save" /\ r.op = "stop"

\* Which handlers reach which steps, and the local variables set on the way.
Shape(r) ==
    /\ r.pc = "lock" => r.op \in {"start", "boot", "stop", "close", "config"}
    /\ r.pc \in StartSteps => r.op \in {"start", "boot"}
    /\ r.pc \in StopSteps =>
         \/ r.op = "stop" /\ r.then = "disable"
         \/ r.op = "close" /\ r.then = "exit"
         \/ r.op \in {"start", "boot"} /\ r.then = "install"
         \/ r.op \in {"start", "boot"} /\ r.then = "rollback" /\ r.failing
    /\ r.pc = "enable" => r.op = "start"
    /\ r.pc = "disable" => r.op = "stop"
    /\ r.pc = "save" => r.op \in {"start", "stop"} /\ r.cur \in Settings
    /\ r.pc \in {"update", "persist", "commit"} => r.old \in Settings /\ r.cur \in Settings
    /\ r.pc \in {"decode", "read"} => r.op = "config"
    /\ r.op = "launch" => r.pc \in {"idle", "reachable", "confirmed", "http", "launch"}

\* What a goroutine knows of the shared state.
Knows(r) ==
    \* of the process it found: no later one has its number, and while it runs
    \* its configuration is the one whose address was read
    /\ r.saw <= child.n
    /\ r.pc = "launch" /\ ManagedRunning /\ child.n = r.saw => r.http = cfg
    \* of the process that its poll found: no other is started meanwhile
    /\ r.pc \in {"dial", "mark"} => r.saw = child.n
    \* of the configuration transaction
    /\ r.pc \in {"update", "persist", "commit"} => r.old.cfg = settings.cfg
    /\ r.pc \in {"persist", "commit"} =>
         r.cur.cfg = cfg /\ (r.cur.cfg # r.old.cfg => ~ManagedRunning)
    \* of what StopAndWait has found and done
    /\ r.pc \in {"signal", "await", "kill", "finish"} => r.hadTunnel = journalOpen
    /\ r.pc = "finish" => ~ManagedRunning

Mutex == \A t \in Threads : Inside(req[t]) <=> lifecycleMu = t

\* Nothing outlives the control plane but what the environment keeps.
DownIsEmpty ==
    ~up => child.st = "none" /\ lifecycleMu = Free /\ \A t \in Threads : req[t] = NoRequest

\* The manager and the settings differ only within a configuration transaction.
Agreement ==
    up /\ (\A t \in Threads : req[t].pc \notin {"persist", "commit"}) => settings.cfg = cfg

Process ==
    /\ ManagedRunning => child.cfg = cfg
    /\ confirmed => evidence = child.n

IInv ==
    /\ TypeOK
    /\ Mutex
    /\ \A t \in Threads : Shape(req[t]) /\ Knows(req[t])
    /\ DownIsEmpty /\ Agreement /\ Process

-----------------------------------------------------------------------------
(* Goroutine records.                                                      *)

\* A goroutine goes on to another step with the same local variables.
LEMMA Moved ==
    ASSUME NEW r \in Request, NEW s \in Steps \cup {"idle"}
    PROVE  LET m == [r EXCEPT !.pc = s] IN
           /\ m \in Request /\ m.pc = s /\ m.op = r.op /\ m.old = r.old /\ m.cur = r.cur
           /\ m.hadTunnel = r.hadTunnel /\ m.failing = r.failing /\ m.then = r.then
           /\ m.http = r.http /\ m.saw = r.saw /\ m.left = r.left
  BY DEF Request

\* It calls StopAndWait.
LEMMA Stopping ==
    ASSUME NEW r \in Request, NEW next \in {"install", "rollback", "disable", "exit"}
    PROVE  LET m == [r EXCEPT !.pc = "stop", !.then = next, !.failing = (next = "rollback")] IN
           /\ m \in Request /\ m.pc = "stop" /\ m.op = r.op /\ m.then = next
           /\ m.failing = (next = "rollback") /\ m.saw = r.saw
<1>1. ASSUME NEW f \in BOOLEAN
      PROVE  LET m == [r EXCEPT !.pc = "stop", !.then = next, !.failing = f] IN m \in Request
  BY DEF Request, Steps
<1>2. ASSUME NEW f \in BOOLEAN
      PROVE  LET m == [r EXCEPT !.pc = "stop", !.then = next, !.failing = f] IN
             /\ m.pc = "stop" /\ m.op = r.op /\ m.then = next /\ m.failing = f /\ m.saw = r.saw
  BY DEF Request
<1>3. (next = "rollback") \in BOOLEAN
  OBVIOUS
<1> QED
  BY <1>1, <1>2, <1>3

\* Where a handler starts from.
LEMMA Blank ==
    /\ NoRequest \in Request /\ NoRequest.pc = "idle" /\ NoRequest.op = "none"
    /\ NoRequest.saw = 0
<1>1. NoRequest \in Request
  BY DEF NoRequest, Request, Attempts
<1>2. NoRequest.pc = "idle" /\ NoRequest.op = "none" /\ NoRequest.saw = 0
  BY DEF NoRequest
<1> QED
  BY <1>1, <1>2

\* Who enters waits for lifecycleMu.
LEMMA Entering ==
    ASSUME NEW op \in {"start", "stop", "config", "close", "boot"}
    PROVE  Enter(op) \in Request /\ Enter(op).pc = "lock" /\ Enter(op).op = op /\ Enter(op).saw = 0
<1>1. Enter(op) \in Request
  BY Blank DEF Enter, Request, Steps
<1>2. Enter(op).pc = "lock" /\ Enter(op).op = op
  BY Blank DEF Enter, Request
<1>3. Enter(op).saw = 0
  BY Blank DEF Enter, Request
<1> QED
  BY <1>1, <1>2, <1>3

\* A launch, which takes no lock.
LEMMA Launching ==
    ASSUME NEW n \in Nat, NEW step \in {"reachable", "http"}
    PROVE  /\ Launch(step, n) \in Request /\ Launch(step, n).pc = step
           /\ Launch(step, n).op = "launch" /\ Launch(step, n).saw = n
<1>1. Launch(step, n) \in Request
  BY Blank DEF Launch, Request, Steps
<1>2. Launch(step, n).pc = step /\ Launch(step, n).op = "launch" /\ Launch(step, n).saw = n
  BY Blank DEF Launch, Request
<1> QED
  BY <1>1, <1>2

\* The auto-start goroutine, before each of its attempts.
LEMMA Booting ==
    ASSUME NEW left \in 0..Attempts
    PROVE  LET m == [Enter("boot") EXCEPT !.left = left] IN
           m \in Request /\ m.pc = "lock" /\ m.op = "boot" /\ m.saw = 0
<1> DEFINE m == [Enter("boot") EXCEPT !.left = left]
<1>1. m \in Request
  BY Entering DEF Request
<1>2. m.pc = "lock" /\ m.op = "boot" /\ m.saw = 0
  BY Entering DEF Request
<1> QED
  BY <1>1, <1>2

\* A handler whose start succeeded goes on to setProxyAutoStart.
LEMMA Enabling ==
    ASSUME NEW n \in Nat
    PROVE  LET m == [Enter("start") EXCEPT !.pc = "enable", !.saw = n] IN
           m \in Request /\ m.pc = "enable" /\ m.op = "start" /\ m.saw = n
<1> DEFINE m == [Enter("start") EXCEPT !.pc = "enable", !.saw = n]
<1>1. m \in Request
  BY Entering DEF Request, Steps
<1>2. m.pc = "enable" /\ m.op = "start" /\ m.saw = n
  BY Entering DEF Request
<1> QED
  BY <1>1, <1>2

-----------------------------------------------------------------------------
(* Steps, by what they disturb.                                            *)

\* How a step of t to record r may treat lifecycleMu.
Locking(t, r) ==
    \/ lifecycleMu' = lifecycleMu /\ (Inside(r) <=> Inside(req[t]))
    \/ lifecycleMu = t /\ lifecycleMu' = Free /\ ~Inside(r)
    \/ lifecycleMu = Free /\ lifecycleMu' = t /\ Inside(r)

\* A step of one goroutine.  It may change what others know only when it holds
\* the lock; what a launch knows survives that, because the configuration does
\* not change under the process it found.
LEMMA ThreadStep ==
    ASSUME IInv, NEW t \in Threads, NEW r \in Request, up, up',
           req' = [req EXCEPT ![t] = r], Shape(r), Knows(req[t])', Locking(t, r),
           TypeOK', Process', Agreement',
           child.n <= child'.n,
           child'.st # "none" /\ child'.n = child.n => child.st # "none" /\ cfg' = cfg,
           \/ lifecycleMu = t
           \/ settings'.cfg = settings.cfg /\ UNCHANGED <<cfg, child, journalOpen>>
    PROVE  IInv'
<1>0. /\ TypeOK /\ Mutex
      /\ \A p \in Threads : Shape(req[p]) /\ Knows(req[p])
      /\ Free \notin Threads
  BY ControlPlaneAssumption DEF IInv, Threads
<1>1. /\ req'[t] = r
      /\ \A p \in Threads : p # t => req'[p] = req[p]
  BY <1>0 DEF TypeOK
<1>2. Mutex'
  <2> SUFFICES ASSUME NEW p \in Threads
               PROVE  Inside(req'[p]) <=> lifecycleMu' = p
    BY DEF Mutex, Inside
  <2>1. (Inside(req[p]) <=> lifecycleMu = p) /\ (Inside(req[t]) <=> lifecycleMu = t)
    BY <1>0 DEF Mutex
  <2> QED
    BY <1>0, <1>1, <2>1 DEF Locking
<1>3. \A p \in Threads : Shape(req'[p])
  BY <1>0, <1>1
<1>4. ASSUME NEW p \in Threads
      PROVE  Knows(req[p])'
  <2>1. CASE p = t
    BY <2>1
  <2>2. CASE p # t
    <3>1. req'[p] = req[p] /\ req[p] \in Request /\ Knows(req[p])
      BY <1>0, <1>1, <2>2 DEF TypeOK
    <3>2. req[p].saw <= child'.n
      BY <1>0, <3>1 DEF Knows, TypeOK, Child, Request
    <3>3. req[p].pc = "launch" /\ child'.st # "none" /\ child'.n = req[p].saw
            => req[p].http = cfg'
      BY <1>0, <3>1 DEF Knows, TypeOK, Child, Request, ManagedRunning
    <3>4. CASE lifecycleMu = t
      <4>1. ~Inside(req[p])
        BY <1>0, <2>2, <3>4 DEF Mutex
      <4> QED
        BY <3>1, <3>2, <3>3, <4>1 DEF Knows, ManagedRunning, Inside, StopSteps, StartSteps
    <3>5. CASE settings'.cfg = settings.cfg /\ UNCHANGED <<cfg, child, journalOpen>>
      BY <3>1, <3>5 DEF Knows, ManagedRunning
    <3> QED
      BY <3>4, <3>5
  <2> QED
    BY <2>1, <2>2
<1>5. DownIsEmpty'
  BY DEF DownIsEmpty
<1>6. (\A p \in Threads : Shape(req[p]) /\ Knows(req[p]))'
  BY <1>3, <1>4
<1> QED
  BY <1>2, <1>5, <1>6 DEF IInv

\* What a goroutine's step leaves alone unless it changes the data plane, its
\* configuration or the settings.
Calm ==
    /\ UNCHANGED <<up, settings, cfg, child, foreign>>
    /\ file' \in Settings /\ served' \in Nat /\ last' \in {"none", "start", "stop"}
    /\ confirmed' \in BOOLEAN /\ evidence' \in Nat /\ (confirmed' => evidence' = child.n)
    /\ journalOpen' \in BOOLEAN

\* Such a step.
LEMMA CalmStep ==
    ASSUME IInv, NEW t \in Threads, NEW r \in Request, up, Calm,
           req' = [req EXCEPT ![t] = r], Shape(r), Knows(r), Locking(t, r),
           \/ journalOpen' = journalOpen
           \/ lifecycleMu = t /\ r.pc \notin {"signal", "await", "kill", "finish"},
           req[t].pc \in {"persist", "commit"} => r.pc \in {"persist", "commit"}
    PROVE  IInv'
<1>0. TypeOK /\ Agreement /\ Process /\ Free \notin Threads
  BY ControlPlaneAssumption DEF IInv, Threads
<1>1. /\ req'[t] = r
      /\ \A p \in Threads : p # t => req'[p] = req[p]
  BY <1>0 DEF TypeOK
<1>2. TypeOK'
  BY <1>0 DEF TypeOK, Calm, Locking
<1>3. Process' /\ up' /\ child.n <= child'.n
  BY <1>0 DEF Process, Calm, ManagedRunning, TypeOK, Child
<1>4. Agreement'
  BY <1>0, <1>1 DEF Agreement, Calm
<1>5. Knows(req[t])'
  BY <1>1 DEF Knows, Calm, ManagedRunning
<1>6. /\ child'.st # "none" /\ child'.n = child.n => child.st # "none" /\ cfg' = cfg
      /\ \/ lifecycleMu = t
         \/ settings'.cfg = settings.cfg /\ UNCHANGED <<cfg, child, journalOpen>>
  BY DEF Calm
<1> QED
  BY <1>2, <1>3, <1>4, <1>5, <1>6, ThreadStep

\* Most steps change nothing but their goroutine.
LEMMA StaysCalm ==
    IInv /\ UNCHANGED <<plane, manager, outside>> /\ journalOpen' \in BOOLEAN
         /\ last' \in {last, "start"}
      => Calm
  BY DEF IInv, TypeOK, Process, Calm, plane, manager, outside

\* A goroutine goes on, and holds lifecycleMu afterwards when it did before.
LEMMA Onward ==
    ASSUME IInv, NEW t \in Threads, NEW s \in Steps, up, Calm, Goto(t, s),
           UNCHANGED <<journalOpen, lifecycleMu>>,
           \/ req[t].pc = "check" /\ s = "install"
           \/ req[t].pc = "install" /\ s = "spawn"
           \/ req[t].pc = "dial" /\ s \in {"poll", "mark"}
           \/ req[t].pc = "signal" /\ s = "await"
           \/ req[t].pc \in {"await", "kill"} /\ s = "finish" /\ ~ManagedRunning
           \/ req[t].pc = "reachable" /\ s = "confirmed"
           \/ req[t].pc = "confirmed" /\ s = "http"
           \/ req[t].pc = "decode" /\ s = "read"
           \/ req[t].pc = "persist" /\ s = "commit"
    PROVE  IInv'
<1> DEFINE r == [req[t] EXCEPT !.pc = s]
<1>0. req[t] \in Request /\ Shape(req[t]) /\ Knows(req[t])
  BY DEF IInv, TypeOK
<1>1. req' = [req EXCEPT ![t] = r]
  BY DEF Goto
<1>2. /\ r \in Request /\ r.pc = s /\ r.op = req[t].op /\ r.old = req[t].old /\ r.cur = req[t].cur
      /\ r.hadTunnel = req[t].hadTunnel /\ r.failing = req[t].failing /\ r.then = req[t].then
      /\ r.saw = req[t].saw
  BY <1>0, Moved
<1> HIDE DEF r
<1>3. Shape(r)
  BY <1>0, <1>2 DEF Shape, StartSteps, StopSteps
<1>4. Knows(r)
  BY <1>0, <1>2 DEF Knows
<1>5. Locking(t, r)
  BY <1>0, <1>2 DEF Locking, Inside, StartSteps, StopSteps
<1>6. req[t].pc \in {"persist", "commit"} => r.pc \in {"persist", "commit"}
  BY <1>2
<1> QED
  BY <1>1, <1>2, <1>3, <1>4, <1>5, <1>6, CalmStep

\* A goroutine is done.
LEMMA Done ==
    ASSUME IInv, NEW t \in Threads, up, Calm, req' = [req EXCEPT ![t] = NoRequest],
           \/ lifecycleMu = t /\ lifecycleMu' = Free
           \/ ~Inside(req[t]) /\ UNCHANGED <<journalOpen, lifecycleMu>>,
           req[t].pc \notin {"persist", "commit"}
    PROVE  IInv'
<1>0. child.n \in Nat /\ child.n >= 0
  BY DEF IInv, TypeOK, Child
<1>1. Shape(NoRequest) /\ Knows(NoRequest) /\ ~Inside(NoRequest)
  BY <1>0, Blank DEF Shape, Knows, Inside, StartSteps, StopSteps
<1>2. Locking(t, NoRequest)
  BY <1>1 DEF Locking
<1> QED
  BY <1>1, <1>2, Blank, CalmStep

\* A handler returns.
LEMMA Returning ==
    ASSUME IInv, NEW t \in Threads, up, Calm, Return(t),
           journalOpen' = journalOpen \/ lifecycleMu = t,
           req[t].pc \notin {"persist", "commit"}
    PROVE  IInv'
<1>1. Inside(req[t]) <=> lifecycleMu = t
  BY DEF IInv, Mutex
<1> QED
  BY <1>1, Done DEF Return

\* startSafeProxy returns.
LEMMA StartReturning ==
    ASSUME IInv, NEW t \in Threads, NEW ok \in BOOLEAN, up, Calm, StartReturns(t, ok),
           Inside(req[t]), req[t].pc \notin {"persist", "commit"}
    PROVE  IInv'
<1>0. /\ lifecycleMu = t /\ lifecycleMu' = Free
      /\ child.n \in Nat /\ child.n >= 0 /\ req[t].left \in 0..Attempts
  BY DEF IInv, TypeOK, Child, Request, Mutex, StartReturns
<1>1. CASE req' = [req EXCEPT ![t] = NoRequest]
  BY <1>0, <1>1, Done
<1>2. CASE t = Boot /\ ~(ok \/ req[t].left <= 1)
  <2> DEFINE r == [Enter("boot") EXCEPT !.left = req[t].left - 1]
  <2>1. req' = [req EXCEPT ![t] = r]
    BY <1>2 DEF StartReturns
  <2>2. req[t].left - 1 \in 0..Attempts
    BY <1>0, <1>2 DEF Attempts
  <2>3. r \in Request /\ r.pc = "lock" /\ r.op = "boot" /\ r.saw = 0
    BY <2>2, Booting
  <2> HIDE DEF r
  <2>4. Shape(r) /\ Knows(r) /\ Locking(t, r)
    BY <1>0, <2>3 DEF Shape, Knows, Locking, Inside, StartSteps, StopSteps
  <2> QED
    BY <1>0, <2>1, <2>3, <2>4, CalmStep
<1>3. CASE t # Boot /\ ok
  <2> DEFINE r == [Enter("start") EXCEPT !.pc = "enable", !.saw = child.n]
  <2>1. req' = [req EXCEPT ![t] = r]
    BY <1>3 DEF StartReturns
  <2>2. r \in Request /\ r.pc = "enable" /\ r.op = "start" /\ r.saw = child.n
    BY <1>0, Enabling
  <2> HIDE DEF r
  <2>3. Shape(r) /\ Knows(r) /\ Locking(t, r)
    BY <1>0, <2>2 DEF Shape, Knows, Locking, Inside, StartSteps, StopSteps
  <2> QED
    BY <1>0, <2>1, <2>2, <2>3, CalmStep
<1> QED
  BY <1>1, <1>2, <1>3 DEF StartReturns

\* A goroutine enters StopAndWait, with lifecycleMu held or just taken.
LEMMA Stopped ==
    ASSUME IInv, NEW t \in Threads, NEW next \in {"install", "rollback", "disable", "exit"},
           up, Calm, StopThen(t, next), UNCHANGED journalOpen,
           \/ lifecycleMu = Free /\ lifecycleMu' = t
           \/ lifecycleMu = t /\ lifecycleMu' = t,
           \/ next = "disable" /\ req[t].op = "stop"
           \/ next = "exit" /\ req[t].op = "close"
           \/ next \in {"install", "rollback"} /\ req[t].op \in {"start", "boot"},
           req[t].pc \in {"lock", "check", "dial"}
    PROVE  IInv'
<1> DEFINE r == [req[t] EXCEPT !.pc = "stop", !.then = next, !.failing = (next = "rollback")]
<1>0. /\ req[t] \in Request /\ Knows(req[t]) /\ Free \notin Threads
      /\ (Inside(req[t]) <=> lifecycleMu = t)
  BY ControlPlaneAssumption DEF IInv, TypeOK, Mutex, Threads
<1>1. req' = [req EXCEPT ![t] = r]
  BY DEF StopThen
<1>2. /\ r \in Request /\ r.pc = "stop" /\ r.op = req[t].op /\ r.then = next
      /\ r.failing = (next = "rollback") /\ r.saw = req[t].saw
  BY <1>0, Stopping
<1> HIDE DEF r
<1>3. Shape(r)
  BY <1>2 DEF Shape, StartSteps, StopSteps
<1>4. Knows(r)
  BY <1>0, <1>2 DEF Knows
<1>5. Locking(t, r)
  BY <1>0, <1>2 DEF Locking, Inside, StartSteps, StopSteps
<1> QED
  BY <1>1, <1>2, <1>3, <1>4, <1>5, CalmStep

\* The control plane ends, whoever does what.
LEMMA Ending ==
    ASSUME IInv, Dies, UNCHANGED <<plane, evidence, served>>, journalOpen' \in BOOLEAN
    PROVE  IInv'
<1>0. TypeOK /\ Process /\ Free \notin Threads
  BY ControlPlaneAssumption DEF IInv, Threads
<1>1. /\ up' = FALSE /\ lifecycleMu' = Free /\ child'.st = "none" /\ child' \in Child
      /\ confirmed' = FALSE /\ child'.n = child.n /\ UNCHANGED <<settings, file, cfg>>
      /\ \A t \in Threads : req'[t] = NoRequest
      /\ req' \in [Threads -> Request]
  <2>1. child' \in Child /\ child'.st = "none" /\ child'.n = child.n
    BY <1>0 DEF Dies, TypeOK, Child
  <2>2. req' \in [Threads -> Request]
    BY Blank DEF Dies
  <2> QED
    BY <2>1, <2>2 DEF Dies, plane
<1>2. foreign' \subseteq Configs
  <2>1. child.cfg \in Configs /\ foreign \subseteq Configs
    BY <1>0 DEF TypeOK, Child
  <2> QED
    BY <2>1 DEF Dies
<1>3. TypeOK'
  BY <1>0, <1>1, <1>2 DEF TypeOK, Dies
<1>4. \A t \in Threads : Shape(req'[t]) /\ ~Inside(req'[t])
  BY <1>1, Blank DEF Shape, Inside, StartSteps, StopSteps
<1>5. (\A t \in Threads : Shape(req[t]) /\ Knows(req[t]))'
  <2>1. child'.n \in Nat /\ child'.n >= 0
    BY <1>1 DEF Child
  <2> QED
    BY <1>1, <1>4, <2>1, Blank DEF Knows
<1>6. Mutex'
  BY <1>0, <1>1, <1>4 DEF Mutex, Inside
<1>7. DownIsEmpty' /\ Agreement' /\ Process'
  BY <1>1 DEF DownIsEmpty, Agreement, Process, ManagedRunning
<1> QED
  BY <1>3, <1>5, <1>6, <1>7 DEF IInv

\* StopAndWait returns, to whatever comes after it.
LEMMA StopReturning ==
    ASSUME IInv, NEW t \in Threads, NEW ok \in BOOLEAN, up, req[t].pc \in StopSteps,
           StopReturns(t, ok), UNCHANGED <<plane, evidence, served>>, journalOpen' \in BOOLEAN
    PROVE  IInv'
<1>0. /\ req[t] \in Request /\ Shape(req[t]) /\ Knows(req[t]) /\ Inside(req[t])
      /\ lifecycleMu = t
  BY DEF IInv, TypeOK, Mutex, Inside
<1>1. CASE req[t].then = "exit"
  BY <1>1, Ending DEF StopReturns
<1>2. CASE req[t].then # "exit"
  <2> DEFINE good == ok /\ ~req[t].failing
  <2>0. Calm /\ req[t].pc \notin {"persist", "commit"}
    BY <1>2 DEF StopReturns, IInv, TypeOK, Process, Calm, plane, StopSteps
  <2>1. /\ req[t].then \in {"install", "rollback", "disable"}
        /\ req[t].then = "disable" => req[t].op = "stop"
        /\ req[t].then # "disable" => req[t].op \in {"start", "boot"}
        /\ req[t].then = "rollback" => req[t].failing
    BY <1>0, <1>2 DEF Shape
  <2>2. CASE good
    <3>1. Goto(t, req[t].then) /\ lifecycleMu' = lifecycleMu
      BY <1>2, <2>1, <2>2 DEF StopReturns
    <3> DEFINE r == [req[t] EXCEPT !.pc = req[t].then]
    <3>2. req[t].then \in {"install", "disable"}
      BY <2>1, <2>2
    <3>3. req' = [req EXCEPT ![t] = r] /\ req[t].then \in Steps \cup {"idle"}
      BY <3>1, <3>2 DEF Goto, Steps
    <3>4. r \in Request /\ r.pc = req[t].then /\ r.op = req[t].op /\ r.saw = req[t].saw
      BY <1>0, <3>3, Moved
    <3> HIDE DEF r
    <3>5. Shape(r) /\ Knows(r) /\ Locking(t, r)
      BY <1>0, <2>1, <3>1, <3>2, <3>4
         DEF Shape, Knows, Locking, Inside, StartSteps, StopSteps
    <3>6. r.pc \notin {"signal", "await", "kill", "finish"}
      BY <3>2, <3>4
    <3> QED
      BY <1>0, <2>0, <3>3, <3>4, <3>5, <3>6, CalmStep
  <2>3. CASE ~good /\ req[t].op \in {"start", "boot"}
    <3>1. StartReturns(t, FALSE)
      BY <1>2, <2>3 DEF StopReturns
    <3> QED
      BY <1>0, <2>0, <3>1, StartReturning
  <2>4. CASE ~good /\ req[t].op = "stop"
    <3>1. Return(t)
      BY <1>2, <2>4 DEF StopReturns
    <3> QED
      BY <1>0, <2>0, <3>1, Returning
  <2> QED
    BY <2>1, <2>2, <2>3, <2>4
<1> QED
  BY <1>1, <1>2

-----------------------------------------------------------------------------
(* The actions.                                                            *)

\* A request is accepted.
LEMMA Accepting ==
    ASSUME IInv, NEW q \in Requests, NEW r \in Request, Accept(q, r), Shape(r), ~Inside(r),
           r.saw <= child.n, r.pc \in {"lock", "idle", "reachable"}
    PROVE  IInv'
<1>0. /\ q \in Threads /\ up /\ req[q].pc = "idle" /\ req' = [req EXCEPT ![q] = r]
      /\ served \in Nat /\ served' = served + 1
      /\ UNCHANGED <<plane, manager, up, foreign, journalOpen, lifecycleMu, last>>
  BY DEF Accept, Threads, IInv, TypeOK
<1>1. Calm
  BY <1>0 DEF IInv, TypeOK, Process, Calm, plane, manager
<1>2. Knows(r)
  BY DEF Knows
<1>3. Locking(q, r)
  BY <1>0 DEF Locking, Inside, StartSteps, StopSteps
<1> QED
  BY <1>0, <1>1, <1>2, <1>3, CalmStep

\* The handlers.
LEMMA HandlerEnters ==
    ASSUME IInv, NEW q \in Requests,
           handleStart(q) \/ handleStop(q) \/ handleConfig(q) \/ Close(q) \/ handleLaunch(q)
    PROVE  IInv'
<1>0. child.n \in Nat /\ child.n >= 0
  BY DEF IInv, TypeOK, Child
<1>1. ASSUME NEW op \in {"start", "stop", "config", "close"}, Accept(q, Enter(op))
      PROVE  IInv'
  <2>1. Enter(op) \in Request /\ Enter(op).pc = "lock" /\ Enter(op).op = op /\ Enter(op).saw = 0
    BY Entering
  <2>2. Shape(Enter(op)) /\ ~Inside(Enter(op)) /\ Enter(op).saw <= child.n
    BY <1>0, <2>1 DEF Shape, Inside, StartSteps, StopSteps
  <2> QED
    BY <1>1, <2>1, <2>2, Accepting
<1>2. ASSUME Accept(q, NoRequest)
      PROVE  IInv'
  <2>1. Shape(NoRequest) /\ ~Inside(NoRequest) /\ NoRequest.saw <= child.n
    BY <1>0, Blank DEF Shape, Inside, StartSteps, StopSteps
  <2> QED
    BY <1>2, <2>1, Blank, Accepting
<1>3. ASSUME Accept(q, Launch("reachable", child.n))
      PROVE  IInv'
  <2> DEFINE r == Launch("reachable", child.n)
  <2>1. r \in Request /\ r.pc = "reachable" /\ r.op = "launch" /\ r.saw = child.n
    BY <1>0, Launching
  <2>2. Shape(r) /\ ~Inside(r) /\ r.saw <= child.n
    BY <1>0, <2>1 DEF Shape, Inside, StartSteps, StopSteps
  <2> HIDE DEF r
  <2> QED
    BY <1>3, <2>1, <2>2, Accepting DEF r
<1> QED
  BY <1>1, <1>2, <1>3 DEF handleStart, handleStop, handleConfig, Close, handleLaunch

\* lifecycleMu.Lock returns.
LEMMA Lock ==
    ASSUME IInv, NEW t \in Threads, LockLifecycle(t)
    PROVE  IInv'
<1>0. /\ up /\ req[t].pc = "lock" /\ lifecycleMu = Free /\ lifecycleMu' = t
      /\ req[t] \in Request /\ Shape(req[t]) /\ Knows(req[t]) /\ journalOpen' = journalOpen
  BY DEF LockLifecycle, At, IInv, TypeOK
<1>1. Calm
  BY StaysCalm DEF LockLifecycle, IInv, TypeOK
<1>2. ASSUME NEW s \in {"check", "decode"}, Goto(t, s),
             s = "check" => req[t].op \in {"start", "boot"},
             s = "decode" => req[t].op = "config"
      PROVE  IInv'
  <2> DEFINE r == [req[t] EXCEPT !.pc = s]
  <2>1. req' = [req EXCEPT ![t] = r]
    BY <1>2 DEF Goto
  <2>2. r \in Request /\ r.pc = s /\ r.op = req[t].op /\ r.saw = req[t].saw
    BY <1>0, Moved DEF Steps
  <2> HIDE DEF r
  <2>3. Shape(r) /\ Knows(r) /\ Locking(t, r)
    BY <1>0, <1>2, <2>2 DEF Shape, Knows, Locking, Inside, StartSteps, StopSteps
  <2> QED
    BY <1>0, <1>1, <2>1, <2>2, <2>3, CalmStep
<1>3. req[t].op \in {"start", "boot", "stop", "close", "config"}
  BY <1>0 DEF Shape
<1>4. CASE req[t].op \in {"start", "boot"}
  BY <1>2, <1>4 DEF LockLifecycle
<1>5. CASE req[t].op = "config"
  BY <1>2, <1>5 DEF LockLifecycle
<1>6. CASE req[t].op = "stop"
  <2>1. StopThen(t, "disable")
    BY <1>6 DEF LockLifecycle
  <2> QED
    BY <1>0, <1>1, <1>6, <2>1, Stopped
<1>7. CASE req[t].op = "close"
  <2>1. StopThen(t, "exit")
    BY <1>7 DEF LockLifecycle
  <2> QED
    BY <1>0, <1>1, <1>7, <2>1, Stopped
<1> QED
  BY <1>3, <1>4, <1>5, <1>6, <1>7

\* Facts about a goroutine under the lock.
LEMMA Holder ==
    ASSUME IInv, NEW t \in Threads, Inside(req[t])
    PROVE  lifecycleMu = t /\ req[t] \in Request /\ Shape(req[t]) /\ Knows(req[t])
  BY DEF IInv, Mutex, TypeOK

\* startSafeProxy, but for the start of the process.
LEMMA Starting ==
    ASSUME IInv, NEW t \in Threads,
           \/ CheckHealth(t) \/ InstallVerified(t) \/ StartFails(t) \/ PollManaged(t)
           \/ PollReachable(t) \/ PollAgain(t) \/ PollTimesOut(t)
           \/ MarkProxyReadinessConfirmed(t)
    PROVE  IInv'
<1>0. /\ up /\ req[t].pc \in StartSteps /\ Inside(req[t]) /\ lifecycleMu = t
      /\ req[t].pc \notin {"persist", "commit"} /\ req[t].op \in {"start", "boot"}
  <2>1. up /\ req[t].pc \in StartSteps
    BY DEF CheckHealth, InstallVerified, StartFails, PollManaged, PollReachable, PollAgain,
           PollTimesOut, MarkProxyReadinessConfirmed, At, StartSteps
  <2> QED
    BY <2>1, Holder DEF Inside, StartSteps, Shape
<1>1. CASE CheckHealth(t)
  <2>0. Calm /\ journalOpen' = journalOpen /\ req[t].pc = "check"
    <3>1. last' \in {last, "start"}
      BY <1>1 DEF CheckHealth, Healthy
    <3> QED
      BY <1>1, <3>1, StaysCalm DEF CheckHealth, At, IInv, TypeOK
  <2>1. \/ StartReturns(t, TRUE)
        \/ StopThen(t, "install") /\ UNCHANGED lifecycleMu
        \/ Goto(t, "install") /\ UNCHANGED lifecycleMu
    BY <1>1 DEF CheckHealth, Healthy
  <2>2. CASE StartReturns(t, TRUE)
    BY <1>0, <2>0, <2>2, StartReturning
  <2>3. CASE StopThen(t, "install") /\ UNCHANGED lifecycleMu
    BY <1>0, <2>0, <2>3, Stopped
  <2>4. CASE Goto(t, "install") /\ UNCHANGED lifecycleMu
    BY <1>0, <2>0, <2>4, Onward DEF Steps
  <2> QED
    BY <2>1, <2>2, <2>3, <2>4
<1>2. CASE InstallVerified(t)
  BY <1>0, <1>2, StaysCalm, Onward DEF InstallVerified, At, IInv, TypeOK, Steps
<1>3. CASE StartFails(t)
  BY <1>0, <1>3, StaysCalm, StartReturning DEF StartFails, IInv, TypeOK
<1>4. CASE PollReachable(t) \/ PollAgain(t)
  BY <1>0, <1>4, StaysCalm, Onward DEF PollReachable, PollAgain, At, IInv, TypeOK, Steps
<1>5. CASE PollTimesOut(t)
  BY <1>0, <1>5, StaysCalm, Stopped DEF PollTimesOut, At, IInv, TypeOK
<1>6. CASE MarkProxyReadinessConfirmed(t)
  <2>1. req[t].saw = child.n
    BY <1>0, <1>6, Holder DEF MarkProxyReadinessConfirmed, At, Knows
  <2>2. Calm
    BY <1>6, <2>1 DEF MarkProxyReadinessConfirmed, Calm, IInv, TypeOK, Child, plane, outside
  <2> QED
    BY <1>0, <1>6, <2>2, StartReturning DEF MarkProxyReadinessConfirmed
<1>7. CASE PollManaged(t)
  <2> DEFINE r == [req[t] EXCEPT !.pc = "dial", !.saw = child.n]
  <2>0. /\ req[t] \in Request /\ Shape(req[t]) /\ child.n \in Nat /\ journalOpen \in BOOLEAN
        /\ req' = [req EXCEPT ![t] = r] /\ UNCHANGED <<journalOpen, lifecycleMu>>
    BY <1>7 DEF PollManaged, IInv, TypeOK, Child
  <2>1. Calm
    BY <1>7, <2>0, StaysCalm DEF PollManaged
  <2>2. r \in Request
    BY <2>0 DEF Request, Steps
  <2>3. r.pc = "dial" /\ r.op = req[t].op /\ r.saw = child.n
    BY <2>0 DEF Request
  <2> HIDE DEF r
  <2>4. Shape(r) /\ Knows(r) /\ Locking(t, r)
    BY <1>0, <2>0, <2>3 DEF Shape, Knows, Locking, Inside, StartSteps, StopSteps
  <2> QED
    BY <1>0, <2>0, <2>1, <2>2, <2>3, <2>4, CalmStep
<1> QED
  BY <1>1, <1>2, <1>3, <1>4, <1>5, <1>6, <1>7

\* The process is started: the configuration is read under the lock, and the
\* readiness of the process before it is forgotten.
LEMMA Spawning ==
    ASSUME IInv, NEW t \in Threads, StartManaged(t)
    PROVE  IInv'
<1> DEFINE r == [req[t] EXCEPT !.pc = "poll"]
<1>0. /\ up /\ req[t].pc = "spawn" /\ Inside(req[t]) /\ child.st = "none"
      /\ child' = [st |-> "starting", cfg |-> cfg, n |-> child.n + 1]
      /\ confirmed' = FALSE /\ req' = [req EXCEPT ![t] = r]
      /\ UNCHANGED <<settings, file, cfg, evidence, up, foreign, served, journalOpen,
                     lifecycleMu, last>>
  BY DEF StartManaged, At, Goto, Inside, StartSteps, ManagedRunning, plane, outside
<1>1. /\ lifecycleMu = t /\ req[t] \in Request /\ Shape(req[t]) /\ Knows(req[t])
      /\ TypeOK /\ Agreement
  BY <1>0, Holder DEF IInv
<1>2. /\ r \in Request /\ r.pc = "poll" /\ r.op = req[t].op /\ r.saw = req[t].saw
  BY <1>1, Moved DEF Steps
<1> HIDE DEF r
<1>3. /\ child.n \in Nat /\ child'.n = child.n + 1 /\ child'.st = "starting" /\ child'.cfg = cfg
      /\ child' \in Child
  BY <1>0, <1>1 DEF TypeOK, Child
<1>4. TypeOK'
  BY <1>0, <1>1, <1>2, <1>3 DEF TypeOK
<1>5. req'[t] = r /\ \A p \in Threads : p # t => req'[p] = req[p]
  BY <1>0, <1>1 DEF TypeOK
<1>6. Process' /\ Agreement'
  BY <1>0, <1>1, <1>3, <1>5 DEF Process, Agreement
<1>7. Shape(r) /\ Locking(t, r)
  BY <1>0, <1>1, <1>2 DEF Shape, Locking, Inside, StartSteps, StopSteps
<1>8. Knows(req[t])'
  <2>1. r.saw <= child.n
    BY <1>1, <1>2 DEF Knows
  <2>2. r.saw \in Nat
    BY <1>2 DEF Request
  <2> QED
    BY <1>2, <1>3, <1>5, <2>1, <2>2 DEF Knows
<1>9. child.n <= child'.n /\ child'.n # child.n /\ up'
  BY <1>0, <1>3
<1> QED
  BY <1>0, <1>1, <1>2, <1>4, <1>6, <1>7, <1>8, <1>9, ThreadStep

\* setProxyAutoStart in memory: after a start it runs outside the lock, and may
\* meet a configuration transaction, whose half of the settings it leaves alone.
LEMMA SettingAutoStart ==
    ASSUME IInv, NEW t \in Threads, SetAutoStart(t)
    PROVE  IInv'
<1> DEFINE cur == [settings EXCEPT !.auto = (req[t].op = "start")]
           r == [req[t] EXCEPT !.pc = "save", !.cur = cur]
<1>0. /\ up /\ req[t].pc \in {"enable", "disable"} /\ settings' = cur
      /\ req' = [req EXCEPT ![t] = r]
      /\ last' \in {last, "stop"}
      /\ UNCHANGED <<file, cfg, child, confirmed, evidence, up, foreign, served, journalOpen,
                     lifecycleMu>>
  BY DEF SetAutoStart, At, manager, outside
<1>1. /\ req[t] \in Request /\ Shape(req[t]) /\ Knows(req[t])
      /\ TypeOK /\ Agreement /\ Process
  BY DEF IInv, TypeOK
<1>2. cur \in Settings /\ cur.cfg = settings.cfg
  <2>1. ASSUME NEW b \in BOOLEAN
        PROVE  LET c == [settings EXCEPT !.auto = b] IN c \in Settings /\ c.cfg = settings.cfg
    BY <1>1 DEF TypeOK, Settings
  <2>2. (req[t].op = "start") \in BOOLEAN
    OBVIOUS
  <2> QED
    BY <2>1, <2>2
<1> HIDE DEF cur
<1>3. r \in Request /\ r.pc = "save" /\ r.op = req[t].op /\ r.cur = cur /\ r.saw = req[t].saw
  <2>1. r \in Request
    BY <1>1, <1>2 DEF Request, Steps
  <2>2. r.pc = "save" /\ r.op = req[t].op /\ r.cur = cur /\ r.saw = req[t].saw
    BY <1>1 DEF Request
  <2> QED
    BY <2>1, <2>2
<1> HIDE DEF r
<1>4. req'[t] = r /\ \A p \in Threads : p # t => req'[p] = req[p]
  BY <1>0, <1>1 DEF TypeOK
<1>5. TypeOK'
  BY <1>0, <1>1, <1>2, <1>3 DEF TypeOK
<1>6. Shape(r) /\ Locking(t, r)
  BY <1>0, <1>1, <1>2, <1>3 DEF Shape, Locking, Inside, StartSteps, StopSteps
<1>7. Knows(req[t])' /\ Process'
  BY <1>0, <1>1, <1>3, <1>4 DEF Knows, Process, ManagedRunning
<1>8. Agreement'
  BY <1>0, <1>1, <1>2, <1>3, <1>4 DEF Agreement
<1>9. child.n <= child'.n
  BY <1>0, <1>1 DEF TypeOK, Child
<1> QED
  BY <1>0, <1>2, <1>3, <1>5, <1>6, <1>7, <1>8, <1>9, ThreadStep

\* setProxyAutoStart in the file, and what the handler does then.
LEMMA SavingAutoStart ==
    ASSUME IInv, NEW t \in Threads, SaveAutoStart(t)
    PROVE  IInv'
<1>0. /\ up /\ req[t].pc = "save" /\ Shape(req[t]) /\ Knows(req[t]) /\ req[t] \in Request
      /\ child.n \in Nat
      /\ UNCHANGED <<settings, cfg, child, confirmed, evidence, up, foreign, served,
                     journalOpen, last>>
  BY DEF SaveAutoStart, At, IInv, TypeOK, Child, manager, outside
<1>1. file' \in Settings
  BY <1>0 DEF SaveAutoStart, Shape, IInv, TypeOK
<1>2. Calm
  BY <1>0, <1>1 DEF Calm, IInv, TypeOK, Process
<1>3. CASE Return(t)
  BY <1>0, <1>2, <1>3, Returning
<1>4. CASE ThenLaunch(t)
  <2> DEFINE r == Launch("http", req[t].saw)
  <2>1. /\ req' = [req EXCEPT ![t] = r] /\ req[t].op = "start" /\ lifecycleMu' = lifecycleMu
    BY <1>4 DEF ThenLaunch
  <2>2. r \in Request /\ r.pc = "http" /\ r.op = "launch" /\ r.saw = req[t].saw
    BY <1>0, Launching DEF Request
  <2> HIDE DEF r
  <2>3. Shape(r) /\ Knows(r) /\ Locking(t, r)
    BY <1>0, <2>1, <2>2 DEF Shape, Knows, Locking, Inside, StartSteps, StopSteps
  <2> QED
    BY <1>0, <1>2, <2>1, <2>2, <2>3, CalmStep
<1> QED
  BY <1>3, <1>4 DEF SaveAutoStart

\* The launch of Antigravity: the address is read while the process that was
\* found may still run.
LEMMA LaunchSteps ==
    ASSUME IInv, NEW t \in Threads,
           LookReachable(t) \/ LookConfirmed(t) \/ HTTPProxyURL(t) \/ LaunchWithProxy(t)
    PROVE  IInv'
<1>0. /\ up /\ req[t] \in Request /\ Shape(req[t]) /\ Knows(req[t]) /\ cfg \in Configs
      /\ req[t].pc \in {"reachable", "confirmed", "http", "launch"}
      /\ UNCHANGED <<plane, manager, outside, journalOpen, lifecycleMu, last>>
  BY DEF LookReachable, LookConfirmed, HTTPProxyURL, LaunchWithProxy, At, IInv, TypeOK
<1>1. Calm
  BY <1>0, StaysCalm DEF IInv, TypeOK
<1>2. ~Inside(req[t])
  BY <1>0 DEF Inside, StartSteps, StopSteps
<1>3. CASE req' = [req EXCEPT ![t] = NoRequest]
  BY <1>0, <1>1, <1>2, <1>3, Done
<1>4. CASE LookReachable(t) /\ Goto(t, "confirmed")
  BY <1>0, <1>1, <1>4, Onward DEF LookReachable, At, Steps
<1>5. CASE LookConfirmed(t) /\ Goto(t, "http")
  BY <1>0, <1>1, <1>5, Onward DEF LookConfirmed, At, Steps
<1>6. CASE HTTPProxyURL(t)
  <2> DEFINE r == [req[t] EXCEPT !.pc = "launch", !.http = cfg]
  <2>1. req' = [req EXCEPT ![t] = r]
    BY <1>6 DEF HTTPProxyURL
  <2>2. r \in Request
    BY <1>0 DEF Request, Steps
  <2>3. r.pc = "launch" /\ r.op = req[t].op /\ r.saw = req[t].saw /\ r.http = cfg
    BY <1>0 DEF Request
  <2> HIDE DEF r
  <2>4. Shape(r) /\ Knows(r) /\ Locking(t, r)
    BY <1>0, <1>2, <2>3 DEF Shape, Knows, Locking, Inside, StartSteps, StopSteps
  <2> QED
    BY <1>0, <1>1, <2>1, <2>2, <2>3, <2>4, CalmStep
<1> QED
  BY <1>3, <1>4, <1>5, <1>6 DEF LookReachable, LookConfirmed, LaunchWithProxy

\* handleConfig has its body, or gives up.
LEMMA Decoding ==
    ASSUME IInv, NEW t \in Threads, DecodeBody(t)
    PROVE  IInv'
<1>0. /\ up /\ req[t].pc = "decode" /\ Inside(req[t]) /\ journalOpen' = journalOpen
      /\ (Goto(t, "read") /\ UNCHANGED lifecycleMu) \/ Return(t)
  BY DEF DecodeBody, At, Inside
<1>1. Calm
  BY StaysCalm DEF DecodeBody, IInv, TypeOK
<1>2. CASE Return(t)
  BY <1>0, <1>1, <1>2, Returning
<1>3. CASE Goto(t, "read") /\ UNCHANGED lifecycleMu
  BY <1>0, <1>1, <1>3, Onward DEF Steps
<1> QED
  BY <1>0, <1>2, <1>3

\* handleConfig reads the settings it is to change.
LEMMA Reading ==
    ASSUME IInv, NEW t \in Threads, ReadSettings(t)
    PROVE  IInv'
<1>0. /\ up /\ req[t].pc = "read" /\ Inside(req[t])
      /\ UNCHANGED <<plane, manager, outside, journalOpen, last>>
  BY DEF ReadSettings, At, Inside
<1>1. /\ lifecycleMu = t /\ req[t] \in Request /\ Shape(req[t]) /\ Knows(req[t])
      /\ settings \in Settings /\ Free \notin Threads /\ Mutex /\ Agreement
  BY <1>0, Holder, ControlPlaneAssumption DEF IInv, TypeOK, Threads
<1>2. Calm
  BY <1>0, StaysCalm DEF IInv, TypeOK
<1>3. settings.cfg = cfg
  <2>1. ASSUME NEW p \in Threads
        PROVE  req[p].pc \notin {"persist", "commit"}
    <3>1. CASE p = t
      BY <1>0, <3>1
    <3>2. CASE p # t
      BY <1>1, <3>2 DEF Mutex, Inside
    <3> QED
      BY <3>1, <3>2
  <2> QED
    BY <1>0, <1>1, <2>1 DEF Agreement
<1>4. CASE Return(t)
  BY <1>0, <1>1, <1>2, <1>4, Returning
<1>5. ASSUME NEW cur \in Settings, UNCHANGED lifecycleMu,
             req' = [req EXCEPT ![t].old = settings, ![t].cur = cur,
                       ![t].pc = IF cur.cfg # settings.cfg THEN "update" ELSE "persist"]
      PROVE  IInv'
  <2> DEFINE s == IF cur.cfg # settings.cfg THEN "update" ELSE "persist"
             r == [req[t] EXCEPT !.old = settings, !.cur = cur, !.pc = s]
  <2>0. /\ s \in {"update", "persist"} /\ s \in Steps
        /\ s = "persist" => cur.cfg = settings.cfg
    BY DEF Steps
  <2> HIDE DEF s
  <2>1. req' = [req EXCEPT ![t] = r]
    BY <1>1, <1>5 DEF IInv, TypeOK, s
  <2>2. r \in Request
    BY <1>1, <2>0 DEF Request
  <2>3. r.pc = s /\ r.op = req[t].op /\ r.saw = req[t].saw /\ r.old = settings /\ r.cur = cur
    BY <1>1 DEF Request
  <2> HIDE DEF r
  <2>4. Shape(r)
    BY <1>0, <1>1, <2>0, <2>3 DEF Shape, StartSteps, StopSteps
  <2>5. Knows(r)
    BY <1>1, <1>3, <2>0, <2>3 DEF Knows
  <2>6. Locking(t, r)
    BY <1>0, <1>5, <2>0, <2>3 DEF Locking, Inside
  <2> QED
    BY <1>0, <1>2, <2>1, <2>2, <2>4, <2>5, <2>6, CalmStep
<1>6. {[settings EXCEPT !.cfg = c] : c \in Configs}
        \cup {[settings EXCEPT !.auto = a] : a \in BOOLEAN} \subseteq Settings
  <2>1. \A c \in Configs : [settings EXCEPT !.cfg = c] \in Settings
    BY <1>1 DEF Settings
  <2>2. \A a \in BOOLEAN : [settings EXCEPT !.auto = a] \in Settings
    BY <1>1 DEF Settings
  <2> QED
    BY <2>1, <2>2
<1> QED
  BY <1>4, <1>5, <1>6 DEF ReadSettings

\* A step of the configuration transaction with the lock held: what the three
\* steps below have in common.
LEMMA Transaction ==
    ASSUME IInv, NEW t \in Threads, NEW r \in Request, up, Inside(req[t]),
           req' = [req EXCEPT ![t] = r], Shape(r), Locking(t, r), Knows(req[t])',
           UNCHANGED <<child, confirmed, evidence, up, foreign, served, journalOpen>>,
           file' \in Settings, settings' \in Settings, cfg' \in Configs,
           last' \in {"none", "start", "stop"},
           ManagedRunning => cfg' = cfg,
           r.pc \notin {"persist", "commit"} => settings'.cfg = cfg'
    PROVE  IInv'
<1>0. /\ lifecycleMu = t /\ TypeOK /\ Process /\ Free \notin Threads
  BY Holder, ControlPlaneAssumption DEF IInv, Threads
<1>1. req'[t] = r /\ \A p \in Threads : p # t => req'[p] = req[p]
  BY <1>0 DEF TypeOK
<1>2. TypeOK'
  BY <1>0 DEF TypeOK, Locking
<1>3. Process' /\ up' /\ child.n <= child'.n
  BY <1>0 DEF Process, ManagedRunning, TypeOK, Child
<1>4. Agreement'
  BY <1>1 DEF Agreement
<1>5. child'.st # "none" /\ child'.n = child.n => child.st # "none" /\ cfg' = cfg
  BY DEF ManagedRunning
<1> QED
  BY <1>0, <1>2, <1>3, <1>4, <1>5, ThreadStep

\* The manager takes the new configuration, unless a process runs.
LEMMA Updating ==
    ASSUME IInv, NEW t \in Threads, UpdateStoppedConfig(t)
    PROVE  IInv'
<1>0. /\ up /\ req[t].pc = "update" /\ Inside(req[t]) /\ lifecycleMu = t
      /\ req[t] \in Request /\ Shape(req[t]) /\ Knows(req[t]) /\ TypeOK
      /\ UNCHANGED <<settings, file, child, confirmed, evidence, up, foreign, served,
                     journalOpen, last>>
  BY Holder DEF UpdateStoppedConfig, At, Inside, IInv, manager, outside
<1>1. CASE ManagedRunning
  <2>1. Calm /\ Return(t)
    BY <1>0, <1>1 DEF UpdateStoppedConfig, Calm, IInv, TypeOK, Process
  <2> QED
    BY <1>0, <2>1, Returning
<1>2. CASE ~ManagedRunning
  <2> DEFINE r == [req[t] EXCEPT !.pc = "persist"]
  <2>1. req' = [req EXCEPT ![t] = r] /\ cfg' = req[t].cur.cfg /\ lifecycleMu' = lifecycleMu
    BY <1>2 DEF UpdateStoppedConfig, Goto
  <2>2. /\ r \in Request /\ r.pc = "persist" /\ r.op = req[t].op /\ r.saw = req[t].saw
        /\ r.old = req[t].old /\ r.cur = req[t].cur
    BY <1>0, Moved DEF Steps
  <2> HIDE DEF r
  <2>3. Shape(r) /\ Locking(t, r)
    BY <1>0, <2>1, <2>2 DEF Shape, Locking, Inside, StartSteps, StopSteps
  <2>4. req'[t] = r
    BY <1>0, <2>1 DEF TypeOK
  <2>5. Knows(req[t])'
    BY <1>0, <1>2, <2>1, <2>2, <2>4 DEF Knows, ManagedRunning
  <2>6. cfg' \in Configs
    BY <1>0, <2>1 DEF Shape, Settings
  <2> QED
    BY <1>0, <1>2, <2>1, <2>2, <2>3, <2>5, <2>6, Transaction DEF TypeOK
<1> QED
  BY <1>1, <1>2

\* The file is written.
LEMMA Persisting ==
    ASSUME IInv, NEW t \in Threads, PersistConfig(t)
    PROVE  IInv'
<1>0. /\ up /\ req[t].pc = "persist" /\ Shape(req[t])
      /\ Goto(t, "commit") /\ file' = req[t].cur
      /\ UNCHANGED <<settings, cfg, child, confirmed, evidence, up, foreign, served,
                     journalOpen, lifecycleMu, last>>
  BY DEF PersistConfig, At, IInv, manager, outside
<1>1. Calm
  BY <1>0 DEF Calm, IInv, TypeOK, Process, Shape
<1> QED
  BY <1>0, <1>1, Onward DEF Steps

\* It could not be written: the manager takes the old configuration back.  No
\* process was started meanwhile, so it can.
LEMMA PersistFailing ==
    ASSUME IInv, NEW t \in Threads, PersistFails(t)
    PROVE  IInv'
<1>0. /\ up /\ req[t].pc = "persist" /\ Inside(req[t]) /\ lifecycleMu = t
      /\ req[t] \in Request /\ Shape(req[t]) /\ Knows(req[t]) /\ TypeOK
      /\ req' = [req EXCEPT ![t] = NoRequest] /\ lifecycleMu' = Free
      /\ cfg' = IF ManagedRunning THEN cfg ELSE req[t].old.cfg
      /\ file' \in {file, req[t].cur}
      /\ UNCHANGED <<settings, child, confirmed, evidence, up, foreign, served,
                     journalOpen, last>>
  BY Holder DEF PersistFails, At, Return, Inside, IInv, manager, outside
<1>1. req'[t] = NoRequest /\ child.n \in Nat /\ child.n >= 0
  BY <1>0 DEF TypeOK, Child
<1>2. Shape(NoRequest) /\ Knows(req[t])' /\ ~Inside(NoRequest)
  BY <1>0, <1>1, Blank DEF Shape, Knows, Inside, StartSteps, StopSteps
<1>3. settings'.cfg = cfg' /\ cfg' \in Configs /\ file' \in Settings
  BY <1>0 DEF Knows, Shape, Settings, TypeOK
<1>4. Locking(t, NoRequest)
  BY <1>0, <1>2 DEF Locking
<1> QED
  BY <1>0, <1>2, <1>3, <1>4, Blank, Transaction DEF TypeOK

\* The settings follow.
LEMMA Committing ==
    ASSUME IInv, NEW t \in Threads, CommitConfig(t)
    PROVE  IInv'
<1>0. /\ up /\ req[t].pc = "commit" /\ Inside(req[t]) /\ lifecycleMu = t
      /\ req[t] \in Request /\ Shape(req[t]) /\ Knows(req[t]) /\ TypeOK
      /\ req' = [req EXCEPT ![t] = NoRequest] /\ lifecycleMu' = Free
      /\ settings' = req[t].cur /\ last' \in {"none", last}
      /\ UNCHANGED <<file, cfg, child, confirmed, evidence, up, foreign, served, journalOpen>>
  BY Holder DEF CommitConfig, At, Return, Inside, IInv, manager, outside
<1>1. req'[t] = NoRequest /\ child.n \in Nat /\ child.n >= 0
  BY <1>0 DEF TypeOK, Child
<1>2. Shape(NoRequest) /\ Knows(req[t])' /\ ~Inside(NoRequest)
  BY <1>0, <1>1, Blank DEF Shape, Knows, Inside, StartSteps, StopSteps
<1>3. settings'.cfg = cfg' /\ settings' \in Settings
  BY <1>0 DEF Knows, Shape
<1>4. Locking(t, NoRequest)
  BY <1>0, <1>2 DEF Locking
<1> QED
  BY <1>0, <1>2, <1>3, <1>4, Blank, Transaction DEF TypeOK

\* StopAndWait.
LEMMA StopActions ==
    ASSUME IInv, NEW t \in Threads,
           \/ BeginStop(t) \/ SignalProcess(t) \/ SignalTooLate(t) \/ ProcessGone(t)
           \/ StopTimesOut(t) \/ KillTimesOut(t) \/ FinishTransaction(t)
    PROVE  IInv'
<1>0. /\ up /\ req[t].pc \in StopSteps /\ Inside(req[t]) /\ lifecycleMu = t
      /\ req[t] \in Request /\ Shape(req[t]) /\ Knows(req[t]) /\ TypeOK
  <2>1. up /\ req[t].pc \in StopSteps
    BY DEF BeginStop, SignalProcess, SignalTooLate, ProcessGone, StopTimesOut, KillTimesOut,
           FinishTransaction, At, StopSteps
  <2> QED
    BY <2>1, Holder DEF Inside, IInv
<1>1. CASE BeginStop(t)
  <2> DEFINE r == [req[t] EXCEPT !.pc = "signal", !.hadTunnel = journalOpen,
                                 !.target = ManagedRunning]
  <2>1. req' = [req EXCEPT ![t] = r] /\ Calm /\ UNCHANGED <<journalOpen, lifecycleMu>>
    BY <1>0, <1>1, StaysCalm DEF BeginStop, TypeOK
  <2>2. /\ r \in Request
    <3>1. ASSUME NEW b \in BOOLEAN, NEW c \in BOOLEAN
          PROVE  [req[t] EXCEPT !.pc = "signal", !.hadTunnel = b, !.target = c] \in Request
      BY <1>0 DEF Request, Steps
    <3>2. ManagedRunning \in BOOLEAN
      BY DEF ManagedRunning
    <3> QED
      BY <1>0, <3>1, <3>2 DEF TypeOK
  <2>3. /\ r.pc = "signal" /\ r.op = req[t].op /\ r.saw = req[t].saw /\ r.then = req[t].then
        /\ r.failing = req[t].failing
        /\ r.hadTunnel = journalOpen
    BY <1>0 DEF Request
  <2> HIDE DEF r
  <2>4. Shape(r) /\ Knows(r) /\ Locking(t, r)
    BY <1>0, <2>1, <2>3 DEF Shape, Knows, Locking, Inside, StartSteps, StopSteps
  <2> QED
    BY <1>0, <2>1, <2>2, <2>3, <2>4, CalmStep DEF StopSteps
<1>2. CASE SignalProcess(t)
  BY <1>0, <1>2, StaysCalm, Onward DEF SignalProcess, At, Steps, TypeOK
<1>3. CASE SignalTooLate(t)
  BY <1>0, <1>3, StopReturning DEF SignalTooLate, TypeOK
<1>4. CASE ProcessGone(t)
  <2>1. CASE req[t].hadTunnel
    <3>1. Goto(t, "finish") /\ UNCHANGED <<journalOpen, lifecycleMu>> /\ ~ManagedRunning
          /\ req[t].pc \in {"await", "kill"}
      BY <1>4, <2>1 DEF ProcessGone, At
    <3>2. Calm
      BY <1>0, <1>4, <2>1 DEF ProcessGone, Calm, IInv, TypeOK, Process, plane
    <3> QED
      BY <1>0, <3>1, <3>2, Onward DEF Steps
  <2>2. CASE ~req[t].hadTunnel
    BY <1>0, <1>4, <2>2, StopReturning DEF ProcessGone, TypeOK
  <2> QED
    BY <2>1, <2>2
<1>5. CASE StopTimesOut(t)
  <2> DEFINE r == [req[t] EXCEPT !.pc = "kill", !.failing = TRUE]
  <2>1. /\ req' = [req EXCEPT ![t] = r] /\ Calm /\ UNCHANGED <<journalOpen, lifecycleMu>>
        /\ req[t].pc = "await"
    BY <1>0, <1>5, StaysCalm DEF StopTimesOut, At, TypeOK
  <2>2. r \in Request
    BY <1>0 DEF Request, Steps
  <2>3. /\ r.pc = "kill" /\ r.op = req[t].op /\ r.saw = req[t].saw /\ r.then = req[t].then
        /\ r.failing = TRUE
        /\ r.hadTunnel = req[t].hadTunnel
    BY <1>0 DEF Request
  <2> HIDE DEF r
  <2>4. Shape(r) /\ Knows(r) /\ Locking(t, r)
    BY <1>0, <2>1, <2>3 DEF Shape, Knows, Locking, Inside, StartSteps, StopSteps
  <2> QED
    BY <1>0, <2>1, <2>2, <2>3, <2>4, CalmStep
<1>6. CASE KillTimesOut(t)
  BY <1>0, <1>6, StopReturning DEF KillTimesOut, TypeOK
<1>7. CASE FinishTransaction(t)
  <2>1. PICK ok \in BOOLEAN : journalOpen' = ~ok /\ StopReturns(t, ok)
    BY <1>7 DEF FinishTransaction
  <2> QED
    BY <1>0, <1>7, <2>1, StopReturning DEF FinishTransaction
<1> QED
  BY <1>1, <1>2, <1>3, <1>4, <1>5, <1>6, <1>7

\* The managed process binds its listener or ends: no handler moves.
LEMMA ChildSteps ==
    ASSUME IInv, ChildListens \/ ChildExits \/ WaiterClears
    PROVE  IInv'
<1>0. /\ TypeOK /\ child.st # "none" /\ child' \in Child
      /\ child'.n = child.n /\ child'.cfg = child.cfg
      /\ UNCHANGED <<settings, file, cfg, confirmed, evidence, up, foreign, served, journalOpen,
                     lifecycleMu, req, last>>
  BY DEF ChildListens, ChildExits, WaiterClears, IInv, TypeOK, Child, plane, outside
<1>1. TypeOK'
  BY <1>0 DEF TypeOK
<1>2. Mutex' /\ DownIsEmpty' /\ Agreement' /\ Process'
  BY <1>0 DEF IInv, Mutex, Inside, DownIsEmpty, Agreement, Process, ManagedRunning
<1>3. (\A t \in Threads : Shape(req[t]) /\ Knows(req[t]))'
  BY <1>0 DEF IInv, Shape, Knows, ManagedRunning
<1> QED
  BY <1>1, <1>2, <1>3 DEF IInv

\* Another process takes or leaves an address.
LEMMA ForeignSteps ==
    ASSUME IInv, NEW c \in Configs, ForeignListener(c)
    PROVE  IInv'
<1>0. /\ TypeOK /\ foreign' \subseteq Configs
      /\ UNCHANGED <<settings, file, cfg, child, confirmed, evidence, up, served, journalOpen,
                     lifecycleMu, req, last>>
  BY DEF ForeignListener, IInv, TypeOK, plane, manager
<1>1. TypeOK'
  BY <1>0 DEF TypeOK
<1>2. Mutex' /\ DownIsEmpty' /\ Agreement' /\ Process'
  BY <1>0 DEF IInv, Mutex, Inside, DownIsEmpty, Agreement, Process, ManagedRunning
<1>3. (\A t \in Threads : Shape(req[t]) /\ Knows(req[t]))'
  BY <1>0 DEF IInv, Shape, Knows, ManagedRunning
<1> QED
  BY <1>1, <1>2, <1>3 DEF IInv

\* The next run of the control plane: its settings, its manager and the file
\* hold what New makes of the file.
LEMMA Restarting ==
    ASSUME IInv, Restart
    PROVE  IInv'
<1> DEFINE r == AutoStart(file.auto)
<1>0. /\ TypeOK /\ ~up /\ up' = TRUE /\ file' = settings'
      /\ req' = [req EXCEPT ![Boot] = r]
      /\ UNCHANGED <<child, confirmed, evidence, foreign, served, journalOpen,
                     lifecycleMu, last>>
      /\ child.st = "none" /\ lifecycleMu = Free
      /\ \A t \in Threads : req[t] = NoRequest
      /\ Boot \in Threads /\ Free \notin Threads
  BY ControlPlaneAssumption DEF IInv, Restart, DownIsEmpty, manager, Threads
<1>1. r \in Request /\ r.pc \in {"idle", "lock"} /\ r.op \in {"none", "boot"} /\ r.saw = 0
      /\ (r.pc = "lock" => r.op = "boot")
  BY Blank, Booting DEF AutoStart, Attempts
<1> HIDE DEF r
<1>2. \A t \in Threads : req'[t] = IF t = Boot THEN r ELSE NoRequest
  BY <1>0 DEF TypeOK
<1>3. /\ settings' \in Settings /\ cfg' \in Configs /\ settings'.cfg = cfg'
  <2>1. PICK c \in LoadsAs[file.cfg] : settings' = [file EXCEPT !.cfg = c] /\ cfg' = c
    BY DEF Restart
  <2>2. file \in Settings /\ file.cfg \in Configs
    BY <1>0 DEF TypeOK, Settings
  <2>3. c \in Configs
    BY <2>2, ControlPlaneAssumption
  <2> QED
    BY <2>1, <2>2, <2>3 DEF Settings
<1>4. TypeOK'
  BY <1>0, <1>1, <1>3 DEF TypeOK
<1>5. \A t \in Threads : Shape(req'[t]) /\ ~Inside(req'[t])
  BY <1>1, <1>2, Blank DEF Shape, Inside, StartSteps, StopSteps
<1>6. child.n \in Nat /\ child.n >= 0
  BY <1>0 DEF TypeOK, Child
<1>7. (\A t \in Threads : Shape(req[t]) /\ Knows(req[t]))'
  BY <1>0, <1>1, <1>2, <1>5, <1>6, Blank DEF Knows
<1>8. Mutex' /\ DownIsEmpty' /\ Agreement' /\ Process'
  BY <1>0, <1>5, <1>3 DEF IInv, Mutex, DownIsEmpty, Agreement, Process, ManagedRunning, Inside
<1> QED
  BY <1>4, <1>7, <1>8 DEF IInv

\* New, then Serve.
LEMMA Initial == Init => IInv
<1> SUFFICES ASSUME Init
             PROVE  IInv
  OBVIOUS
<1> DEFINE r == AutoStart(settings.auto)
<1>0. Boot \in Threads /\ Free \notin Threads
  BY ControlPlaneAssumption DEF Threads
<1>1. /\ r \in Request /\ r.pc \in {"idle", "lock"} /\ r.op \in {"none", "boot"} /\ r.saw = 0
      /\ (r.pc = "lock" => r.op = "boot")
  BY Blank, Booting DEF AutoStart, Attempts
<1>2. req = [t \in Threads |-> IF t = Boot THEN r ELSE NoRequest]
  BY DEF Init
<1> HIDE DEF r
<1>3. \A t \in Threads : req[t] = IF t = Boot THEN r ELSE NoRequest
  BY <1>2
<1>4. /\ settings \in Settings /\ cfg \in Configs /\ settings.cfg = cfg
      /\ child \in Child /\ child.st = "none" /\ child.n = 0
  BY DEF Init, Settings, Child
<1>5. TypeOK
  <2>1. req \in [Threads -> Request]
    BY <1>1, <1>2, Blank
  <2> QED
    BY <1>4, <2>1 DEF Init, TypeOK
<1>6. \A t \in Threads : Shape(req[t]) /\ ~Inside(req[t])
  BY <1>1, <1>3, Blank DEF Shape, Inside, StartSteps, StopSteps
<1>7. \A t \in Threads : Knows(req[t])
  BY <1>1, <1>3, <1>4, Blank DEF Knows
<1>8. Mutex /\ DownIsEmpty /\ Agreement /\ Process
  BY <1>0, <1>4, <1>6 DEF Init, Mutex, DownIsEmpty, Agreement, Process, ManagedRunning
<1> QED
  BY <1>5, <1>6, <1>7, <1>8 DEF IInv

\* A goroutine's step, or its client's.
Moves(t) == Step(t) \/ DecodeBody(t)

\* Every one of them.
LEMMA GoroutineSteps ==
    ASSUME IInv, NEW t \in Threads, Moves(t)
    PROVE  IInv'
  BY Lock, Starting, Spawning, SettingAutoStart, SavingAutoStart, Reading, Updating, Persisting,
     PersistFailing, Committing, StopActions, LaunchSteps, Decoding
     DEF Moves, Step

\* Every step keeps it.
LEMMA Preserved == IInv /\ [Next]_vars => IInv'
<1> SUFFICES ASSUME IInv, [Next]_vars
             PROVE  IInv'
  OBVIOUS
<1>1. CASE Crash
  BY <1>1, Ending DEF Crash, IInv, TypeOK
<1>2. CASE UNCHANGED vars
  BY <1>2
     DEF vars, plane, manager, outside, IInv, TypeOK, Mutex, Inside, Shape, Knows, DownIsEmpty,
         Agreement, Process, ManagedRunning
<1> QED
  BY <1>1, <1>2, HandlerEnters, GoroutineSteps, ChildSteps, ForeignSteps, Restarting
     DEF Next, Moves, Threads

-----------------------------------------------------------------------------
(* Where a goroutine's steps lead.                                         *)

\* startSafeProxy returns to setProxyAutoStart only without an error.
LEMMA StartLeads ==
    ASSUME IInv, NEW t \in Threads, NEW ok \in BOOLEAN, StartReturns(t, ok)
    PROVE  req'[t].pc \in {"idle", "lock"} \/ (ok /\ req'[t].pc = "enable")
<1>0. req[t] \in Request /\ req \in [Threads -> Request]
  BY DEF IInv, TypeOK
<1>1. CASE req' = [req EXCEPT ![t] = NoRequest]
  BY <1>0, <1>1, Blank
<1>2. CASE t = Boot /\ ~(ok \/ req[t].left <= 1)
  <2>1. req[t].left - 1 \in 0..Attempts
    BY <1>0, <1>2 DEF Request, Attempts
  <2> DEFINE r == [Enter("boot") EXCEPT !.left = req[t].left - 1]
  <2>2. r.pc = "lock"
    BY <2>1, Booting
  <2>3. req' = [req EXCEPT ![t] = r]
    BY <1>2 DEF StartReturns
  <2> HIDE DEF r
  <2> QED
    BY <1>0, <2>2, <2>3
<1>3. CASE t # Boot /\ ok
  <2> DEFINE r == [Enter("start") EXCEPT !.pc = "enable", !.saw = child.n]
  <2>1. r.pc = "enable"
    BY Enabling DEF IInv, TypeOK, Child
  <2>2. req' = [req EXCEPT ![t] = r]
    BY <1>3 DEF StartReturns
  <2> HIDE DEF r
  <2> QED
    BY <1>0, <1>3, <2>1, <2>2
<1> QED
  BY <1>1, <1>2, <1>3 DEF StartReturns

\* StopAndWait is followed by what its caller does next only without an error.
LEMMA StopLeads ==
    ASSUME IInv, NEW t \in Threads, NEW ok \in BOOLEAN, req[t].pc \in StopSteps,
           StopReturns(t, ok)
    PROVE  \/ req'[t].pc \in {"idle", "lock", "install"}
           \/ ok /\ req'[t].pc = "disable" /\ req[t].then = "disable" /\ child' = child
<1>0. /\ req \in [Threads -> Request] /\ req[t] \in Request /\ Shape(req[t])
  BY DEF IInv, TypeOK
<1>1. CASE req[t].then = "exit"
  BY <1>0, <1>1, Blank DEF StopReturns, Dies
<1>2. CASE req[t].then # "exit"
  <2> DEFINE good == ok /\ ~req[t].failing
  <2>1. /\ req[t].then \in {"install", "rollback", "disable"}
        /\ req[t].then = "disable" => req[t].op = "stop"
        /\ req[t].then # "disable" => req[t].op \in {"start", "boot"}
        /\ req[t].then = "rollback" => req[t].failing
    BY <1>0, <1>2 DEF Shape
  <2>2. CASE good
    <3>1. Goto(t, req[t].then) /\ child' = child
      BY <1>2, <2>1, <2>2 DEF StopReturns
    <3>2. req'[t].pc = req[t].then
      BY <1>0, <3>1 DEF Goto, Request
    <3> QED
      BY <2>1, <2>2, <3>1, <3>2
  <2>3. CASE ~good /\ req[t].op \in {"start", "boot"}
    <3>1. StartReturns(t, FALSE)
      BY <1>2, <2>3 DEF StopReturns
    <3> QED
      BY <3>1, StartLeads
  <2>4. CASE ~good /\ req[t].op = "stop"
    <3>1. Return(t)
      BY <1>2, <2>4 DEF StopReturns
    <3> QED
      BY <1>0, <3>1, Blank DEF Return
  <2> QED
    BY <2>1, <2>2, <2>3, <2>4
<1> QED
  BY <1>1, <1>2

\* To the change of the auto-start flag: after a start that found or confirmed
\* a healthy proxy, or after a stop that left nothing behind.
LEMMA StepLeads ==
    ASSUME IInv, NEW t \in Threads, Moves(t), req[t].pc \notin {"enable", "disable"}
    PROVE  \/ req'[t].pc \notin {"enable", "disable"}
           \/ req'[t].pc = "enable"
                /\ ((CheckHealth(t) /\ Healthy) \/ MarkProxyReadinessConfirmed(t))
           \/ req'[t].pc = "disable" /\ ~ManagedRunning' /\ ~journalOpen'
<1>0. /\ req \in [Threads -> Request] /\ req[t] \in Request /\ Shape(req[t]) /\ Knows(req[t])
  BY DEF IInv, TypeOK
<1>1. ASSUME NEW s, Goto(t, s) PROVE req'[t].pc = s
  BY <1>0, <1>1 DEF Goto, Request
<1>2. ASSUME Return(t) \/ req' = [req EXCEPT ![t] = NoRequest] PROVE req'[t].pc = "idle"
  BY <1>0, <1>2, Blank DEF Return
<1>3. ASSUME NEW next, StopThen(t, next) PROVE req'[t].pc = "stop"
  BY <1>0, <1>3 DEF StopThen, Request
<1>4. CASE LockLifecycle(t)
  <2>1. req[t].op \in {"start", "boot", "stop", "close", "config"}
    BY <1>0, <1>4 DEF LockLifecycle, At, Shape
  <2> QED
    BY <1>1, <1>3, <1>4, <2>1 DEF LockLifecycle
<1>5. CASE CheckHealth(t)
  <2>1. CASE Healthy
    BY <1>5, <2>1, StartLeads DEF CheckHealth, Healthy
  <2>2. CASE ~Healthy
    BY <1>1, <1>3, <1>5, <2>2 DEF CheckHealth
  <2> QED
    BY <2>1, <2>2
<1>6. CASE InstallVerified(t) \/ StartManaged(t) \/ PollReachable(t) \/ PollAgain(t)
             \/ PollTimesOut(t) \/ PersistConfig(t) \/ SignalProcess(t) \/ DecodeBody(t)
  BY <1>1, <1>2, <1>3, <1>6
     DEF InstallVerified, StartManaged, PollReachable, PollAgain, PollTimesOut, PersistConfig,
         SignalProcess, DecodeBody
<1>7. CASE StartFails(t)
  BY <1>7, StartLeads DEF StartFails
<1>8. CASE MarkProxyReadinessConfirmed(t)
  BY <1>8, StartLeads DEF MarkProxyReadinessConfirmed
<1>9. CASE SaveAutoStart(t)
  <2>1. Return(t) \/ ThenLaunch(t)
    BY <1>9 DEF SaveAutoStart
  <2>2. ThenLaunch(t) => req'[t].pc = "http"
    <3>1. Launch("http", req[t].saw).pc = "http"
      BY <1>0, Launching DEF Request
    <3> QED
      BY <1>0, <3>1 DEF ThenLaunch
  <2> QED
    BY <1>2, <2>1, <2>2
<1>10. CASE ReadSettings(t)
  <2>1. CASE Return(t)
    BY <1>2, <2>1
  <2>2. CASE ~Return(t)
    <3>1. PICK cur : req' = [req EXCEPT ![t].old = settings, ![t].cur = cur,
                         ![t].pc = IF cur.cfg # settings.cfg THEN "update" ELSE "persist"]
      BY <1>10, <2>2 DEF ReadSettings
    <3>2. req'[t].pc = IF cur.cfg # settings.cfg THEN "update" ELSE "persist"
      BY <1>0, <3>1 DEF Request
    <3> QED
      BY <3>2
  <2> QED
    BY <2>1, <2>2
<1>11. CASE UpdateStoppedConfig(t) \/ PersistFails(t) \/ CommitConfig(t) \/ LookReachable(t)
              \/ LookConfirmed(t) \/ LaunchWithProxy(t)
  BY <1>1, <1>2, <1>11
     DEF UpdateStoppedConfig, PersistFails, CommitConfig, LookReachable, LookConfirmed,
         LaunchWithProxy
<1>12. CASE BeginStop(t) \/ StopTimesOut(t) \/ HTTPProxyURL(t) \/ PollManaged(t)
  <2>1. CASE BeginStop(t)
    <3>1. req'[t].pc = "signal"
      BY <1>0, <2>1 DEF BeginStop, Request
    <3> QED
      BY <3>1
  <2>2. CASE StopTimesOut(t)
    BY <1>0, <2>2 DEF StopTimesOut, Request
  <2>3. CASE HTTPProxyURL(t)
    BY <1>0, <2>3 DEF HTTPProxyURL, Request
  <2>4. CASE PollManaged(t)
    BY <1>0, <2>4 DEF PollManaged, Request
  <2> QED
    BY <1>12, <2>1, <2>2, <2>3, <2>4
<1>13. CASE SignalTooLate(t) \/ KillTimesOut(t)
  BY <1>13, StopLeads DEF SignalTooLate, KillTimesOut, At, StopSteps
<1>14. CASE ProcessGone(t)
  <2>1. ~ManagedRunning /\ req[t].pc \in StopSteps /\ UNCHANGED journalOpen
        /\ req[t].hadTunnel = journalOpen
    BY <1>0, <1>14 DEF ProcessGone, At, StopSteps, Knows
  <2>2. CASE req[t].hadTunnel
    BY <1>1, <1>14, <2>2 DEF ProcessGone
  <2>3. CASE ~req[t].hadTunnel
    <3>1. StopReturns(t, TRUE)
      BY <1>14, <2>3 DEF ProcessGone
    <3>2. req'[t].pc \in {"idle", "lock", "install"} \/ (req'[t].pc = "disable" /\ child' = child)
      BY <2>1, <3>1, StopLeads
    <3> QED
      BY <2>1, <2>3, <3>2 DEF ManagedRunning
  <2> QED
    BY <2>2, <2>3
<1>15. CASE FinishTransaction(t)
  <2>1. ~ManagedRunning /\ req[t].pc \in StopSteps
    BY <1>0, <1>15 DEF FinishTransaction, At, StopSteps, Knows
  <2>2. PICK ok \in BOOLEAN : journalOpen' = ~ok /\ StopReturns(t, ok)
    BY <1>15 DEF FinishTransaction
  <2>3. \/ req'[t].pc \in {"idle", "lock", "install"}
        \/ ok /\ req'[t].pc = "disable" /\ child' = child
    BY <2>1, <2>2, StopLeads
  <2> QED
    BY <2>1, <2>2, <2>3 DEF ManagedRunning
<1>16. CASE SetAutoStart(t)
  BY <1>16 DEF SetAutoStart, At
<1> QED
  BY <1>4, <1>5, <1>6, <1>7, <1>8, <1>9, <1>10, <1>11, <1>12, <1>13, <1>14, <1>15, <1>16
     DEF Moves, Step

\* One goroutine's step leaves the others alone, unless it ends the process.
LEMMA OthersWait ==
    ASSUME IInv, NEW t \in Threads, Moves(t), NEW p \in Threads, p # t
    PROVE  req'[p] = req[p] \/ (req'[p] = NoRequest /\ ~up')
<1>0. req \in [Threads -> Request]
  BY DEF IInv, TypeOK
<1>1. ASSUME NEW r, req' = [req EXCEPT ![t] = r] PROVE req'[p] = req[p]
  BY <1>0, <1>1
<1>2. ASSUME NEW ok, StartReturns(t, ok) PROVE req'[p] = req[p]
  BY <1>1, <1>2 DEF StartReturns
<1>3. ASSUME NEW ok \in BOOLEAN, req[t].pc \in StopSteps, StopReturns(t, ok)
      PROVE  req'[p] = req[p] \/ (req'[p] = NoRequest /\ ~up')
  <2>1. CASE req[t].then = "exit"
    BY <1>3, <2>1 DEF StopReturns, Dies
  <2>2. CASE req[t].then # "exit"
    <3>1. /\ req[t].then \in {"install", "rollback", "disable"}
          /\ req[t].then = "disable" => req[t].op = "stop"
          /\ req[t].then # "disable" => req[t].op \in {"start", "boot"}
          /\ req[t].then = "rollback" => req[t].failing
      BY <1>3, <2>2 DEF IInv, Shape
    <3>2. Goto(t, req[t].then) \/ StartReturns(t, FALSE) \/ Return(t)
      BY <1>3, <2>2, <3>1 DEF StopReturns
    <3> QED
      BY <1>1, <1>2, <3>2 DEF Goto, Return
  <2> QED
    BY <2>1, <2>2
<1>4. CASE SignalTooLate(t) \/ ProcessGone(t) \/ KillTimesOut(t) \/ FinishTransaction(t)
  BY <1>1, <1>3, <1>4
     DEF SignalTooLate, ProcessGone, KillTimesOut, FinishTransaction, At, StopSteps, Goto
<1>5. CASE ReadSettings(t)
  BY <1>0, <1>1, <1>5 DEF ReadSettings, Return
<1>6. CASE LockLifecycle(t)
  <2>1. req[t].op \in {"start", "boot", "stop", "close", "config"}
    BY <1>6 DEF LockLifecycle, At, IInv, Shape
  <2> QED
    BY <1>1, <1>6, <2>1 DEF LockLifecycle, Goto, StopThen
<1>7. CASE CheckHealth(t)
  BY <1>1, <1>2, <1>7 DEF CheckHealth, Healthy, Goto, StopThen
<1> QED
  BY <1>1, <1>2, <1>4, <1>5, <1>6, <1>7
     DEF Moves, Step, DecodeBody, InstallVerified, StartManaged, StartFails, PollManaged,
         PollReachable, PollAgain, PollTimesOut, MarkProxyReadinessConfirmed, SetAutoStart,
         SaveAutoStart, UpdateStoppedConfig, PersistConfig, PersistFails, CommitConfig,
         BeginStop, SignalProcess, StopTimesOut, LookReachable, LookConfirmed, HTTPProxyURL,
         LaunchWithProxy, Goto, StopThen, Return, ThenLaunch

\* So a request moves when it is accepted, by its own steps, or when the
\* control plane ends.
LEMMA RequestMoves ==
    ASSUME IInv, [Next]_vars, NEW q \in Requests, req'[q] # req[q]
    PROVE  \/ Moves(q)
           \/ req'[q].pc \in {"lock", "reachable", "idle"} /\ req[q].pc = "idle"
           \/ req'[q].pc = "idle" /\ ~up'
<1>0. q \in Threads /\ q # Boot /\ req \in [Threads -> Request] /\ child.n \in Nat
  BY ControlPlaneAssumption DEF Threads, IInv, TypeOK, Child
<1>1. ASSUME NEW p \in Requests,
             handleStart(p) \/ handleStop(p) \/ handleConfig(p) \/ Close(p) \/ handleLaunch(p)
      PROVE  req'[q].pc \in {"lock", "reachable", "idle"} /\ req[q].pc = "idle"
  <2>1. PICK r : Accept(p, r) /\ r.pc \in {"lock", "reachable", "idle"}
    <3>1. \A op \in {"start", "stop", "config", "close"} : Enter(op).pc = "lock"
      BY Entering
    <3>2. Launch("reachable", child.n).pc = "reachable" /\ NoRequest.pc = "idle"
      BY <1>0, Launching, Blank
    <3> QED
      BY <1>1, <3>1, <3>2 DEF handleStart, handleStop, handleConfig, Close, handleLaunch
  <2> QED
    BY <1>0, <2>1 DEF Accept, Threads
<1>2. ASSUME NEW t \in Threads, Moves(t)
      PROVE  Moves(q) \/ (req'[q].pc = "idle" /\ ~up')
  <2>1. CASE t = q
    BY <1>2, <2>1
  <2>2. CASE t # q
    <3>1. req'[q] = req[q] \/ (req'[q] = NoRequest /\ ~up')
      BY <1>0, <1>2, <2>2, OthersWait
    <3> QED
      BY <3>1, Blank
  <2> QED
    BY <2>1, <2>2
<1>3. CASE Crash
  BY <1>0, <1>3, Blank DEF Crash, Dies
<1>4. CASE Restart
  BY <1>0, <1>4 DEF Restart
<1> QED
  BY <1>1, <1>2, <1>3, <1>4
     DEF Next, Moves, Threads, vars, ChildListens, ChildExits, WaiterClears, ForeignListener

-----------------------------------------------------------------------------
(* The theorems, for every set of requests and all faults.                 *)

\* The invariant, whatever the handlers, the managed process and the
\* environment do.
THEOREM ControlPlaneInvariance == Spec => []IInv
  BY Initial, Preserved, PTL DEF Spec

\* UpdateStoppedConfig never changes the configuration under a process.
THEOREM ProcessHasItsConfig == Spec => []RunningMatchesConfig
<1>1. IInv => RunningMatchesConfig
  BY DEF IInv, Process, RunningMatchesConfig
<1> QED
  BY <1>1, ControlPlaneInvariance, PTL

\* A configuration transaction of handleConfig is one: settings and manager
\* change together or not at all, whatever else runs and whatever fails.
THEOREM ConfigurationIsAtomic == Spec => []SettingsMatchManager
<1>1. IInv => SettingsMatchManager
  <2> SUFFICES ASSUME IInv, up, lifecycleMu = Free
               PROVE  settings.cfg = cfg
    BY DEF SettingsMatchManager
  <2>1. Free \notin Threads
    BY ControlPlaneAssumption DEF Threads
  <2>2. \A t \in Threads : req[t].pc \notin {"persist", "commit"}
    BY <2>1 DEF IInv, Mutex, Inside
  <2> QED
    BY <2>2 DEF IInv, Agreement
<1> QED
  BY <1>1, ControlPlaneInvariance, PTL

\* startLocked forgets the readiness of the process before it.
THEOREM ReadinessIsOfThisProcess == Spec => []ConfirmationIsCurrent
<1>1. IInv => ConfirmationIsCurrent
  BY DEF IInv, Process, ConfirmationIsCurrent
<1> QED
  BY <1>1, ControlPlaneInvariance, PTL

\* startSafeProxy answers a success only after a poll that found the process last
\* started to be the managed one, and an address that answered since.
THEOREM StartIsProved == Spec => StartProvesThisProcess
<1>1. IInv /\ [Next]_vars =>
        \A t \in Requests :
          req[t].pc # "enable" /\ req'[t].pc = "enable" => confirmed' /\ evidence' = child'.n
  <2> SUFFICES ASSUME IInv, [Next]_vars, NEW q \in Requests,
                      req[q].pc # "enable", req'[q].pc = "enable"
               PROVE  confirmed' /\ evidence' = child'.n
    OBVIOUS
  <2>0. q \in Threads /\ req[q] \in Request
    BY DEF Threads, IInv, TypeOK
  <2>1. Moves(q)
    BY RequestMoves
  <2>2. req[q].pc # "disable"
    <3>1. ASSUME req[q].pc = "disable"
          PROVE  req'[q].pc = "save"
      BY <2>0, <2>1, <3>1
         DEF Moves, Step, DecodeBody, LockLifecycle, CheckHealth, InstallVerified, StartManaged,
             StartFails, PollManaged, PollReachable, PollAgain, PollTimesOut,
             MarkProxyReadinessConfirmed, SetAutoStart, SaveAutoStart, ReadSettings,
             UpdateStoppedConfig, PersistConfig, PersistFails, CommitConfig, BeginStop,
             SignalProcess, SignalTooLate, ProcessGone, StopTimesOut, KillTimesOut,
             FinishTransaction, LookReachable, LookConfirmed, HTTPProxyURL, LaunchWithProxy, At,
             IInv, TypeOK, Request
    <3> QED
      BY <3>1
  <2>3. (CheckHealth(q) /\ Healthy) \/ MarkProxyReadinessConfirmed(q)
    BY <2>0, <2>1, <2>2, StepLeads
  <2>4. CASE CheckHealth(q) /\ Healthy
    BY <2>4 DEF CheckHealth, Healthy, IInv, Process, manager
  <2>5. CASE MarkProxyReadinessConfirmed(q)
    BY <2>0, <2>5 DEF MarkProxyReadinessConfirmed, At, IInv, Knows
  <2> QED
    BY <2>3, <2>4, <2>5
<1> QED
  BY <1>1, ControlPlaneInvariance, PTL DEF Spec, StartProvesThisProcess

\* StopAndWait goes on to switch auto-start off only when there is no process
\* and no open transaction.
THEOREM StopIsThorough == Spec => StopReleasesEverything
<1>1. IInv /\ [Next]_vars =>
        \A t \in Requests :
          req'[t].pc = "disable" /\ req[t].pc # "disable" => ~ManagedRunning' /\ ~journalOpen'
  <2> SUFFICES ASSUME IInv, [Next]_vars, NEW q \in Requests,
                      req'[q].pc = "disable", req[q].pc # "disable"
               PROVE  ~ManagedRunning' /\ ~journalOpen'
    OBVIOUS
  <2>0. q \in Threads /\ req[q] \in Request
    BY DEF Threads, IInv, TypeOK
  <2>1. Moves(q)
    BY RequestMoves
  <2>2. req[q].pc # "enable"
    BY <2>0, <2>1
       DEF Moves, Step, DecodeBody, LockLifecycle, CheckHealth, InstallVerified, StartManaged,
           StartFails, PollManaged, PollReachable, PollAgain, PollTimesOut,
           MarkProxyReadinessConfirmed, SetAutoStart, SaveAutoStart, ReadSettings,
           UpdateStoppedConfig, PersistConfig, PersistFails, CommitConfig, BeginStop,
           SignalProcess, SignalTooLate, ProcessGone, StopTimesOut, KillTimesOut,
           FinishTransaction, LookReachable, LookConfirmed, HTTPProxyURL, LaunchWithProxy, At,
           IInv, TypeOK, Request
  <2> QED
    BY <2>0, <2>1, <2>2, StepLeads
<1> QED
  BY <1>1, ControlPlaneInvariance, PTL DEF Spec, StopReleasesEverything

\* A launch that finds the process of its handler still running gives Antigravity
\* the address that process listens on.
THEOREM LaunchUsesTheCheckedProxy == Spec => LaunchedThroughCheckedProxy
<1>1. IInv /\ [Next]_vars =>
        \A t \in Requests :
          /\ req[t].pc = "launch" /\ req'[t].pc = "idle" /\ up'
          /\ ManagedRunning /\ child.n = req[t].saw
          => req[t].http = child.cfg /\ cfg = child.cfg
  BY DEF IInv, Process, Knows, Threads
<1> QED
  BY <1>1, ControlPlaneInvariance, PTL DEF Spec, LaunchedThroughCheckedProxy

-----------------------------------------------------------------------------
(* One request at a time.                                                  *)

OneRequest == \A p, q \in Requests : p = q

\* The goroutine that the settings are being changed by.
Changing(q) == req[q].pc \in {"enable", "save", "commit"}

\* The record of a request that changes the settings agrees with them.
Pending ==
    \A q \in Requests :
        /\ req[q].pc \in {"update", "persist", "commit"} => req[q].old = settings
        /\ req[q].pc = "commit" => file = req[q].cur
        /\ req[q].pc = "enable" => last = "start"
        /\ req[q].pc = "save" =>
             /\ settings = req[q].cur /\ last = req[q].op
             /\ settings.auto = (req[q].op = "start")

FileFollows ==
    up /\ (\A q \in Requests : req[q].pc # "commit") => file.cfg = settings.cfg

FlagFollows ==
    last # "none" =>
        /\ (\A q \in Requests : ~Changing(q)) => file.auto = settings.auto
        /\ (\A q \in Requests : req[q].pc # "enable") => settings.auto = (last = "start")

\* autoStartProxy never gets to the settings.
BootOnlyStarts ==
    /\ req[Boot].op \in {"none", "boot"}
    /\ req[Boot].pc \in {"idle", "lock"} \cup StartSteps \cup StopSteps

SInv == Pending /\ FileFollows /\ FlagFollows /\ BootOnlyStarts

\* The control plane starts with its settings in the file.
LEMMA InitialSerial == Init => SInv
<1> SUFFICES ASSUME Init
             PROVE  SInv
  OBVIOUS
<1>1. \A q \in Requests : req[q].pc = "idle"
  BY Blank, ControlPlaneAssumption DEF Init, Threads
<1>2. /\ req[Boot] = AutoStart(settings.auto)
  BY DEF Init, Threads
<1>3. BootOnlyStarts
  BY <1>2, Blank, Booting DEF BootOnlyStarts, AutoStart, Attempts
<1> QED
  BY <1>1, <1>3 DEF Init, SInv, Pending, FileFollows, FlagFollows

\* Neither the settings nor the file change, and no request comes to a step
\* that changes them or leaves one.
LEMMA Bystander ==
    ASSUME SInv, UNCHANGED <<settings, file, last>>, up' => up,
           \A q \in Requests :
             /\ req'[q].pc \in {"update", "persist"} => req'[q].old = settings
             /\ {req[q].pc, req'[q].pc} \cap {"enable", "save", "commit"} # {}
                  => req'[q] = req[q]
    PROVE  (Pending /\ FileFollows /\ FlagFollows)'
<1>1. ASSUME NEW q \in Requests
      PROVE  /\ req'[q].pc \in {"update", "persist"} => req'[q].old = settings
             /\ req'[q].pc \in {"enable", "save", "commit"} => req'[q] = req[q]
             /\ req[q].pc \in {"enable", "save", "commit"} => req'[q] = req[q]
  OBVIOUS
<1>2. Pending'
  BY <1>1 DEF SInv, Pending
<1>3. FileFollows'
  <2> SUFFICES ASSUME up', \A q \in Requests : req'[q].pc # "commit"
               PROVE  file.cfg = settings.cfg
    BY DEF FileFollows
  <2>1. \A q \in Requests : req[q].pc # "commit"
    BY <1>1
  <2> QED
    BY <2>1 DEF SInv, FileFollows
<1>4. FlagFollows'
  <2> SUFFICES ASSUME last # "none"
               PROVE  /\ (\A q \in Requests : ~Changing(q))' => file.auto = settings.auto
                      /\ (\A q \in Requests : req'[q].pc # "enable")
                           => settings.auto = (last = "start")
    BY DEF FlagFollows
  <2>1. (\A q \in Requests : ~Changing(q))' => \A q \in Requests : ~Changing(q)
    BY <1>1 DEF Changing
  <2>2. (\A q \in Requests : req'[q].pc # "enable") => \A q \in Requests : req[q].pc # "enable"
    BY <1>1
  <2> QED
    BY <2>1, <2>2 DEF SInv, FlagFollows
<1> QED
  BY <1>2, <1>3, <1>4

\* The control plane ends: what a request was about to do is forgotten.
LEMMA EndingSerial ==
    ASSUME IInv, SInv, Dies, UNCHANGED <<settings, file>>
    PROVE  SInv'
<1>0. Boot \in Threads /\ Requests \subseteq Threads
  BY DEF Threads
<1>1. /\ up' = FALSE /\ \A t \in Threads : req'[t] = NoRequest
      /\ last' = IF \E q \in Requests : req[q].pc # "idle" THEN "none" ELSE last
  BY DEF Dies
<1>2. Pending' /\ BootOnlyStarts' /\ FileFollows'
  BY <1>0, <1>1, Blank DEF Pending, BootOnlyStarts, FileFollows
<1>3. FlagFollows'
  <2> SUFFICES ASSUME last' # "none"
               PROVE  file.auto = settings.auto /\ settings.auto = (last' = "start")
    BY DEF FlagFollows
  <2>1. last' = last /\ \A q \in Requests : req[q].pc = "idle"
    BY <1>1
  <2> QED
    BY <2>1 DEF SInv, FlagFollows, Changing
<1> QED
  BY <1>2, <1>3 DEF SInv

\* autoStartProxy's step: it never gets to the settings.
LEMMA BootStep ==
    ASSUME IInv, BootOnlyStarts, Step(Boot)
    PROVE  /\ UNCHANGED <<settings, file, last, up>> /\ BootOnlyStarts'
           /\ \A q \in Requests : req'[q] = req[q]
<1>0. /\ Boot \in Threads /\ req \in [Threads -> Request] /\ req[Boot] \in Request
      /\ Shape(req[Boot]) /\ Boot \notin Requests /\ Requests \subseteq Threads
  BY ControlPlaneAssumption DEF Threads, IInv, TypeOK
<1> DEFINE Good == /\ req'[Boot].op \in {"none", "boot"}
                   /\ req'[Boot].pc \in {"idle", "lock"} \cup StartSteps \cup StopSteps
<1>1. ASSUME NEW s \in StartSteps \cup StopSteps, Goto(Boot, s)
      PROVE  Good
  <2>1. req'[Boot].pc = s /\ req'[Boot].op = req[Boot].op
    BY <1>0, <1>1 DEF Goto, Request
  <2> QED
    BY <2>1 DEF BootOnlyStarts
<1>2. ASSUME NEW next, StopThen(Boot, next)
      PROVE  Good
  <2>1. req'[Boot].pc = "stop" /\ req'[Boot].op = req[Boot].op
    BY <1>0, <1>2 DEF StopThen, Request
  <2> QED
    BY <2>1 DEF BootOnlyStarts, StopSteps
<1>3. ASSUME NEW ok \in BOOLEAN, StartReturns(Boot, ok)
      PROVE  Good
  <2>1. CASE req' = [req EXCEPT ![Boot] = NoRequest]
    BY <1>0, <2>1, Blank
  <2>2. CASE ~(ok \/ req[Boot].left <= 1)
    <3> DEFINE r == [Enter("boot") EXCEPT !.left = req[Boot].left - 1]
    <3>1. req[Boot].left - 1 \in 0..Attempts
      BY <1>0, <2>2 DEF Request, Attempts
    <3>2. r.pc = "lock" /\ r.op = "boot"
      BY <3>1, Booting
    <3>3. req' = [req EXCEPT ![Boot] = r]
      BY <1>3, <2>2 DEF StartReturns
    <3> HIDE DEF r
    <3> QED
      BY <1>0, <3>2, <3>3
  <2> QED
    BY <1>3, <2>1, <2>2 DEF StartReturns
<1>4. ASSUME NEW ok \in BOOLEAN, req[Boot].pc \in StopSteps, StopReturns(Boot, ok)
      PROVE  Good /\ UNCHANGED <<up, last>>
  <2>1. /\ req[Boot].op = "boot" /\ req[Boot].then \in {"install", "rollback"}
        /\ req[Boot].then = "rollback" => req[Boot].failing
    BY <1>0, <1>4 DEF BootOnlyStarts, Shape
  <2>2. \/ Goto(Boot, "install") \/ StartReturns(Boot, FALSE)
    BY <1>4, <2>1 DEF StopReturns
  <2> QED
    BY <1>1, <1>3, <1>4, <2>1, <2>2 DEF StopReturns, StartSteps
<1>5. req[Boot].pc \in {"idle", "lock"} \cup StartSteps \cup StopSteps
  BY DEF BootOnlyStarts
<1>6. Good /\ UNCHANGED <<settings, file, last, up>>
  <2>1. CASE LockLifecycle(Boot)
    <3>1. req[Boot].op = "boot"
      BY <1>0, <2>1 DEF LockLifecycle, At, Shape, BootOnlyStarts
    <3>2. Goto(Boot, "check")
      BY <2>1, <3>1 DEF LockLifecycle
    <3> QED
      BY <1>1, <2>1, <3>2 DEF LockLifecycle, plane, outside, StartSteps
  <2>2. CASE CheckHealth(Boot)
    <3>1. StartReturns(Boot, TRUE) \/ StopThen(Boot, "install") \/ Goto(Boot, "install")
      BY <2>2 DEF CheckHealth, Healthy
    <3>2. Good
      BY <1>1, <1>2, <1>3, <3>1 DEF StartSteps
    <3>3. UNCHANGED <<settings, file, last, up>>
      BY <2>2 DEF CheckHealth, Healthy, plane, outside
    <3> QED
      BY <3>2, <3>3
  <2>3. CASE InstallVerified(Boot) \/ StartManaged(Boot) \/ PollReachable(Boot)
               \/ PollAgain(Boot)
    BY <1>1, <2>3
       DEF InstallVerified, StartManaged, PollReachable, PollAgain, plane, outside, StartSteps
  <2>4. CASE StartFails(Boot)
    BY <1>3, <2>4 DEF StartFails, plane, outside
  <2>5. CASE PollTimesOut(Boot)
    BY <1>2, <2>5 DEF PollTimesOut, plane, outside
  <2>6. CASE MarkProxyReadinessConfirmed(Boot)
    BY <1>3, <2>6 DEF MarkProxyReadinessConfirmed, plane, outside
  <2>7. CASE BeginStop(Boot)
    <3>1. req'[Boot].pc = "signal" /\ req'[Boot].op = req[Boot].op
      BY <1>0, <2>7 DEF BeginStop, Request
    <3> QED
      BY <2>7, <3>1 DEF BeginStop, BootOnlyStarts, plane, outside, StopSteps
  <2>8. CASE StopTimesOut(Boot)
    <3>1. req'[Boot].pc = "kill" /\ req'[Boot].op = req[Boot].op
      BY <1>0, <2>8 DEF StopTimesOut, Request
    <3> QED
      BY <2>8, <3>1 DEF StopTimesOut, BootOnlyStarts, plane, outside, StopSteps
  <2>9. CASE SignalProcess(Boot)
    BY <1>1, <2>9 DEF SignalProcess, plane, outside, StopSteps
  <2>10. CASE SignalTooLate(Boot) \/ KillTimesOut(Boot)
    BY <1>4, <2>10 DEF SignalTooLate, KillTimesOut, At, plane, StopSteps
  <2>11. CASE ProcessGone(Boot)
    <3>1. CASE req[Boot].hadTunnel
      BY <1>1, <2>11, <3>1 DEF ProcessGone, plane, StopSteps
    <3>2. CASE ~req[Boot].hadTunnel
      BY <1>4, <2>11, <3>2 DEF ProcessGone, At, plane, StopSteps
    <3> QED
      BY <3>1, <3>2
  <2>12. CASE FinishTransaction(Boot)
    <3>1. PICK ok \in BOOLEAN : StopReturns(Boot, ok)
      BY <2>12 DEF FinishTransaction
    <3> QED
      BY <1>4, <2>12, <3>1 DEF FinishTransaction, At, plane, StopSteps
  <2>13. CASE PollManaged(Boot)
    <3>1. req'[Boot].pc = "dial" /\ req'[Boot].op = req[Boot].op
      BY <1>0, <2>13 DEF PollManaged, Request
    <3> QED
      BY <2>13, <3>1 DEF PollManaged, BootOnlyStarts, plane, outside, StartSteps
  <2> QED
    BY <1>5, <2>1, <2>2, <2>3, <2>4, <2>5, <2>6, <2>7, <2>8, <2>9, <2>10, <2>11, <2>12, <2>13
       DEF Step, SetAutoStart, SaveAutoStart, ReadSettings, UpdateStoppedConfig, PersistConfig,
           PersistFails, CommitConfig, LookReachable, LookConfirmed, HTTPProxyURL,
           LaunchWithProxy, At, StartSteps, StopSteps
<1>7. up
  BY DEF Step, LockLifecycle, CheckHealth, InstallVerified, StartManaged, StartFails,
         PollManaged, PollReachable, PollAgain, PollTimesOut, MarkProxyReadinessConfirmed,
         SetAutoStart, SaveAutoStart, ReadSettings, UpdateStoppedConfig, PersistConfig,
         PersistFails, CommitConfig, BeginStop, SignalProcess, SignalTooLate, ProcessGone,
         StopTimesOut, KillTimesOut, FinishTransaction, LookReachable, LookConfirmed,
         HTTPProxyURL, LaunchWithProxy, At
<1>8. \A q \in Requests : req'[q] = req[q]
  <2> SUFFICES ASSUME NEW q \in Requests
               PROVE  req'[q] = req[q]
    OBVIOUS
  <2>1. q \in Threads /\ q # Boot /\ up'
    BY <1>0, <1>6, <1>7
  <2> QED
    BY <1>0, <2>1, OthersWait DEF Moves
<1> QED
  BY <1>6, <1>8 DEF BootOnlyStarts

\* The steps of a request that change the settings, the file or the flag's record.
Writes(t) ==
    \/ SetAutoStart(t) \/ SaveAutoStart(t) \/ PersistConfig(t) \/ PersistFails(t)
    \/ CommitConfig(t)

\* The other ones end the process, come to the first of these steps with a
\* success, or bring neither any closer.
LEMMA PlainStep ==
    ASSUME IInv, NEW q \in Requests, Moves(q), ~Writes(q),
           req[q].pc \in {"update", "persist", "commit"} => req[q].old = settings
    PROVE  \/ Dies /\ UNCHANGED <<settings, file>>
           \/ /\ UNCHANGED <<settings, file, up>>
              /\ req[q].pc \notin {"enable", "save", "commit"}
              /\ \/ req'[q].pc \notin {"enable", "save", "commit"} /\ last' = last
                 \/ req'[q].pc = "enable" /\ last' = "start"
              /\ req'[q].pc \in {"update", "persist"} => req'[q].old = settings
<1> DEFINE Plain == /\ UNCHANGED <<settings, file, up, last>>
                    /\ req[q].pc \notin {"enable", "save", "commit"}
                    /\ req'[q].pc \notin {"update", "persist", "enable", "save", "commit"}
<1>0. /\ q \in Threads /\ q # Boot /\ req \in [Threads -> Request] /\ req[q] \in Request
      /\ Shape(req[q])
  BY ControlPlaneAssumption DEF Threads, IInv, TypeOK
<1>1. ASSUME NEW s, Goto(q, s) PROVE req'[q].pc = s /\ req'[q].old = req[q].old
  BY <1>0, <1>1 DEF Goto, Request
<1>2. ASSUME Return(q) \/ req' = [req EXCEPT ![q] = NoRequest] PROVE req'[q].pc = "idle"
  BY <1>0, <1>2, Blank DEF Return
<1>3. ASSUME NEW next, StopThen(q, next) PROVE req'[q].pc = "stop"
  BY <1>0, <1>3 DEF StopThen, Request
<1>4. ASSUME StartReturns(q, FALSE) PROVE req'[q].pc = "idle"
  BY <1>0, <1>4, Blank DEF StartReturns
<1>5. ASSUME StartReturns(q, TRUE) PROVE req'[q].pc = "enable"
  <2> DEFINE r == [Enter("start") EXCEPT !.pc = "enable", !.saw = child.n]
  <2>1. r.pc = "enable"
    BY Enabling DEF IInv, TypeOK, Child
  <2>2. req' = [req EXCEPT ![q] = r]
    BY <1>0, <1>5 DEF StartReturns
  <2> HIDE DEF r
  <2> QED
    BY <1>0, <2>1, <2>2
<1>6. ASSUME NEW ok \in BOOLEAN, req[q].pc \in StopSteps, StopReturns(q, ok),
             UNCHANGED <<settings, file>>
      PROVE  Dies \/ Plain
  <2>1. CASE req[q].then = "exit"
    BY <1>6, <2>1 DEF StopReturns
  <2>2. CASE req[q].then # "exit"
    <3>1. UNCHANGED <<up, last>>
      BY <1>6, <2>2 DEF StopReturns
    <3>2. req'[q].pc \in {"idle", "lock", "install", "disable"}
      BY <1>0, <1>6, StopLeads
    <3> QED
      BY <1>6, <3>1, <3>2 DEF StopSteps
  <2> QED
    BY <2>1, <2>2
<1>7. CASE LockLifecycle(q)
  <2>1. req[q].op \in {"start", "boot", "stop", "close", "config"}
    BY <1>0, <1>7 DEF LockLifecycle, At, Shape
  <2>2. req'[q].pc \in {"check", "stop", "decode"}
    BY <1>1, <1>3, <1>7, <2>1 DEF LockLifecycle
  <2> QED
    BY <1>7, <2>2 DEF LockLifecycle, At, plane, outside
<1>8. CASE CheckHealth(q)
  <2>0. UNCHANGED <<settings, file, up>> /\ req[q].pc = "check"
    BY <1>8 DEF CheckHealth, At, plane, outside
  <2>1. CASE Healthy
    <3>1. StartReturns(q, TRUE) /\ last' = "start"
      BY <1>0, <1>8, <2>1 DEF CheckHealth, Healthy
    <3> QED
      BY <1>5, <2>0, <3>1
  <2>2. CASE ~Healthy
    <3>1. req'[q].pc \in {"stop", "install"} /\ last' = last
      BY <1>1, <1>3, <1>8, <2>2 DEF CheckHealth
    <3> QED
      BY <2>0, <3>1
  <2> QED
    BY <2>1, <2>2
<1>9. CASE InstallVerified(q) \/ StartManaged(q) \/ PollReachable(q) \/ PollAgain(q)
             \/ PollTimesOut(q) \/ SignalProcess(q) \/ DecodeBody(q)
  <2>1. req'[q].pc \in {"spawn", "poll", "mark", "stop", "await", "read", "idle"}
    BY <1>1, <1>2, <1>3, <1>9
       DEF InstallVerified, StartManaged, PollReachable, PollAgain, PollTimesOut, SignalProcess,
           DecodeBody
  <2> QED
    BY <1>9, <2>1
       DEF InstallVerified, StartManaged, PollReachable, PollAgain, PollTimesOut, SignalProcess,
           DecodeBody, At, plane, outside
<1>10. CASE StartFails(q)
  BY <1>4, <1>10 DEF StartFails, At, plane, outside
<1>11. CASE MarkProxyReadinessConfirmed(q)
  <2>1. req'[q].pc = "enable" /\ last' = "start"
    BY <1>0, <1>5, <1>11 DEF MarkProxyReadinessConfirmed
  <2> QED
    BY <1>11, <2>1 DEF MarkProxyReadinessConfirmed, At, plane, outside
<1>12. CASE ReadSettings(q)
  <2>0. UNCHANGED <<settings, file, up, last>> /\ req[q].pc = "read"
    BY <1>12 DEF ReadSettings, At, plane, outside
  <2>1. CASE Return(q)
    BY <1>2, <2>0, <2>1
  <2>2. CASE ~Return(q)
    <3>1. PICK cur : req' = [req EXCEPT ![q].old = settings, ![q].cur = cur,
                         ![q].pc = IF cur.cfg # settings.cfg THEN "update" ELSE "persist"]
      BY <1>12, <2>2 DEF ReadSettings
    <3>2. /\ req'[q].pc = IF cur.cfg # settings.cfg THEN "update" ELSE "persist"
          /\ req'[q].old = settings
      BY <1>0, <3>1 DEF Request
    <3> QED
      BY <2>0, <3>2
  <2> QED
    BY <2>1, <2>2
<1>13. CASE UpdateStoppedConfig(q)
  <2>0. UNCHANGED <<settings, file, up, last>> /\ req[q].pc = "update"
    BY <1>13 DEF UpdateStoppedConfig, At, outside
  <2>1. CASE Return(q)
    BY <1>2, <2>0, <2>1
  <2>2. CASE Goto(q, "persist")
    <3>1. req'[q].pc = "persist" /\ req'[q].old = settings
      BY <1>1, <2>0, <2>2
    <3> QED
      BY <2>0, <3>1
  <2> QED
    BY <1>13, <2>1, <2>2 DEF UpdateStoppedConfig
<1>14. CASE LookReachable(q) \/ LookConfirmed(q) \/ LaunchWithProxy(q)
  <2>1. req'[q].pc \in {"idle", "confirmed", "http"}
    BY <1>1, <1>2, <1>14 DEF LookReachable, LookConfirmed, LaunchWithProxy
  <2> QED
    BY <1>14, <2>1 DEF LookReachable, LookConfirmed, LaunchWithProxy, At, plane, outside
<1>15. CASE BeginStop(q) \/ StopTimesOut(q) \/ HTTPProxyURL(q) \/ PollManaged(q)
  <2>1. req'[q].pc \in {"signal", "kill", "launch", "dial"}
    BY <1>0, <1>15 DEF BeginStop, StopTimesOut, HTTPProxyURL, PollManaged, Request
  <2> QED
    BY <1>15, <2>1 DEF BeginStop, StopTimesOut, HTTPProxyURL, PollManaged, At, plane, outside
<1>16. CASE SignalTooLate(q) \/ KillTimesOut(q)
  BY <1>6, <1>16 DEF SignalTooLate, KillTimesOut, At, plane, StopSteps
<1>17. CASE ProcessGone(q)
  <2>1. CASE req[q].hadTunnel
    BY <1>1, <1>17, <2>1 DEF ProcessGone, At, plane
  <2>2. CASE ~req[q].hadTunnel
    BY <1>6, <1>17, <2>2 DEF ProcessGone, At, plane, StopSteps
  <2> QED
    BY <2>1, <2>2
<1>18. CASE FinishTransaction(q)
  <2>1. PICK ok \in BOOLEAN : StopReturns(q, ok)
    BY <1>18 DEF FinishTransaction
  <2> QED
    BY <1>6, <1>18, <2>1 DEF FinishTransaction, At, plane, StopSteps
<1> QED
  BY <1>7, <1>8, <1>9, <1>10, <1>11, <1>12, <1>13, <1>14, <1>15, <1>16, <1>17, <1>18
     DEF Moves, Step, Writes

\* With one request, and a disk that takes every write, the steps that write keep
\* file, flag and settings together.
LEMMA WriteStep ==
    ASSUME OneRequest, {"io", "sync"} \cap Faults = {}, IInv, SInv,
           NEW q \in Requests, Moves(q), Writes(q)
    PROVE  (Pending /\ FileFollows /\ FlagFollows)'
<1>0. /\ q \in Threads /\ req \in [Threads -> Request] /\ req[q] \in Request
      /\ Shape(req[q]) /\ Knows(req[q]) /\ settings \in Settings
      /\ \A p \in Requests : p = q
  BY DEF Threads, IInv, TypeOK, OneRequest
<1>1. CASE SetAutoStart(q)
  <2> DEFINE cur == [settings EXCEPT !.auto = (req[q].op = "start")]
  <2>1. /\ up' = up /\ up /\ settings' = cur /\ file' = file /\ req[q].pc \in {"enable", "disable"}
        /\ req' = [req EXCEPT ![q].pc = "save", ![q].cur = cur]
        /\ last' = IF req[q].pc = "disable" THEN "stop" ELSE last
    BY <1>1 DEF SetAutoStart, At, outside
  <2>2. cur.cfg = settings.cfg /\ cur.auto = (req[q].op = "start")
    BY <1>0 DEF Settings
  <2> HIDE DEF cur
  <2>3. req'[q].pc = "save" /\ req'[q].cur = cur /\ req'[q].op = req[q].op
    BY <1>0, <2>1 DEF Request
  <2>4. last' = req[q].op /\ file.cfg = settings.cfg
    BY <1>0, <2>1 DEF Shape, SInv, Pending, FileFollows
  <2>5. req[q].op \in {"start", "stop"}
    BY <1>0, <2>1 DEF Shape
  <2> QED
    BY <1>0, <2>1, <2>2, <2>3, <2>4, <2>5 DEF Pending, FileFollows, FlagFollows, Changing
<1>2. CASE SaveAutoStart(q)
  <2>1. /\ req[q].pc = "save" /\ file' = req[q].cur /\ UNCHANGED <<settings, last>>
        /\ Return(q) \/ ThenLaunch(q)
    BY <1>2 DEF SaveAutoStart, At
  <2>2. req'[q].pc \in {"idle", "http"}
    <3>1. Launch("http", req[q].saw).pc = "http"
      BY <1>0, Launching DEF Request
    <3> QED
      BY <1>0, <2>1, <3>1, Blank DEF Return, ThenLaunch
  <2>3. /\ settings = req[q].cur /\ last = req[q].op /\ req[q].op \in {"start", "stop"}
        /\ settings.auto = (req[q].op = "start")
    BY <1>0, <2>1 DEF SInv, Pending, Shape
  <2> QED
    BY <1>0, <2>1, <2>2, <2>3 DEF Pending, FileFollows, FlagFollows, Changing
<1>3. CASE PersistConfig(q)
  <2>1. /\ req[q].pc = "persist" /\ file' = req[q].cur /\ UNCHANGED <<settings, last>>
        /\ Goto(q, "commit")
    BY <1>3 DEF PersistConfig, At
  <2>2. req'[q].pc = "commit" /\ req'[q].old = req[q].old /\ req'[q].cur = req[q].cur
    BY <1>0, <2>1 DEF Goto, Request
  <2>3. req[q].old = settings /\ (last # "none" => settings.auto = (last = "start"))
    BY <1>0, <2>1 DEF SInv, Pending, FlagFollows
  <2> QED
    BY <1>0, <2>1, <2>2, <2>3 DEF Pending, FileFollows, FlagFollows, Changing
<1>4. CASE CommitConfig(q)
  <2>1. /\ req[q].pc = "commit" /\ settings' = req[q].cur /\ file' = file
        /\ last' = IF req[q].cur.auto # req[q].old.auto THEN "none" ELSE last
        /\ req' = [req EXCEPT ![q] = NoRequest]
    BY <1>4 DEF CommitConfig, At, Return
  <2>2. req'[q].pc = "idle"
    BY <1>0, <2>1, Blank
  <2>3. /\ req[q].old = settings /\ file = req[q].cur
        /\ last # "none" => settings.auto = (last = "start")
    BY <1>0, <2>1 DEF SInv, Pending, FlagFollows
  <2> QED
    BY <1>0, <2>1, <2>2, <2>3 DEF Pending, FileFollows, FlagFollows, Changing
<1>5. CASE PersistFails(q)
  BY <1>5 DEF PersistFails
<1> QED
  BY <1>1, <1>2, <1>3, <1>4, <1>5 DEF Writes

\* The auto-start goroutine does not move when a request does.
LEMMA BootWaits ==
    ASSUME IInv, BootOnlyStarts, NEW q \in Requests, Moves(q)
    PROVE  BootOnlyStarts'
<1>1. q \in Threads /\ Boot \in Threads /\ q # Boot
  BY ControlPlaneAssumption DEF Threads
<1>2. req'[Boot] = req[Boot] \/ req'[Boot] = NoRequest
  BY <1>1, OthersWait
<1> QED
  BY <1>2, Blank DEF BootOnlyStarts

\* A request's step.
LEMMA RequestStep ==
    ASSUME OneRequest, {"io", "sync"} \cap Faults = {}, IInv, SInv,
           NEW q \in Requests, Moves(q)
    PROVE  SInv'
<1>0. BootOnlyStarts' /\ q \in Threads /\ \A p \in Requests : p = q
  BY BootWaits DEF SInv, OneRequest, Threads
<1>1. CASE Writes(q)
  BY <1>0, <1>1, WriteStep DEF SInv
<1>2. CASE ~Writes(q)
  <2>0. req[q].pc \in {"update", "persist", "commit"} => req[q].old = settings
    BY DEF SInv, Pending
  <2>1. CASE Dies /\ UNCHANGED <<settings, file>>
    BY <2>1, EndingSerial
  <2>2. CASE /\ UNCHANGED <<settings, file, up>>
             /\ req[q].pc \notin {"enable", "save", "commit"}
             /\ req'[q].pc \notin {"enable", "save", "commit"} /\ last' = last
             /\ req'[q].pc \in {"update", "persist"} => req'[q].old = settings
    <3>1. \A p \in Requests :
             /\ req'[p].pc \in {"update", "persist"} => req'[p].old = settings
             /\ {req[p].pc, req'[p].pc} \cap {"enable", "save", "commit"} # {}
                  => req'[p] = req[p]
      BY <1>0, <2>2
    <3>2. (Pending /\ FileFollows /\ FlagFollows)'
      BY <2>2, <3>1, Bystander
    <3> QED
      BY <1>0, <3>2 DEF SInv
  <2>3. CASE /\ UNCHANGED <<settings, file, up>>
             /\ req[q].pc \notin {"enable", "save", "commit"}
             /\ req'[q].pc = "enable" /\ last' = "start"
    BY <1>0, <2>3 DEF SInv, Pending, FileFollows, FlagFollows, Changing
  <2> QED
    BY <1>2, <2>0, <2>1, <2>2, <2>3, PlainStep
<1> QED
  BY <1>1, <1>2

\* The next run starts from the file, and writes back what it makes of it.
LEMMA RestartSerial ==
    ASSUME IInv, SInv, Restart
    PROVE  SInv'
<1>0. /\ file' = settings' /\ last' = last
      /\ \A t \in Threads : req[t] = NoRequest
      /\ req' = [req EXCEPT ![Boot] = AutoStart(file.auto)]
      /\ req \in [Threads -> Request] /\ Boot \in Threads /\ Boot \notin Requests
      /\ Requests \subseteq Threads
  BY ControlPlaneAssumption DEF Restart, IInv, TypeOK, DownIsEmpty, Threads
<1>1. \A q \in Requests : req[q].pc = "idle" /\ req'[q].pc = "idle"
  BY <1>0, Blank
<1>2. BootOnlyStarts'
  <2> DEFINE r == AutoStart(file.auto)
  <2>1. r.op \in {"none", "boot"} /\ r.pc \in {"idle", "lock"}
    BY Blank, Booting DEF AutoStart, Attempts
  <2>2. req'[Boot] = r
    BY <1>0
  <2> HIDE DEF r
  <2> QED
    BY <2>1, <2>2 DEF BootOnlyStarts
<1>3. Pending' /\ FileFollows'
  BY <1>0, <1>1 DEF Pending, FileFollows
<1>4. settings'.auto = file.auto
  <2>1. PICK c : settings' = [file EXCEPT !.cfg = c]
    BY DEF Restart
  <2> QED
    BY <2>1 DEF IInv, TypeOK, Settings
<1>5. FlagFollows'
  BY <1>0, <1>1, <1>4 DEF SInv, FlagFollows, Changing
<1> QED
  BY <1>2, <1>3, <1>5 DEF SInv

\* A request is accepted, or none moves.
LEMMA IdleSerial ==
    ASSUME IInv, SInv,
           \/ \E q \in Requests : handleStart(q) \/ handleStop(q) \/ handleConfig(q) \/ Close(q)
                                  \/ handleLaunch(q)
           \/ ChildListens \/ ChildExits \/ WaiterClears
           \/ \E c \in Configs : ForeignListener(c)
           \/ UNCHANGED vars
    PROVE  SInv'
<1>0. /\ UNCHANGED <<settings, file, last, up>>
      /\ Boot \in Threads /\ Boot \notin Requests /\ Requests \subseteq Threads
      /\ req \in [Threads -> Request] /\ child.n \in Nat
  BY ControlPlaneAssumption
     DEF handleStart, handleStop, handleConfig, Close, handleLaunch, Accept, ChildListens,
         ChildExits, WaiterClears, ForeignListener, vars, plane, outside, Threads, IInv, TypeOK,
         Child
<1>1. \/ req' = req
      \/ \E q \in Requests : \E r : /\ Accept(q, r) /\ r.pc \in {"lock", "reachable", "idle"}
  <2>1. \A op \in {"start", "stop", "config", "close"} : Enter(op).pc = "lock"
    BY Entering
  <2>2. Launch("reachable", child.n).pc = "reachable" /\ NoRequest.pc = "idle"
    BY <1>0, Launching, Blank
  <2> QED
    BY <2>1, <2>2
       DEF handleStart, handleStop, handleConfig, Close, handleLaunch, ChildListens, ChildExits,
           WaiterClears, ForeignListener, vars
<1>2. CASE req' = req
  <2>1. BootOnlyStarts'
    BY <1>2 DEF SInv, BootOnlyStarts
  <2>2. \A q \in Requests : req'[q].pc \in {"update", "persist"} => req'[q].old = settings
    BY <1>2 DEF SInv, Pending
  <2> QED
    BY <1>0, <1>2, <2>1, <2>2, Bystander DEF SInv
<1>3. ASSUME NEW q \in Requests, NEW r, Accept(q, r), r.pc \in {"lock", "reachable", "idle"}
      PROVE  SInv'
  <2>1. /\ req[q].pc = "idle" /\ \A t \in Threads : req'[t] = IF t = q THEN r ELSE req[t]
    BY <1>0, <1>3 DEF Accept
  <2>2. BootOnlyStarts'
    BY <1>0, <2>1 DEF SInv, BootOnlyStarts
  <2>3. \A p \in Requests :
             /\ req'[p].pc \in {"update", "persist"} => req'[p].old = settings
             /\ {req[p].pc, req'[p].pc} \cap {"enable", "save", "commit"} # {}
                  => req'[p] = req[p]
    BY <1>0, <1>3, <2>1 DEF SInv, Pending
  <2> QED
    BY <1>0, <2>2, <2>3, Bystander DEF SInv
<1> QED
  BY <1>1, <1>2, <1>3

\* Every step keeps it.
LEMMA PreservedSerial ==
    ASSUME OneRequest, {"io", "sync"} \cap Faults = {}
    PROVE  IInv /\ SInv /\ [Next]_vars => SInv'
<1> SUFFICES ASSUME IInv, SInv, [Next]_vars
             PROVE  SInv'
  OBVIOUS
<1>1. ASSUME NEW t \in Threads, Step(t)
      PROVE  SInv'
  <2>1. CASE t = Boot
    <3>1. /\ UNCHANGED <<settings, file, last, up>> /\ BootOnlyStarts'
          /\ \A q \in Requests : req'[q] = req[q]
      BY <1>1, <2>1, BootStep DEF SInv
    <3>2. \A q \in Requests : req'[q].pc \in {"update", "persist"} => req'[q].old = settings
      BY <3>1 DEF SInv, Pending
    <3> QED
      BY <3>1, <3>2, Bystander DEF SInv
  <2>2. CASE t \in Requests
    BY <1>1, <2>2, RequestStep DEF Moves
  <2> QED
    BY <2>1, <2>2 DEF Threads
<1>2. CASE Crash
  BY <1>2, EndingSerial DEF Crash, plane
<1>3. ASSUME NEW q \in Requests, DecodeBody(q)
      PROVE  SInv'
  BY <1>3, RequestStep DEF Moves
<1> QED
  BY <1>1, <1>2, <1>3, IdleSerial, RestartSerial DEF Next

-----------------------------------------------------------------------------
(* The theorems, for one request at a time.                                *)

\* The invariant: autoStartProxy may run at any time, the process may end and
\* another take its address, the control plane may crash between two writes.
THEOREM SerialInvariance ==
    ASSUME OneRequest, {"io", "sync"} \cap Faults = {}
    PROVE  Spec => [](IInv /\ SInv)
<1>1. IInv /\ SInv /\ [Next]_vars => SInv'
  BY PreservedSerial
<1>2. Init => SInv
  BY InitialSerial
<1> QED
  BY <1>1, <1>2, ControlPlaneInvariance, PTL DEF Spec

\* handleConfig, and New: whenever nothing is in progress the file holds the
\* configuration that is committed, so the next run starts with what New makes of
\* that one.  A save that fails, before the rename or after it, is excluded.
THEOREM FileIsCommitted ==
    ASSUME OneRequest, {"io", "sync"} \cap Faults = {}
    PROVE  Spec => []FileHoldsCommittedConfig
<1>1. SInv => FileHoldsCommittedConfig
  BY DEF SInv, FileFollows, FileHoldsCommittedConfig, Quiet
<1>2. Spec => [](IInv /\ SInv)
  BY SerialInvariance
<1> QED
  BY <1>1, <1>2, PTL

\* setProxyAutoStart: the flag, in memory and in the file, is what the user's
\* last start or stop made it.
THEOREM FlagIsOfLastOperation ==
    ASSUME OneRequest, {"io", "sync"} \cap Faults = {}
    PROVE  Spec => []AutoStartFollowsLastOperation
<1>1. SInv => AutoStartFollowsLastOperation
  BY DEF SInv, FlagFollows, AutoStartFollowsLastOperation, Quiet, Changing
<1>2. Spec => [](IInv /\ SInv)
  BY SerialInvariance
<1> QED
  BY <1>1, <1>2, PTL
=============================================================================

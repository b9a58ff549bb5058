-------------------------- MODULE KernelIsolation --------------------------
(***************************************************************************)
(* Kernel-hard mode (internal/proxy/kernel_isolation_linux.go and the      *)
(* __linux-hard-launch command): a privileged launcher builds a network    *)
(* namespace, a veth pair, policy routes and an nftables kill switch, runs *)
(* the protected application in them, and removes them when it exits.      *)
(*                                                                         *)
(* Launchers are processes: several may run at once, for one user or for   *)
(* several.  Namespace, veth, kill switch, cgroup and state file belong to *)
(* a user; the policy rule, the route table and the forwarding switches    *)
(* are one for the host.  IPv4 and IPv6 are configured alike and the six   *)
(* forwarding files together: no property tells them apart.  Commands of   *)
(* the cleanup do what they are asked whenever there is something to do.   *)
(***************************************************************************)
EXTENDS Naturals, FiniteSets

CONSTANTS
    Launchers,      \* launcher processes, each run once
    Users,          \* desktop users
    UserOf,         \* whom a launcher was started for
    Nobody,         \* no user's routes
    Faults          \* "crash": launchers are killed; "io": setup commands fail

ASSUME KernelAssumption ==
    /\ UserOf \in [Launchers -> Users]
    /\ Nobody \notin Users
    /\ Faults \subseteq {"crash", "io", "handoff"}

VARIABLES
    pc,             \* where each launcher is
    captured,       \* linuxHardLaunchState.Forward*: forwarding as it was found
    app,            \* the protected application of each launcher
    descendant,     \* is one of the application's descendants alive
    netns, veth, nft, cgroup,   \* the users that have one
    stateFile,      \* the users whose kernel-hard-state.json exists
    rule,           \* the policy rule of priority hardRuleBase exists
    table,          \* whose VPN the table hardTableBase routes to
    forwarding,     \* does the host forward packets
    original,       \* history: forwarding before the first launch
    overlapped,     \* history: has a launch begun before another one ended
    outlived        \* history: the users whose application left descendants behind

owned == <<netns, veth, nft, cgroup>>
shared == <<rule, table, forwarding>>
process == <<app, descendant>>
history == <<original, overlapped, outlived>>
vars == <<pc, captured, process, owned, stateFile, shared, history>>

Setup == {"netns", "ownership", "cgroup", "forwarding", "veth", "rule", "routes",
          "firewall", "state", "handoff"}
Attached == {"join", "start", "run", "leave"}
Cleanup == {"unstate", "nft", "unrule", "flush", "unveth", "unnetns", "restore", "rmcgroup"}
Over == {"idle", "done", "dead"}

TypeOK ==
    /\ pc \in [Launchers -> Setup \cup Attached \cup Cleanup \cup Over]
    /\ captured \in [Launchers -> BOOLEAN]
    /\ app \in [Launchers -> {"none", "running", "exited"}]
    /\ descendant \in [Launchers -> BOOLEAN]
    /\ netns \subseteq Users /\ veth \subseteq Users
    /\ nft \subseteq Users /\ cgroup \subseteq Users /\ stateFile \subseteq Users
    /\ rule \in BOOLEAN /\ table \in Users \cup {Nobody}
    /\ forwarding \in BOOLEAN /\ original \in BOOLEAN /\ overlapped \in BOOLEAN
    /\ outlived \subseteq Users

Init ==
    /\ pc = [l \in Launchers |-> "idle"]
    /\ captured = [l \in Launchers |-> FALSE]
    /\ app = [l \in Launchers |-> "none"]
    /\ descendant = [l \in Launchers |-> FALSE]
    /\ netns = {} /\ veth = {} /\ nft = {} /\ cgroup = {} /\ stateFile = {}
    /\ rule = FALSE /\ table = Nobody
    /\ forwarding \in BOOLEAN /\ original = forwarding /\ overlapped = FALSE
    /\ outlived = {}

Goto(l, step) == pc' = [pc EXCEPT ![l] = step]

\* A setup command fails: hardSetup calls its cleanup.
Refused(l) == Goto(l, "nft") /\ UNCHANGED <<captured, process, owned, stateFile, shared, history>>

\* Somebody runs in the user's cgroup: it cannot be removed.
Populated(u) ==
    \E l \in Launchers :
        UserOf[l] = u /\ (app[l] = "running" \/ descendant[l] \/ pc[l] \in {"start", "run", "leave"})

-----------------------------------------------------------------------------
(* hardSetup, after captureForwarding.                                     *)

RunLinuxHardLaunch(l) ==
    /\ pc[l] = "idle"
    /\ captured' = [captured EXCEPT ![l] = forwarding]
    /\ Goto(l, "netns")
    /\ overlapped' = (overlapped \/ \E k \in Launchers : pc[k] \notin {"idle", "done"})
    /\ UNCHANGED <<process, owned, stateFile, shared, original, outlived>>

\* Mutant: a namespace that exists already is cleaned up like any failure.
BugAddNamespaceCleans(l) ==
    LET u == UserOf[l] IN
    /\ pc[l] = "netns"
    /\ IF u \in netns THEN Goto(l, "nft") /\ UNCHANGED netns
       ELSE netns' = netns \cup {u} /\ Goto(l, "ownership")
    /\ UNCHANGED <<captured, process, veth, nft, cgroup, stateFile, shared, history>>

\* The only failure that leaves without cleaning up: the namespace is another
\* launcher's.
AddNamespace(l) ==
    LET u == UserOf[l] IN
    /\ pc[l] = "netns"
    /\ \/ u \notin netns /\ netns' = netns \cup {u} /\ Goto(l, "ownership")
       \/ (u \in netns \/ "io" \in Faults) /\ Goto(l, "done") /\ UNCHANGED netns
    /\ UNCHANGED <<captured, process, veth, nft, cgroup, stateFile, shared, history>>

\* Mutant: a cgroup that is there already is taken over.
BugOwnershipIgnoresCgroup(l) ==
    /\ pc[l] = "ownership"
    /\ Goto(l, IF UserOf[l] \in veth \cup nft \/ rule THEN "nft" ELSE "cgroup")
    /\ UNCHANGED <<captured, process, owned, stateFile, shared, history>>

\* Mutant: what is in use is refused without undoing the namespace.
BugRefusalKeepsNamespace(l) ==
    /\ pc[l] = "ownership"
    /\ Goto(l, IF UserOf[l] \in veth \cup nft \cup cgroup \/ rule THEN "done" ELSE "cgroup")
    /\ UNCHANGED <<captured, process, owned, stateFile, shared, history>>

hardOwnershipFree(l) ==
    /\ pc[l] = "ownership"
    /\ Goto(l, IF UserOf[l] \in veth \cup nft \cup cgroup \/ rule THEN "nft" ELSE "cgroup")
    /\ UNCHANGED <<captured, process, owned, stateFile, shared, history>>

MakeCgroup(l) ==
    /\ pc[l] = "cgroup"
    /\ cgroup' = cgroup \cup {UserOf[l]} /\ Goto(l, "forwarding")
    /\ UNCHANGED <<captured, process, netns, veth, nft, stateFile, shared, history>>

\* Mutant: what cleanup restores is read only after it was changed.
BugCaptureAfterEnabling(l) ==
    /\ pc[l] = "forwarding"
    /\ forwarding' = TRUE /\ captured' = [captured EXCEPT ![l] = TRUE]
    /\ Goto(l, "veth")
    /\ UNCHANGED <<process, owned, stateFile, rule, table, history>>

EnableForwarding(l) ==
    /\ pc[l] = "forwarding"
    /\ forwarding' = TRUE
    /\ Goto(l, "veth") \/ ("io" \in Faults /\ Goto(l, "nft"))
    /\ UNCHANGED <<captured, process, owned, stateFile, rule, table, history>>

\* link add, its addresses and the routes inside the namespace.
AddVeth(l) ==
    /\ pc[l] = "veth"
    /\ veth' = veth \cup {UserOf[l]}
    /\ \/ UserOf[l] \notin veth /\ Goto(l, "rule")
       \/ (UserOf[l] \in veth \/ "io" \in Faults) /\ Goto(l, "nft")
    /\ UNCHANGED <<captured, process, netns, nft, cgroup, stateFile, shared, history>>

\* The rule is the same for every user, and cannot be added twice.
AddRule(l) ==
    /\ pc[l] = "rule"
    /\ rule' = TRUE
    /\ Goto(l, IF rule THEN "nft" ELSE "routes")
    /\ UNCHANGED <<captured, process, owned, stateFile, table, forwarding, history>>

installHardRoutes(l) ==
    /\ pc[l] = "routes"
    /\ table' = UserOf[l]
    /\ Goto(l, "firewall") \/ ("io" \in Faults /\ Goto(l, "nft"))
    /\ UNCHANGED <<captured, process, owned, stateFile, rule, forwarding, history>>

installHardFirewall(l) ==
    /\ pc[l] = "firewall"
    /\ nft' = nft \cup {UserOf[l]} /\ Goto(l, "state")
    /\ UNCHANGED <<captured, process, netns, veth, cgroup, stateFile, shared, history>>

writeHardState(l) ==
    /\ pc[l] = "state"
    /\ stateFile' = stateFile \cup {UserOf[l]} /\ Goto(l, "handoff")
    /\ UNCHANGED <<captured, process, owned, shared, history>>

\* The state file is given to the user; on failure it stays behind.
HandOffState(l) ==
    /\ pc[l] = "handoff"
    /\ Goto(l, "join") \/ ("handoff" \in Faults /\ Goto(l, "nft"))
    /\ UNCHANGED <<captured, process, owned, stateFile, shared, history>>

SetupFails(l) ==
    /\ "io" \in Faults
    /\ pc[l] \in {"cgroup", "forwarding", "veth", "rule", "routes", "firewall", "state"}
    /\ Refused(l)

-----------------------------------------------------------------------------
(* RunLinuxHardLaunch, after hardSetup.                                    *)

\* The cgroup may have been removed by the end of an earlier cleanup.
moveSelfToCgroup(l) ==
    /\ pc[l] = "join"
    /\ \/ UserOf[l] \in cgroup /\ Goto(l, "start")
       \/ (UserOf[l] \notin cgroup \/ "io" \in Faults) /\ Goto(l, "unstate")
    /\ UNCHANGED <<captured, process, owned, stateFile, shared, history>>

\* The application inherits the launcher's cgroup and enters the namespace; the
\* state file, now with its PID, is written once more.
StartApp(l) ==
    /\ pc[l] = "start"
    /\ \/ /\ app' = [app EXCEPT ![l] = "running"] /\ Goto(l, "run")
          /\ stateFile' = stateFile \cup {UserOf[l]}
       \/ "io" \in Faults /\ Goto(l, "leave") /\ UNCHANGED <<app, stateFile>>
    /\ UNCHANGED <<captured, descendant, owned, shared, history>>

WaitReturns(l) ==
    /\ pc[l] = "run" /\ app[l] = "exited"
    /\ Goto(l, "leave")
    /\ UNCHANGED <<captured, process, owned, stateFile, shared, history>>

\* The deferred call that moves the launcher back to its parent cgroup.
Leave(l) ==
    /\ pc[l] = "leave" /\ Goto(l, "unstate")
    /\ UNCHANGED <<captured, process, owned, stateFile, shared, history>>

\* Mutant: the state file is left to the next launch.
BugRemoveStateForgets(l) ==
    /\ pc[l] = "unstate" /\ Goto(l, "nft")
    /\ UNCHANGED <<captured, process, owned, stateFile, shared, history>>

\* The deferred calls that remove the environment and the state.
RemoveState(l) ==
    /\ pc[l] = "unstate"
    /\ stateFile' = stateFile \ {UserOf[l]} /\ Goto(l, "nft")
    /\ UNCHANGED <<captured, process, owned, shared, history>>

-----------------------------------------------------------------------------
(* hardCleanup, in its order.                                              *)

DeleteFirewall(l) ==
    /\ pc[l] = "nft"
    /\ nft' = nft \ {UserOf[l]} /\ Goto(l, "unrule")
    /\ UNCHANGED <<captured, process, netns, veth, cgroup, stateFile, shared, history>>

DeleteRule(l) ==
    /\ pc[l] = "unrule"
    /\ rule' = FALSE /\ Goto(l, "flush")
    /\ UNCHANGED <<captured, process, owned, stateFile, table, forwarding, history>>

FlushTable(l) ==
    /\ pc[l] = "flush"
    /\ table' = Nobody /\ Goto(l, "unveth")
    /\ UNCHANGED <<captured, process, owned, stateFile, rule, forwarding, history>>

DeleteVeth(l) ==
    /\ pc[l] = "unveth"
    /\ veth' = veth \ {UserOf[l]} /\ Goto(l, "unnetns")
    /\ UNCHANGED <<captured, process, netns, nft, cgroup, stateFile, shared, history>>

DeleteNamespace(l) ==
    /\ pc[l] = "unnetns"
    /\ netns' = netns \ {UserOf[l]} /\ Goto(l, "restore")
    /\ UNCHANGED <<captured, process, veth, nft, cgroup, stateFile, shared, history>>

restoreForwarding(l) ==
    /\ pc[l] = "restore"
    /\ forwarding' = captured[l] /\ Goto(l, "rmcgroup")
    /\ UNCHANGED <<captured, process, owned, stateFile, rule, table, history>>

RemoveCgroup(l) ==
    LET u == UserOf[l] IN
    /\ pc[l] = "rmcgroup"
    /\ cgroup' = IF Populated(u) THEN cgroup ELSE cgroup \ {u}
    /\ Goto(l, "done")
    /\ UNCHANGED <<captured, process, netns, veth, nft, stateFile, shared, history>>

-----------------------------------------------------------------------------
(* The application, and launchers that are killed.                         *)

\* The application exits; descendants it started may stay.
AppExits(l) ==
    /\ app[l] = "running"
    /\ app' = [app EXCEPT ![l] = "exited"]
    /\ \E d \in BOOLEAN :
         /\ descendant' = [descendant EXCEPT ![l] = d]
         /\ outlived' = IF d THEN outlived \cup {UserOf[l]} ELSE outlived
    /\ UNCHANGED <<pc, captured, owned, stateFile, shared, original, overlapped>>

DescendantExits(l) ==
    /\ descendant[l]
    /\ descendant' = [descendant EXCEPT ![l] = FALSE]
    /\ UNCHANGED <<pc, captured, app, owned, stateFile, shared, history>>

\* No deferred call runs, and the application goes on.
Crash(l) ==
    /\ "crash" \in Faults /\ pc[l] \notin Over
    /\ Goto(l, "dead")
    /\ UNCHANGED <<captured, process, owned, stateFile, shared, history>>

Step(l) ==
    \/ RunLinuxHardLaunch(l) \/ AddNamespace(l) \/ hardOwnershipFree(l) \/ MakeCgroup(l)
    \/ EnableForwarding(l) \/ AddVeth(l) \/ AddRule(l) \/ installHardRoutes(l)
    \/ installHardFirewall(l) \/ writeHardState(l) \/ HandOffState(l) \/ SetupFails(l)
    \/ moveSelfToCgroup(l) \/ StartApp(l) \/ WaitReturns(l) \/ Leave(l) \/ RemoveState(l)
    \/ DeleteFirewall(l) \/ DeleteRule(l) \/ FlushTable(l) \/ DeleteVeth(l)
    \/ DeleteNamespace(l) \/ restoreForwarding(l) \/ RemoveCgroup(l)

Next == \E l \in Launchers : Step(l) \/ AppExits(l) \/ DescendantExits(l) \/ Crash(l)

Spec == Init /\ [][Next]_vars
-----------------------------------------------------------------------------
(* Properties.                                                             *)

\* While the protected application runs it is inside its cgroup and namespace,
\* behind the kill switch: nothing another launcher does, of this user or
\* another, and no crash of its own launcher takes them away (KERNEL_ISOLATION
\* invariants 1, 2 and 5).
ApplicationIsConfined ==
    \A l \in Launchers :
        app[l] = "running" => UserOf[l] \in netns \cap veth \cap nft \cap cgroup

\* No application is started next to what survived an earlier launch of the
\* same user, which is out of its namespace's control (hardOwnershipFree).
SurvivorsBlockRelaunch ==
    \A k, l \in Launchers :
        k # l /\ UserOf[k] = UserOf[l] /\ descendant[l] => app[k] # "running"

\* The state file, from which the status reports kernel-hard enforcement,
\* exists only while the kill switch does, crashes included (hardSetup writes
\* it last, the deferred calls remove it first).
StateFileMeansEnforced == stateFile \subseteq nft

\* When every launcher has ended by itself, nothing of any launch is left,
\* although some failed halfway and others removed what the host shares: but the
\* cgroup of a user whose application left descendants behind.  It cannot be
\* removed while they live, nobody removes it later, and hardOwnershipFree
\* refuses that user's launches as long as it exists.
NothingIsLeft ==
    (\A l \in Launchers : pc[l] \in {"idle", "done"})
        => /\ netns = {} /\ veth = {} /\ nft = {} /\ cgroup \subseteq outlived
           /\ ~rule /\ table = Nobody /\ stateFile = {}

\* Launches that do not overlap leave forwarding as they found it.
ForwardingIsRestored ==
    ~overlapped /\ (\A l \in Launchers : pc[l] \in {"idle", "done"}) => forwarding = original

\* The routes of a running application go only by the cleanup of another
\* user's launch: rule and table are one for the host.  No step of its own
\* user's launches, failed, refused or killed, takes them.
RoutesLostOnlyToAnotherUser ==
    [][\A l \in Launchers :
         LET routed == rule /\ table = UserOf[l] IN
         app[l] = "running" /\ pc[l] = "run" /\ routed /\ ~routed'
            => \E k \in Launchers : UserOf[k] # UserOf[l] /\ pc'[k] # pc[k]]_vars
=============================================================================

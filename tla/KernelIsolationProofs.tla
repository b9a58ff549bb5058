----------------------- MODULE KernelIsolationProofs -----------------------
(***************************************************************************)
(* KernelIsolation, proved for any number of launchers and users: the      *)
(* namespace is the lock of its user, and from it the confinement of the   *)
(* application, the refusal to start beside survivors, the truth of the    *)
(* state file, and what launches leave behind.                             *)
(***************************************************************************)
EXTENDS KernelIsolation, TLAPS

-----------------------------------------------------------------------------
(* The inductive invariant.                                                *)

\* From the creation of the namespace to its removal.
Holding ==
    {"ownership", "cgroup", "forwarding", "veth", "rule", "routes", "firewall", "state",
     "handoff", "join", "start", "run", "leave", "unstate", "nft", "unrule", "flush",
     "unveth", "unnetns"}

\* A launcher, or the application of one that was killed, uses the namespace.
Holds(l) == pc[l] \in Holding \/ app[l] = "running"

\* The namespace is there while it is used, and by one launcher of its user.
NamespaceIsLock ==
    /\ \A l \in Launchers : Holds(l) => UserOf[l] \in netns
    /\ \A k, l \in Launchers : Holds(k) /\ Holds(l) /\ UserOf[k] = UserOf[l] => k = l

\* An application runs only under a launcher that waits for it or was killed.
RunningUnderLauncher ==
    \A l \in Launchers :
        /\ app[l] = "running" => pc[l] \in {"run", "dead"}
        /\ pc[l] \in {"idle"} \cup Setup \cup {"join", "start"} => app[l] = "none"
        /\ descendant[l] => app[l] = "exited"

\* What setup has built by the step a launcher is at; the cgroup is there from
\* the moment the launcher is in it until nobody is.
BuiltSoFar ==
    \A l \in Launchers :
        LET u == UserOf[l] IN
        /\ pc[l] \in {"rule", "routes", "firewall", "state", "handoff", "join", "start", "run",
                      "leave", "unstate"} \/ app[l] = "running" => u \in veth
        /\ pc[l] \in {"state", "handoff", "join", "start", "run", "leave", "unstate"}
             \/ app[l] = "running" => u \in nft
        /\ pc[l] \in {"start", "run", "leave"} \/ app[l] = "running" \/ descendant[l] => u \in cgroup

\* Past the check of ownership, no descendant of an earlier launch is alive.
NoSurvivors ==
    \A k, l \in Launchers :
        /\ k # l /\ UserOf[k] = UserOf[l]
        /\ \/ app[k] = "running"
           \/ pc[k] \in {"cgroup", "forwarding", "veth", "rule", "routes", "firewall", "state",
                         "handoff", "join", "start", "run"}
        => ~descendant[l]

\* What is left of a launch belongs to a launcher that has still to remove it,
\* or was killed; what the host shares, to any such launcher.
Unfinished == Holding \cup {"dead"}

LeftToSomeone ==
    /\ \A u \in netns : \E l \in Launchers : UserOf[l] = u /\ pc[l] \in Unfinished
    /\ \A u \in veth : \E l \in Launchers :
         UserOf[l] = u /\ pc[l] \in Unfinished \ {"unnetns"}
    /\ \A u \in nft : \E l \in Launchers :
         UserOf[l] = u /\ pc[l] \in Unfinished \ {"unrule", "flush", "unveth", "unnetns"}
    /\ rule => \E l \in Launchers : pc[l] \in Unfinished \ {"flush", "unveth", "unnetns"}
    /\ table # Nobody => \E l \in Launchers : pc[l] \in Unfinished \ {"unveth", "unnetns"}
    /\ \A u \in cgroup \ outlived : \E l \in Launchers :
         UserOf[l] = u /\ pc[l] \in Unfinished \cup {"restore", "rmcgroup"}
    /\ \A l \in Launchers : descendant[l] => UserOf[l] \in outlived

\* Without overlap one launcher is under way, and it knows how forwarding was.
ForwardingKnown ==
    ~overlapped =>
        /\ \A k, l \in Launchers :
             pc[k] \notin {"idle", "done"} /\ pc[l] \notin {"idle", "done"} => k = l
        /\ \A l \in Launchers :
             /\ pc[l] \notin {"idle", "done", "dead"} => captured[l] = original
             /\ pc[l] \in {"netns", "ownership", "cgroup", "forwarding", "rmcgroup"}
                  => forwarding = original
        /\ (\A l \in Launchers : pc[l] \in {"idle", "done"}) => forwarding = original

IInv ==
    /\ TypeOK /\ NamespaceIsLock /\ RunningUnderLauncher /\ BuiltSoFar /\ NoSurvivors
    /\ LeftToSomeone /\ ForwardingKnown

\* The state file exists only behind the kill switch, from the step that writes
\* it to the one that removes it, if its hand-over never fails.
Announced == {"handoff", "join", "start", "run", "leave", "unstate"}

StateFileHeld ==
    /\ \A l \in Launchers : pc[l] \in Holding \ Announced => UserOf[l] \notin stateFile
    /\ \A u \in stateFile :
         /\ u \in netns \cap nft
         /\ \E l \in Launchers : UserOf[l] = u /\ pc[l] \in Announced \cup {"dead"}

-----------------------------------------------------------------------------
(* The steps of one launcher, and what happens to it.                      *)

\* Every step keeps the types.
LEMMA TypeStep ==
    ASSUME TypeOK, NEW l \in Launchers,
           Step(l) \/ AppExits(l) \/ DescendantExits(l) \/ Crash(l)
    PROVE  TypeOK'
<1> USE KernelAssumption DEF TypeOK, Setup, Attached, Cleanup, Over, Goto, process, owned,
  shared, history
<1>1. CASE RunLinuxHardLaunch(l)
  BY <1>1 DEF RunLinuxHardLaunch
<1>2. CASE AddNamespace(l)
  BY <1>2 DEF AddNamespace
<1>3. CASE hardOwnershipFree(l)
  BY <1>3 DEF hardOwnershipFree
<1>4. CASE MakeCgroup(l)
  BY <1>4 DEF MakeCgroup
<1>5. CASE EnableForwarding(l)
  BY <1>5 DEF EnableForwarding
<1>6. CASE AddVeth(l)
  BY <1>6 DEF AddVeth
<1>7. CASE AddRule(l)
  BY <1>7 DEF AddRule
<1>8. CASE installHardRoutes(l)
  BY <1>8 DEF installHardRoutes
<1>9. CASE installHardFirewall(l)
  BY <1>9 DEF installHardFirewall
<1>10. CASE writeHardState(l)
  BY <1>10 DEF writeHardState
<1>11. CASE HandOffState(l)
  BY <1>11 DEF HandOffState
<1>12. CASE SetupFails(l)
  BY <1>12 DEF SetupFails, Refused
<1>13. CASE moveSelfToCgroup(l)
  BY <1>13 DEF moveSelfToCgroup
<1>14. CASE StartApp(l)
  BY <1>14 DEF StartApp
<1>15. CASE WaitReturns(l)
  BY <1>15 DEF WaitReturns
<1>16. CASE Leave(l)
  BY <1>16 DEF Leave
<1>17. CASE RemoveState(l)
  BY <1>17 DEF RemoveState
<1>18. CASE DeleteFirewall(l)
  BY <1>18 DEF DeleteFirewall
<1>19. CASE DeleteRule(l)
  BY <1>19 DEF DeleteRule
<1>20. CASE FlushTable(l)
  BY <1>20 DEF FlushTable
<1>21. CASE DeleteVeth(l)
  BY <1>21 DEF DeleteVeth
<1>22. CASE DeleteNamespace(l)
  BY <1>22 DEF DeleteNamespace
<1>23. CASE restoreForwarding(l)
  BY <1>23 DEF restoreForwarding
<1>24. CASE RemoveCgroup(l)
  BY <1>24 DEF RemoveCgroup, Populated
<1>25. CASE AppExits(l)
  BY <1>25 DEF AppExits
<1>26. CASE DescendantExits(l)
  BY <1>26 DEF DescendantExits
<1>27. CASE Crash(l)
  BY <1>27 DEF Crash, Over
<1> QED BY <1>1, <1>2, <1>3, <1>4, <1>5, <1>6, <1>7, <1>8, <1>9, <1>10, <1>11, <1>12, <1>13,
  <1>14, <1>15, <1>16, <1>17, <1>18, <1>19, <1>20, <1>21, <1>22, <1>23, <1>24, <1>25, <1>26,
  <1>27 DEF Step

\* A namespace is made only where there is none and removed only by its launcher
\* (AddNamespace, DeleteNamespace): it stays the lock of its user.
LEMMA LockStep ==
    ASSUME IInv, NEW l \in Launchers,
           Step(l) \/ AppExits(l) \/ DescendantExits(l) \/ Crash(l)
    PROVE  NamespaceIsLock' /\ RunningUnderLauncher'
<1> USE KernelAssumption DEF IInv, TypeOK, NamespaceIsLock, RunningUnderLauncher, Holds,
  Holding, Setup, Goto, process, owned, shared, history
<1>1. CASE RunLinuxHardLaunch(l)
  BY <1>1 DEF RunLinuxHardLaunch
<1>2. CASE AddNamespace(l)
  BY <1>2 DEF AddNamespace
<1>3. CASE hardOwnershipFree(l)
  BY <1>3 DEF hardOwnershipFree
<1>4. CASE MakeCgroup(l)
  BY <1>4 DEF MakeCgroup
<1>5. CASE EnableForwarding(l)
  BY <1>5 DEF EnableForwarding
<1>6. CASE AddVeth(l)
  BY <1>6 DEF AddVeth
<1>7. CASE AddRule(l)
  BY <1>7 DEF AddRule
<1>8. CASE installHardRoutes(l)
  BY <1>8 DEF installHardRoutes
<1>9. CASE installHardFirewall(l)
  BY <1>9 DEF installHardFirewall
<1>10. CASE writeHardState(l)
  BY <1>10 DEF writeHardState
<1>11. CASE HandOffState(l)
  BY <1>11 DEF HandOffState
<1>12. CASE SetupFails(l)
  BY <1>12 DEF SetupFails, Refused
<1>13. CASE moveSelfToCgroup(l)
  BY <1>13 DEF moveSelfToCgroup
<1>14. CASE StartApp(l)
  BY <1>14 DEF StartApp
<1>15. CASE WaitReturns(l)
  BY <1>15 DEF WaitReturns
<1>16. CASE Leave(l)
  BY <1>16 DEF Leave
<1>17. CASE RemoveState(l)
  BY <1>17 DEF RemoveState
<1>18. CASE DeleteFirewall(l)
  BY <1>18 DEF DeleteFirewall
<1>19. CASE DeleteRule(l)
  BY <1>19 DEF DeleteRule
<1>20. CASE FlushTable(l)
  BY <1>20 DEF FlushTable
<1>21. CASE DeleteVeth(l)
  BY <1>21 DEF DeleteVeth
<1>22. CASE DeleteNamespace(l)
  BY <1>22 DEF DeleteNamespace
<1>23. CASE restoreForwarding(l)
  BY <1>23 DEF restoreForwarding
<1>24. CASE RemoveCgroup(l)
  BY <1>24 DEF RemoveCgroup, Populated
<1>25. CASE AppExits(l)
  BY <1>25 DEF AppExits
<1>26. CASE DescendantExits(l)
  BY <1>26 DEF DescendantExits
<1>27. CASE Crash(l)
  BY <1>27 DEF Crash, Over
<1> QED BY <1>1, <1>2, <1>3, <1>4, <1>5, <1>6, <1>7, <1>8, <1>9, <1>10, <1>11, <1>12, <1>13,
  <1>14, <1>15, <1>16, <1>17, <1>18, <1>19, <1>20, <1>21, <1>22, <1>23, <1>24, <1>25, <1>26,
  <1>27 DEF Step

\* Nobody else takes away what a launch has built: the cleanups of hardSetup and
\* RunLinuxHardLaunch run under the same lock.
LEMMA BuiltStep ==
    ASSUME IInv, NEW l \in Launchers,
           Step(l) \/ AppExits(l) \/ DescendantExits(l) \/ Crash(l)
    PROVE  BuiltSoFar'
<1> USE KernelAssumption DEF IInv, TypeOK, NamespaceIsLock, RunningUnderLauncher, BuiltSoFar,
  Holds, Holding, Goto, process, owned, shared, history
<1>1. CASE RunLinuxHardLaunch(l)
  BY <1>1 DEF RunLinuxHardLaunch
<1>2. CASE AddNamespace(l)
  BY <1>2 DEF AddNamespace
<1>3. CASE hardOwnershipFree(l)
  BY <1>3 DEF hardOwnershipFree
<1>4. CASE MakeCgroup(l)
  BY <1>4 DEF MakeCgroup
<1>5. CASE EnableForwarding(l)
  BY <1>5 DEF EnableForwarding
<1>6. CASE AddVeth(l)
  BY <1>6 DEF AddVeth
<1>7. CASE AddRule(l)
  BY <1>7 DEF AddRule
<1>8. CASE installHardRoutes(l)
  BY <1>8 DEF installHardRoutes
<1>9. CASE installHardFirewall(l)
  BY <1>9 DEF installHardFirewall
<1>10. CASE writeHardState(l)
  BY <1>10 DEF writeHardState
<1>11. CASE HandOffState(l)
  BY <1>11 DEF HandOffState
<1>12. CASE SetupFails(l)
  BY <1>12 DEF SetupFails, Refused
<1>13. CASE moveSelfToCgroup(l)
  BY <1>13 DEF moveSelfToCgroup
<1>14. CASE StartApp(l)
  BY <1>14 DEF StartApp
<1>15. CASE WaitReturns(l)
  BY <1>15 DEF WaitReturns
<1>16. CASE Leave(l)
  BY <1>16 DEF Leave
<1>17. CASE RemoveState(l)
  BY <1>17 DEF RemoveState
<1>18. CASE DeleteFirewall(l)
  BY <1>18 DEF DeleteFirewall
<1>19. CASE DeleteRule(l)
  BY <1>19 DEF DeleteRule
<1>20. CASE FlushTable(l)
  BY <1>20 DEF FlushTable
<1>21. CASE DeleteVeth(l)
  BY <1>21 DEF DeleteVeth
<1>22. CASE DeleteNamespace(l)
  BY <1>22 DEF DeleteNamespace
<1>23. CASE restoreForwarding(l)
  BY <1>23 DEF restoreForwarding
<1>24. CASE RemoveCgroup(l)
  BY <1>24 DEF RemoveCgroup, Populated
<1>25. CASE AppExits(l)
  BY <1>25 DEF AppExits
<1>26. CASE DescendantExits(l)
  BY <1>26 DEF DescendantExits
<1>27. CASE Crash(l)
  BY <1>27 DEF Crash, Over
<1> QED BY <1>1, <1>2, <1>3, <1>4, <1>5, <1>6, <1>7, <1>8, <1>9, <1>10, <1>11, <1>12, <1>13,
  <1>14, <1>15, <1>16, <1>17, <1>18, <1>19, <1>20, <1>21, <1>22, <1>23, <1>24, <1>25, <1>26,
  <1>27 DEF Step

\* What survives a launch holds the cgroup, and hardOwnershipFree refuses it.
LEMMA SurvivorStep ==
    ASSUME IInv, NEW l \in Launchers,
           Step(l) \/ AppExits(l) \/ DescendantExits(l) \/ Crash(l)
    PROVE  NoSurvivors'
<1> USE KernelAssumption DEF IInv, TypeOK, NamespaceIsLock, RunningUnderLauncher, BuiltSoFar,
  NoSurvivors, Holds, Holding, Goto, process, owned, shared, history
<1>1. CASE RunLinuxHardLaunch(l)
  BY <1>1 DEF RunLinuxHardLaunch
<1>2. CASE AddNamespace(l)
  BY <1>2 DEF AddNamespace
<1>3. CASE hardOwnershipFree(l)
  BY <1>3 DEF hardOwnershipFree
<1>4. CASE MakeCgroup(l)
  BY <1>4 DEF MakeCgroup
<1>5. CASE EnableForwarding(l)
  BY <1>5 DEF EnableForwarding
<1>6. CASE AddVeth(l)
  BY <1>6 DEF AddVeth
<1>7. CASE AddRule(l)
  BY <1>7 DEF AddRule
<1>8. CASE installHardRoutes(l)
  BY <1>8 DEF installHardRoutes
<1>9. CASE installHardFirewall(l)
  BY <1>9 DEF installHardFirewall
<1>10. CASE writeHardState(l)
  BY <1>10 DEF writeHardState
<1>11. CASE HandOffState(l)
  BY <1>11 DEF HandOffState
<1>12. CASE SetupFails(l)
  BY <1>12 DEF SetupFails, Refused
<1>13. CASE moveSelfToCgroup(l)
  BY <1>13 DEF moveSelfToCgroup
<1>14. CASE StartApp(l)
  BY <1>14 DEF StartApp
<1>15. CASE WaitReturns(l)
  BY <1>15 DEF WaitReturns
<1>16. CASE Leave(l)
  BY <1>16 DEF Leave
<1>17. CASE RemoveState(l)
  BY <1>17 DEF RemoveState
<1>18. CASE DeleteFirewall(l)
  BY <1>18 DEF DeleteFirewall
<1>19. CASE DeleteRule(l)
  BY <1>19 DEF DeleteRule
<1>20. CASE FlushTable(l)
  BY <1>20 DEF FlushTable
<1>21. CASE DeleteVeth(l)
  BY <1>21 DEF DeleteVeth
<1>22. CASE DeleteNamespace(l)
  BY <1>22 DEF DeleteNamespace
<1>23. CASE restoreForwarding(l)
  BY <1>23 DEF restoreForwarding
<1>24. CASE RemoveCgroup(l)
  BY <1>24 DEF RemoveCgroup, Populated
<1>25. CASE AppExits(l)
  BY <1>25 DEF AppExits
<1>26. CASE DescendantExits(l)
  BY <1>26 DEF DescendantExits
<1>27. CASE Crash(l)
  BY <1>27 DEF Crash, Over
<1> QED BY <1>1, <1>2, <1>3, <1>4, <1>5, <1>6, <1>7, <1>8, <1>9, <1>10, <1>11, <1>12, <1>13,
  <1>14, <1>15, <1>16, <1>17, <1>18, <1>19, <1>20, <1>21, <1>22, <1>23, <1>24, <1>25, <1>26,
  <1>27 DEF Step

\* hardCleanup reaches its end only past the removal of everything.
LEMMA LeftStep ==
    ASSUME IInv, NEW l \in Launchers,
           Step(l) \/ AppExits(l) \/ DescendantExits(l) \/ Crash(l)
    PROVE  LeftToSomeone'
<1> USE KernelAssumption DEF IInv, TypeOK, RunningUnderLauncher, LeftToSomeone, Unfinished,
  Holding, Goto, process, owned, shared, history
<1>1. CASE RunLinuxHardLaunch(l)
  BY <1>1 DEF RunLinuxHardLaunch
<1>2. CASE AddNamespace(l)
  BY <1>2 DEF AddNamespace
<1>3. CASE hardOwnershipFree(l)
  BY <1>3 DEF hardOwnershipFree
<1>4. CASE MakeCgroup(l)
  BY <1>4 DEF MakeCgroup
<1>5. CASE EnableForwarding(l)
  BY <1>5 DEF EnableForwarding
<1>6. CASE AddVeth(l)
  BY <1>6 DEF AddVeth
<1>7. CASE AddRule(l)
  BY <1>7 DEF AddRule
<1>8. CASE installHardRoutes(l)
  BY <1>8 DEF installHardRoutes
<1>9. CASE installHardFirewall(l)
  BY <1>9 DEF installHardFirewall
<1>10. CASE writeHardState(l)
  BY <1>10 DEF writeHardState
<1>11. CASE HandOffState(l)
  BY <1>11 DEF HandOffState
<1>12. CASE SetupFails(l)
  BY <1>12 DEF SetupFails, Refused
<1>13. CASE moveSelfToCgroup(l)
  BY <1>13 DEF moveSelfToCgroup
<1>14. CASE StartApp(l)
  BY <1>14 DEF StartApp
<1>15. CASE WaitReturns(l)
  BY <1>15 DEF WaitReturns
<1>16. CASE Leave(l)
  BY <1>16 DEF Leave
<1>17. CASE RemoveState(l)
  BY <1>17 DEF RemoveState
<1>18. CASE DeleteFirewall(l)
  BY <1>18 DEF DeleteFirewall
<1>19. CASE DeleteRule(l)
  BY <1>19 DEF DeleteRule
<1>20. CASE FlushTable(l)
  BY <1>20 DEF FlushTable
<1>21. CASE DeleteVeth(l)
  BY <1>21 DEF DeleteVeth
<1>22. CASE DeleteNamespace(l)
  BY <1>22 DEF DeleteNamespace
<1>23. CASE restoreForwarding(l)
  BY <1>23 DEF restoreForwarding
<1>24. CASE RemoveCgroup(l)
  BY <1>24 DEF RemoveCgroup, Populated
<1>25. CASE AppExits(l)
  BY <1>25 DEF AppExits
<1>26. CASE DescendantExits(l)
  BY <1>26 DEF DescendantExits
<1>27. CASE Crash(l)
  BY <1>27 DEF Crash, Over
<1> QED BY <1>1, <1>2, <1>3, <1>4, <1>5, <1>6, <1>7, <1>8, <1>9, <1>10, <1>11, <1>12, <1>13,
  <1>14, <1>15, <1>16, <1>17, <1>18, <1>19, <1>20, <1>21, <1>22, <1>23, <1>24, <1>25, <1>26,
  <1>27 DEF Step

\* captureForwarding and restoreForwarding of a launch without overlap bracket
\* its change of the switches.
LEMMA ForwardingStep ==
    ASSUME IInv, NEW l \in Launchers,
           Step(l) \/ AppExits(l) \/ DescendantExits(l) \/ Crash(l)
    PROVE  ForwardingKnown'
<1> USE KernelAssumption DEF IInv, TypeOK, ForwardingKnown, Goto, process, owned, shared,
  history
<1>1. CASE RunLinuxHardLaunch(l)
  BY <1>1 DEF RunLinuxHardLaunch
<1>2. CASE AddNamespace(l)
  BY <1>2 DEF AddNamespace
<1>3. CASE hardOwnershipFree(l)
  BY <1>3 DEF hardOwnershipFree
<1>4. CASE MakeCgroup(l)
  BY <1>4 DEF MakeCgroup
<1>5. CASE EnableForwarding(l)
  <2>1. SUFFICES ASSUME ~overlapped PROVE ForwardingKnown'
    BY <1>5 DEF EnableForwarding
  <2>2. /\ overlapped' = overlapped /\ original' = original /\ captured' = captured
        /\ \A k \in Launchers \ {l} : pc'[k] = pc[k]
        /\ pc'[l] \in {"veth", "nft"}
    BY <1>5 DEF EnableForwarding
  <2>3. \A k \in Launchers \ {l} : pc[k] \in {"idle", "done"}
    BY <1>5, <2>1 DEF EnableForwarding
  <2>4. captured[l] = original
    BY <1>5, <2>1 DEF EnableForwarding
  <2> QED BY <2>2, <2>3, <2>4
<1>6. CASE AddVeth(l)
  BY <1>6 DEF AddVeth
<1>7. CASE AddRule(l)
  BY <1>7 DEF AddRule
<1>8. CASE installHardRoutes(l)
  BY <1>8 DEF installHardRoutes
<1>9. CASE installHardFirewall(l)
  BY <1>9 DEF installHardFirewall
<1>10. CASE writeHardState(l)
  BY <1>10 DEF writeHardState
<1>11. CASE HandOffState(l)
  BY <1>11 DEF HandOffState
<1>12. CASE SetupFails(l)
  BY <1>12 DEF SetupFails, Refused
<1>13. CASE moveSelfToCgroup(l)
  BY <1>13 DEF moveSelfToCgroup
<1>14. CASE StartApp(l)
  BY <1>14 DEF StartApp
<1>15. CASE WaitReturns(l)
  BY <1>15 DEF WaitReturns
<1>16. CASE Leave(l)
  BY <1>16 DEF Leave
<1>17. CASE RemoveState(l)
  BY <1>17 DEF RemoveState
<1>18. CASE DeleteFirewall(l)
  BY <1>18 DEF DeleteFirewall
<1>19. CASE DeleteRule(l)
  BY <1>19 DEF DeleteRule
<1>20. CASE FlushTable(l)
  BY <1>20 DEF FlushTable
<1>21. CASE DeleteVeth(l)
  BY <1>21 DEF DeleteVeth
<1>22. CASE DeleteNamespace(l)
  BY <1>22 DEF DeleteNamespace
<1>23. CASE restoreForwarding(l)
  BY <1>23 DEF restoreForwarding
<1>24. CASE RemoveCgroup(l)
  BY <1>24 DEF RemoveCgroup, Populated
<1>25. CASE AppExits(l)
  BY <1>25 DEF AppExits
<1>26. CASE DescendantExits(l)
  BY <1>26 DEF DescendantExits
<1>27. CASE Crash(l)
  BY <1>27 DEF Crash, Over
<1> QED BY <1>1, <1>2, <1>3, <1>4, <1>5, <1>6, <1>7, <1>8, <1>9, <1>10, <1>11, <1>12, <1>13,
  <1>14, <1>15, <1>16, <1>17, <1>18, <1>19, <1>20, <1>21, <1>22, <1>23, <1>24, <1>25, <1>26,
  <1>27 DEF Step

\* The state file comes after the kill switch and goes before it (writeHardState,
\* the deferred calls of RunLinuxHardLaunch).
LEMMA StateFileStep ==
    ASSUME "handoff" \notin Faults, IInv, StateFileHeld, NEW l \in Launchers,
           Step(l) \/ AppExits(l) \/ DescendantExits(l) \/ Crash(l)
    PROVE  StateFileHeld'
<1> USE KernelAssumption DEF IInv, TypeOK, NamespaceIsLock, StateFileHeld, BuiltSoFar,
  Announced, Holds, Holding, Goto, process, owned, shared, history
<1>1. CASE RunLinuxHardLaunch(l)
  BY <1>1 DEF RunLinuxHardLaunch
<1>2. CASE AddNamespace(l)
  BY <1>2 DEF AddNamespace
<1>3. CASE hardOwnershipFree(l)
  BY <1>3 DEF hardOwnershipFree
<1>4. CASE MakeCgroup(l)
  BY <1>4 DEF MakeCgroup
<1>5. CASE EnableForwarding(l)
  BY <1>5 DEF EnableForwarding
<1>6. CASE AddVeth(l)
  BY <1>6 DEF AddVeth
<1>7. CASE AddRule(l)
  BY <1>7 DEF AddRule
<1>8. CASE installHardRoutes(l)
  BY <1>8 DEF installHardRoutes
<1>9. CASE installHardFirewall(l)
  BY <1>9 DEF installHardFirewall
<1>10. CASE writeHardState(l)
  BY <1>10 DEF writeHardState
<1>11. CASE HandOffState(l)
  BY <1>11 DEF HandOffState
<1>12. CASE SetupFails(l)
  BY <1>12 DEF SetupFails, Refused
<1>13. CASE moveSelfToCgroup(l)
  BY <1>13 DEF moveSelfToCgroup
<1>14. CASE StartApp(l)
  BY <1>14 DEF StartApp
<1>15. CASE WaitReturns(l)
  BY <1>15 DEF WaitReturns
<1>16. CASE Leave(l)
  BY <1>16 DEF Leave
<1>17. CASE RemoveState(l)
  BY <1>17 DEF RemoveState
<1>18. CASE DeleteFirewall(l)
  BY <1>18 DEF DeleteFirewall
<1>19. CASE DeleteRule(l)
  BY <1>19 DEF DeleteRule
<1>20. CASE FlushTable(l)
  BY <1>20 DEF FlushTable
<1>21. CASE DeleteVeth(l)
  BY <1>21 DEF DeleteVeth
<1>22. CASE DeleteNamespace(l)
  BY <1>22 DEF DeleteNamespace
<1>23. CASE restoreForwarding(l)
  BY <1>23 DEF restoreForwarding
<1>24. CASE RemoveCgroup(l)
  BY <1>24 DEF RemoveCgroup, Populated
<1>25. CASE AppExits(l)
  BY <1>25 DEF AppExits
<1>26. CASE DescendantExits(l)
  BY <1>26 DEF DescendantExits
<1>27. CASE Crash(l)
  BY <1>27 DEF Crash, Over
<1> QED BY <1>1, <1>2, <1>3, <1>4, <1>5, <1>6, <1>7, <1>8, <1>9, <1>10, <1>11, <1>12, <1>13,
  <1>14, <1>15, <1>16, <1>17, <1>18, <1>19, <1>20, <1>21, <1>22, <1>23, <1>24, <1>25, <1>26,
  <1>27 DEF Step

-----------------------------------------------------------------------------
(* The theorems.                                                           *)

\* The inductive invariant: every state of any number of launchers for any
\* users, under every combination of faults.
THEOREM Invariance == Spec => []IInv
<1>1. Init => IInv
  BY KernelAssumption DEF Init, IInv, TypeOK, NamespaceIsLock, RunningUnderLauncher,
     BuiltSoFar, NoSurvivors, LeftToSomeone, ForwardingKnown, Holds, Holding, Setup,
     Attached, Cleanup, Over
<1>2. IInv /\ [Next]_vars => IInv'
  <2>1. ASSUME IInv, NEW l \in Launchers,
               Step(l) \/ AppExits(l) \/ DescendantExits(l) \/ Crash(l)
        PROVE  IInv'
    <3>1. TypeOK'
      BY <2>1, TypeStep DEF IInv
    <3>2. NamespaceIsLock' /\ RunningUnderLauncher' /\ BuiltSoFar' /\ NoSurvivors'
      BY <2>1, LockStep, BuiltStep, SurvivorStep
    <3>3. LeftToSomeone' /\ ForwardingKnown'
      BY <2>1, LeftStep, ForwardingStep
    <3> QED BY <3>1, <3>2, <3>3 DEF IInv
  <2>2. ASSUME IInv, UNCHANGED vars
        PROVE  IInv'
    BY <2>2 DEF vars, process, owned, shared, history, IInv, TypeOK, NamespaceIsLock,
       RunningUnderLauncher, BuiltSoFar, NoSurvivors, LeftToSomeone, ForwardingKnown, Holds
  <2> QED BY <2>1, <2>2 DEF Next
<1> QED BY <1>1, <1>2, PTL DEF Spec

\* The types (all of KernelIsolation's variables).
THEOREM TypeCorrect == Spec => []TypeOK
<1>1. IInv => TypeOK
  BY DEF IInv
<1> QED BY <1>1, Invariance, PTL

\* The protected application never runs outside its namespace, veth, kill switch
\* and cgroup, whoever else launches, fails or is killed.
THEOREM Confinement == Spec => []ApplicationIsConfined
<1>1. IInv => ApplicationIsConfined
  BY DEF IInv, NamespaceIsLock, BuiltSoFar, Holds, ApplicationIsConfined
<1> QED BY <1>1, Invariance, PTL

\* hardOwnershipFree starts no application beside the survivors of an earlier one.
THEOREM Survivors == Spec => []SurvivorsBlockRelaunch
<1>1. IInv => SurvivorsBlockRelaunch
  BY DEF IInv, NoSurvivors, SurvivorsBlockRelaunch
<1> QED BY <1>1, Invariance, PTL

\* restoreForwarding after launches that do not overlap.
THEOREM Forwarding == Spec => []ForwardingIsRestored
<1>1. IInv => ForwardingIsRestored
  BY DEF IInv, ForwardingKnown, ForwardingIsRestored
<1> QED BY <1>1, Invariance, PTL

\* Rule and table go in a cleanup, or when another launch replaces the routes; a
\* launcher of the same user would hold the namespace of the running application.
THEOREM Routes == Spec => RoutesLostOnlyToAnotherUser
<1> DEFINE Routed(l) == rule /\ table = UserOf[l]
           Lost(l) == app[l] = "running" /\ pc[l] = "run" /\ Routed(l) /\ ~Routed(l)'
<1>1. ASSUME IInv, [Next]_vars, NEW l \in Launchers, Lost(l)
      PROVE  \E k \in Launchers : UserOf[k] # UserOf[l] /\ pc'[k] # pc[k]
  <2>1. ~UNCHANGED vars
    BY <1>1 DEF vars, shared
  <2>2. PICK k \in Launchers : Step(k) \/ AppExits(k) \/ DescendantExits(k) \/ Crash(k)
    BY <1>1, <2>1 DEF Next
  <2>3. DeleteRule(k) \/ FlushTable(k) \/ installHardRoutes(k) \/ UNCHANGED <<rule, table>>
                      \/ AddRule(k)
    BY <2>2 DEF Step, RunLinuxHardLaunch, AddNamespace, hardOwnershipFree, MakeCgroup,
       EnableForwarding, AddVeth, installHardFirewall, writeHardState, HandOffState,
       SetupFails, Refused, moveSelfToCgroup, StartApp, WaitReturns, Leave, RemoveState,
       DeleteFirewall, DeleteVeth, DeleteNamespace, restoreForwarding, RemoveCgroup,
       AppExits, DescendantExits, Crash, shared
  <2>4. DeleteRule(k) \/ FlushTable(k) \/ installHardRoutes(k)
    BY <1>1, <2>3 DEF AddRule
  <2>5. Holds(k) /\ Holds(l) /\ k # l /\ pc'[k] # pc[k]
    BY <1>1, <2>4 DEF IInv, TypeOK, DeleteRule, FlushTable, installHardRoutes, Goto, Holds,
       Holding
  <2> QED BY <1>1, <2>5 DEF IInv, NamespaceIsLock
<1>2. IInv /\ [Next]_vars =>
        [\A l \in Launchers :
           LET routed == rule /\ table = UserOf[l] IN
           app[l] = "running" /\ pc[l] = "run" /\ routed /\ ~routed'
              => \E k \in Launchers : UserOf[k] # UserOf[l] /\ pc'[k] # pc[k]]_vars
  BY <1>1
<1> QED BY <1>2, Invariance, PTL DEF Spec, RoutesLostOnlyToAnotherUser

\* Where the hand-over of the state file to the user does not fail, the file is
\* held behind the kill switch; where it fails, hardSetup leaves the file.
THEOREM StateFileInvariance ==
    ASSUME "handoff" \notin Faults
    PROVE  Spec => [](IInv /\ StateFileHeld)
<1>1. Init => StateFileHeld
  BY DEF Init, StateFileHeld, Holding
<1>2. IInv /\ StateFileHeld /\ [Next]_vars => StateFileHeld'
  <2>1. ASSUME IInv, StateFileHeld, NEW l \in Launchers,
               Step(l) \/ AppExits(l) \/ DescendantExits(l) \/ Crash(l)
        PROVE  StateFileHeld'
    BY <2>1, StateFileStep
  <2>2. ASSUME StateFileHeld, UNCHANGED vars
        PROVE  StateFileHeld'
    BY <2>2 DEF vars, owned, StateFileHeld
  <2> QED BY <2>1, <2>2 DEF Next
<1> QED BY <1>1, <1>2, Invariance, PTL DEF Spec

\* The file from which the status reports enforcement is there only while the
\* kill switch is, crashes included.
THEOREM StateFileTruth ==
    ASSUME "handoff" \notin Faults
    PROVE  Spec => []StateFileMeansEnforced
<1>1. StateFileHeld => StateFileMeansEnforced
  BY DEF StateFileHeld, StateFileMeansEnforced
<1> QED BY <1>1, StateFileInvariance, PTL

\* Every launcher that ended by itself has removed what it built, or was refused
\* before it built anything: nothing is left, but the cgroup of a user whose
\* application left descendants behind.
THEOREM Leftovers ==
    ASSUME "handoff" \notin Faults
    PROVE  Spec => []NothingIsLeft
<1>1. IInv /\ StateFileHeld => NothingIsLeft
  BY KernelAssumption DEF IInv, TypeOK, LeftToSomeone, Unfinished, Holding, StateFileHeld,
     Announced, NothingIsLeft
<1> QED BY <1>1, StateFileInvariance, PTL
=============================================================================

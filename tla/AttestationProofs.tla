------------------------- MODULE AttestationProofs -------------------------
(***************************************************************************)
(* Attestation, proved for any number of requests, processes, roots,       *)
(* endpoints and changes of the host, and every combination of faults: an  *)
(* anomaly that lasts as long as a request is in its report unless one of  *)
(* its reads missed it, and evidence from the cache is of the sing-box the *)
(* request found or of a later one.                                        *)
(***************************************************************************)
EXTENDS Attestation, TLAPS, FiniteSetTheorems

-----------------------------------------------------------------------------
(* The inductive invariant.                                                *)

AfterTree == {"routes", "pids", "owners", "config", "pid", "lookup", "check", "observe",
              "store", "classify"}
AfterSnapshot == AfterTree \ {"routes", "pids"}

\* What has lasted is there now.
LastsToNow == \A r \in Requests : lasting[r] \subseteq Anomalies

LeakOf(r, s, p) == <<"leak", <<s, p>>>> \in lasting[r]
SharedBy(r, s, p, q) == <<"shared", <<s, p, q>>>> \in lasting[r]
UnownedIn(r, s) == <<"unowned", s>> \in lasting[r]
UnknownIn(r, p) == <<"unknown", p>> \in lasting[r]

\* The tree that was read has no process that holds a connection nobody in the
\* tree held: who is in it gets no other parent than init, and so no socket of a
\* process outside.
InTree(r) ==
    LET tree == req[r].tree IN
    /\ \A s \in Sources : UnownedIn(r, s) => conn[s].owners \cap tree = {}
    /\ \A p \in tree \ Roots : parent[p] \in tree \cup {Nobody}

Concerns(r, s) ==
    \/ \E p \in Procs : LeakOf(r, s, p)
    \/ \E p, q \in Procs : SharedBy(r, s, p, q)
    \/ UnownedIn(r, s)

\* The row of the snapshot is that of the connection that is still there.
SeenAsIs(r, s) ==
    LET c == req[r].seen[s] IN
    c # Nobody /\ c.process = conn[s].process /\ c.out = conn[s].out

\* The evidence of the connection, once its row is joined, or the row names fewer
\* owners than there are.
Judged(r, s) ==
    LET q == req[r] IN
    \/ q.unclear \/ q.unexpected # {}
    \/ /\ \A p \in q.tree : LeakOf(r, s, p) => q.rows[s] = {}
       /\ \A p, t \in q.tree :
            SharedBy(r, s, p, t) => q.rows[s] # Nobody /\ ~({p, t} \subseteq q.rows[s])
       /\ ~UnownedIn(r, s)

Gathered(r) ==
    LET q == req[r] IN
    /\ q.pc # "idle" => q.state = "none"
    /\ q.tracked => q.pc \in AfterSnapshot
    /\ q.complete => q.pc \in AfterTree /\ InTree(r)
    /\ q.pc = "owners" /\ q.complete =>
         \A s \in q.todo : Concerns(r, s) => SeenAsIs(r, s)
    /\ q.tracked /\ q.complete =>
         \A s \in Sources : (q.pc = "owners" /\ s \in q.todo) \/ Judged(r, s)

\* The key names a sing-box that has started, and evidence was observed
\* through it or a later one.
Keyed(q) ==
    /\ q.pc \in {"pid", "lookup", "check", "observe", "store"} => q.key \in Key
    /\ q.pc \in {"lookup", "check", "observe", "store"} => q.key.pid <= started
    /\ q.pc = "store" => q.egress \in Evidence
    /\ q.pc = "store" /\ q.egress.available => q.egress.through >= q.key.pid

OneAfterAnother == instance \in {0, started}

CacheIsFresh ==
    cache # Nobody /\ cache.value.available => cache.value.through >= cache.key.pid

IInv ==
    /\ TypeOK /\ LastsToNow /\ OneAfterAnother /\ CacheIsFresh
    /\ \A r \in Requests : Gathered(r) /\ Keyed(req[r])

-----------------------------------------------------------------------------
(* The process tree (buildAgentProcessTree).                               *)

\* It is of listed processes, and has the parents of all but the roots; whoever
\* is in the tree of some of the living is in the tree of them all.
LEMMA TreeFacts ==
    ASSUME TypeOK, NEW listed \in SUBSET alive
    PROVE  /\ TreeOf(listed) \subseteq Tree /\ TreeOf(listed) \subseteq Procs
           /\ listed \cap Roots \subseteq TreeOf(listed)
           /\ \A p \in TreeOf(listed) \ Roots : parent[p] \in TreeOf(listed)
<1> DEFINE Family(C, all) == /\ C \subseteq all /\ all \cap Roots \subseteq C
                             /\ \A p \in all : parent[p] \in C => p \in C
           tree == TreeOf(listed)
<1>1. \A p : p \in tree <=> p \in listed /\ \A C : Family(C, listed) => p \in C
  BY DEF TreeOf
<1>2. \A p : p \in Tree <=> p \in alive /\ \A C : Family(C, alive) => p \in C
  BY DEF Tree, TreeOf
<1> HIDE DEF tree
<1>3. tree \subseteq listed /\ tree \subseteq Procs /\ listed \cap Roots \subseteq tree
  BY <1>1 DEF TypeOK
<1>4. ASSUME NEW p \in tree, NEW C, Family(C, alive)
      PROVE  p \in C
  <2>1. Family(C \cap listed, listed)
    BY <1>4
  <2> QED BY <1>1, <1>4, <2>1
<1>5. ASSUME NEW p \in tree \ Roots, parent[p] \notin tree
      PROVE  FALSE
  <2>1. PICK C : /\ Family(C, listed) /\ parent[p] \notin C
    <3>1. CASE parent[p] \in listed
      BY <1>1, <1>5, <3>1
    <3>2. CASE parent[p] \notin listed
      <4>1. Family(listed, listed)
        OBVIOUS
      <4> QED BY <3>2, <4>1
    <3> QED BY <3>1, <3>2
  <2>2. Family(C \ {p}, listed)
    BY <1>3, <1>5, <2>1
  <2> QED BY <1>1, <1>5, <2>2
<1>6. tree \subseteq Tree
  BY <1>2, <1>3, <1>4
<1> QED BY <1>3, <1>5, <1>6 DEF tree

\* What an anomaly says of the host.
LEMMA AnomalyFacts ==
    ASSUME TypeOK, LastsToNow, NEW r \in Requests
    PROVE  /\ \A p \in Procs : UnknownIn(r, p) => p \in Tree \ Known
           /\ \A s \in Sources, p \in Procs : LeakOf(r, s, p) =>
                conn[s] # Nobody /\ p \in Tree \cap conn[s].owners /\ conn[s].out # "vpn-direct"
           /\ \A s \in Sources, p, q \in Procs : SharedBy(r, s, p, q) =>
                conn[s] # Nobody /\ {p, q} \subseteq Tree \cap conn[s].owners /\ p # q
           /\ \A s \in Sources : UnownedIn(r, s) =>
                /\ conn[s] # Nobody /\ conn[s].process \in Looks
                /\ conn[s].owners \cap Tree = {}
<1>1. lasting[r] \subseteq Anomalies
  BY DEF LastsToNow
<1> DEFINE tree == Tree
<1>2. Anomalies = ({"leak"} \X Leaks(tree)) \cup ({"shared"} \X Shared(tree))
                    \cup ({"unowned"} \X Unowned(tree)) \cup ({"unknown"} \X (tree \ Known))
  BY DEF Anomalies
<1> HIDE DEF tree
<1>3. \A p : UnknownIn(r, p) => p \in tree \ Known
  BY <1>1, <1>2 DEF UnknownIn
<1>4. \A s, p : LeakOf(r, s, p) => <<s, p>> \in Leaks(tree)
  BY <1>1, <1>2 DEF LeakOf
<1>5. \A s, p, q : SharedBy(r, s, p, q) => <<s, p, q>> \in Shared(tree)
  BY <1>1, <1>2 DEF SharedBy
<1>6. \A s : UnownedIn(r, s) => s \in Unowned(tree)
  BY <1>1, <1>2 DEF UnownedIn
<1>7. \A s, p : <<s, p>> \in Leaks(tree) =>
        s \in Live /\ p \in tree /\ p \in conn[s].owners /\ conn[s].out # "vpn-direct"
  BY DEF Leaks
<1>8. \A s, p, q : <<s, p, q>> \in Shared(tree) =>
        s \in Live /\ p \in tree /\ q \in tree /\ p # q /\ {p, q} \subseteq conn[s].owners
  BY DEF Shared
<1>9. \A s \in Unowned(tree) :
        conn[s] # Nobody /\ conn[s].process \in Looks /\ conn[s].owners \cap tree = {}
  BY DEF Unowned, Live, Owners
<1> QED BY <1>3, <1>4, <1>5, <1>6, <1>7, <1>8, <1>9 DEF tree, Live

-----------------------------------------------------------------------------
(* Types, action by action.                                                *)

\* A request gets a new record; nothing outside it and the cache changes.
LEMMA Updating ==
    ASSUME TypeOK, NEW r \in Requests, NEW q \in Request, Update(r, q)
    PROVE  /\ req' \in [Requests -> Request] /\ req'[r] = q
           /\ \A t \in Requests \ {r} : req'[t] = req[t]
           /\ UNCHANGED <<alive, parent, conn, instance, started, vpn, changes>>
  BY DEF TypeOK, Update, host, plane

\* The record it gets.
LEMMA Updated ==
    ASSUME TypeOK, NEW r \in Requests, NEW new, Update(r, new)
    PROVE  req'[r] = new
  BY DEF TypeOK, Update

\* What the evidence of a request keeps in most of its steps.
Same(q, n) ==
    /\ n.complete = q.complete /\ n.tree = q.tree /\ n.tracked = q.tracked
    /\ n.unclear = q.unclear /\ n.unexpected = q.unexpected /\ n.rows = q.rows
    /\ n.state = q.state

\* What each step does with the evidence it leaves.
LEMMA Effects ==
    ASSUME TypeOK, NEW r \in Requests
    PROVE  LET q == req[r]
               n == req'[r]
           IN  /\ DiscoverAgentProcessTree(r) =>
                     /\ n.pc = "routes" /\ n.tracked = q.tracked /\ n.state = q.state
                     /\ \/ n.complete /\ \E listed \in SUBSET alive : n.tree = TreeOf(listed)
                        \/ n.complete = q.complete
               /\ AttestAgentRoutes(r) => n.pc = "pids" /\ Same(q, n)
               /\ AttestAgentPIDRoutes(r) =>
                     \/ /\ n.pc = "owners" /\ n.tracked /\ n.seen = conn
                        /\ n.todo = {s \in Sources : conn[s] # Nobody}
                        /\ n.complete = q.complete /\ n.tree = q.tree /\ n.state = q.state
                     \/ n.pc = "classify" /\ Same(q, n)
               /\ JoinDone(r) => n.pc \in {"config", "classify"} /\ Same(q, n)
               /\ ReadConfig(r) => n.pc = "pid" /\ Same(q, n)
               /\ ReadPID(r) => n.pc = "lookup" /\ Same(q, n)
               /\ LookupEvidence(r) => n.pc \in {"check", "classify"} /\ Same(q, n)
               /\ CheckDataPlane(r) => n.pc \in {"observe", "store"} /\ Same(q, n)
               /\ ObserveEgress(r) => n.pc = "store" /\ Same(q, n)
               /\ StoreEvidence(r) => n.pc = "classify" /\ Same(q, n)
               /\ Report(r) => n.pc = "idle" /\ ~n.tracked /\ ~n.complete
<1> DEFINE q == req[r]
<1>0. q \in Request
  BY DEF TypeOK
<1> HIDE DEF q
<1> DEFINE Goes(x) == [q EXCEPT !.pc = x]
           Told(x, e) == [q EXCEPT !.pc = x, !.egress = e]
           Asks(x, k) == [q EXCEPT !.pc = x, !.key = k]
           Routed(x) == [q EXCEPT !.pc = "pids", !.route = x]
           Joined(x) == [q EXCEPT !.seen = NoConnections, !.pc = x]
           Listed(y) == [q EXCEPT !.pc = "routes", !.complete = TRUE, !.tree = y]
           Snapped(z) == [q EXCEPT !.pc = "owners", !.tracked = TRUE, !.seen = conn, !.todo = z]
           Leaves(x, n) == n.pc = x /\ Same(q, n)
           Reads(n, y) == /\ n.pc = "routes" /\ n.tracked = q.tracked /\ n.state = q.state
                          /\ n.complete /\ n.tree = y
           Tracks(n, z) == /\ n.pc = "owners" /\ n.tracked /\ n.seen = conn /\ n.todo = z
                           /\ n.complete = q.complete /\ n.tree = q.tree /\ n.state = q.state
<1>1. \A x, y : /\ Leaves(x, Goes(x)) /\ Leaves(x, Told(x, y)) /\ Leaves(x, Asks(x, y))
                /\ Leaves("pids", Routed(x)) /\ Leaves(x, Joined(x))
  BY <1>0 DEF Request, Same
<1>2. \A y : Reads(Listed(y), y) /\ Tracks(Snapped(y), y)
  BY <1>0 DEF Request
<1>3. DiscoverAgentProcessTree(r) => \/ \E listed \in SUBSET alive : req'[r] = Listed(TreeOf(listed))
                                     \/ req'[r] = Goes("routes")
  BY Updated DEF DiscoverAgentProcessTree, Listings, q
<1>4. AttestAgentRoutes(r) => (\E x : req'[r] = Routed(x)) \/ req'[r] = Goes("pids")
  BY Updated DEF AttestAgentRoutes, q
<1>5. AttestAgentPIDRoutes(r) => \/ req'[r] = Snapped({s \in Sources : conn[s] # Nobody})
                                 \/ req'[r] = Goes("classify")
  BY Updated DEF AttestAgentPIDRoutes, q
<1>6. JoinDone(r) => \E x \in {"config", "classify"} : req'[r] = Joined(x)
  BY Updated DEF JoinDone, q
<1>7. ReadConfig(r) => req'[r] = Asks("pid", [pid |-> 0, vpn |-> vpn])
  BY Updated DEF ReadConfig, q
<1>8. ReadPID(r) => req'[r] = Asks("lookup", [q.key EXCEPT !.pid = instance])
  <2>1. [q EXCEPT !.pc = "lookup", !.key.pid = instance]
          = Asks("lookup", [q.key EXCEPT !.pid = instance])
    BY <1>0 DEF Request
  <2> QED BY <2>1, Updated DEF ReadPID, q
<1>9. LookupEvidence(r) =>
        (\E e : req'[r] = Told("classify", e)) \/ req'[r] = Goes("check")
  BY Updated DEF LookupEvidence, q
<1>10. CheckDataPlane(r) =>
        (\E e : req'[r] = Told("store", e)) \/ req'[r] = Goes("observe")
  BY Updated DEF CheckDataPlane, q
<1>11. ObserveEgress(r) => \E e : req'[r] = Told("store", e)
  BY Updated DEF ObserveEgress, q
<1>12. StoreEvidence(r) => req'[r] = Goes("classify")
  BY Updated DEF StoreEvidence, q
<1>13. Report(r) => req'[r].pc = "idle" /\ ~req'[r].tracked /\ ~req'[r].complete
  BY Updated DEF Report, NoRequest
<1> HIDE DEF Goes, Told, Asks, Routed, Joined, Listed, Snapped, Leaves, Reads, Tracks
<1>14. DiscoverAgentProcessTree(r) =>
         \/ \E listed \in SUBSET alive : Reads(req'[r], TreeOf(listed))
         \/ Leaves("routes", req'[r])
  BY <1>1, <1>2, <1>3
<1>15. AttestAgentPIDRoutes(r) =>
         \/ Tracks(req'[r], {s \in Sources : conn[s] # Nobody})
         \/ Leaves("classify", req'[r])
  BY <1>1, <1>2, <1>5
<1>16. /\ AttestAgentRoutes(r) => Leaves("pids", req'[r])
       /\ JoinDone(r) => \E x \in {"config", "classify"} : Leaves(x, req'[r])
       /\ ReadConfig(r) => Leaves("pid", req'[r])
       /\ ReadPID(r) => Leaves("lookup", req'[r])
  <2>1. AttestAgentRoutes(r) => Leaves("pids", req'[r])
    BY <1>1, <1>4
  <2>2. JoinDone(r) => \E x \in {"config", "classify"} : Leaves(x, req'[r])
    BY <1>1, <1>6
  <2>3. ReadConfig(r) => Leaves("pid", req'[r])
    BY <1>1, <1>7
  <2>4. ReadPID(r) => Leaves("lookup", req'[r])
    BY <1>1, <1>8
  <2> QED BY <2>1, <2>2, <2>3, <2>4
<1>17. /\ LookupEvidence(r) => \E x \in {"check", "classify"} : Leaves(x, req'[r])
       /\ CheckDataPlane(r) => \E x \in {"observe", "store"} : Leaves(x, req'[r])
       /\ ObserveEgress(r) => Leaves("store", req'[r])
       /\ StoreEvidence(r) => Leaves("classify", req'[r])
  <2>1. LookupEvidence(r) => \E x \in {"check", "classify"} : Leaves(x, req'[r])
    BY <1>1, <1>9
  <2>2. CheckDataPlane(r) => \E x \in {"observe", "store"} : Leaves(x, req'[r])
    BY <1>1, <1>10
  <2>3. ObserveEgress(r) => Leaves("store", req'[r])
    BY <1>1, <1>11
  <2>4. StoreEvidence(r) => Leaves("classify", req'[r])
    BY <1>1, <1>12
  <2> QED BY <2>1, <2>2, <2>3, <2>4
<1> QED BY <1>13, <1>14, <1>15, <1>16, <1>17 DEF q, Leaves, Reads, Tracks, Same

\* A row is joined with the owners that were found.
Joining(r, s, owners) ==
    LET q == req[r]
        next == [q EXCEPT !.todo = @ \ {s}, !.rows[s] = owners]
    IN  \/ owners = {} /\ Update(r, [next EXCEPT !.unclear = next.unclear \/ q.seen[s].process \in Looks])
        \/ /\ Cardinality(owners) = 1 /\ q.seen[s].out = "vpn-direct"
           /\ Update(r, [next EXCEPT !.active = @ \cup owners, !.direct = @ \cup owners])
        \/ /\ Cardinality(owners) = 1 /\ q.seen[s].out # "vpn-direct"
           /\ Update(r, [next EXCEPT !.active = @ \cup owners, !.unexpected = @ \cup owners])
        \/ Cardinality(owners) > 1 /\ Update(r, [next EXCEPT !.unclear = next.unclear \/ TRUE])

\* JoinConnection, without its guard.
LEMMA JoinIsJoining ==
    ASSUME TypeOK, NEW r \in Requests, NEW s \in Sources, JoinConnection(r, s)
    PROVE  \E owners \in Found(s, req[r].tree) : Joining(r, s, owners)
  BY DEF JoinConnection, Joining

\* What joining does with the evidence (AttestAgentPIDRoutes).
LEMMA JoinEffects ==
    ASSUME TypeOK, NEW r \in Requests, NEW s \in Sources, JoinConnection(r, s)
    PROVE  \E owners \in Found(s, req[r].tree) :
             LET q == req[r]
                 n == req'[r]
             IN  /\ q.pc = "owners" /\ n.pc = "owners" /\ s \in q.todo /\ n.todo = q.todo \ {s}
                 /\ n.complete = q.complete /\ n.tree = q.tree /\ n.tracked = q.tracked
                 /\ n.seen = q.seen /\ n.state = q.state
                 /\ n.rows = [q.rows EXCEPT ![s] = owners]
                 /\ \/ /\ owners = {} /\ n.unexpected = q.unexpected
                       /\ q.seen[s].process \in Looks => n.unclear
                       /\ q.unclear => n.unclear
                    \/ /\ Cardinality(owners) = 1 /\ n.unclear = q.unclear
                       /\ \/ q.seen[s].out = "vpn-direct" /\ n.unexpected = q.unexpected
                          \/ q.seen[s].out # "vpn-direct" /\ n.unexpected = q.unexpected \cup owners
                    \/ Cardinality(owners) > 1 /\ n.unclear
<1>0. PICK owners \in Found(s, req[r].tree) : Joining(r, s, owners)
  BY JoinIsJoining
<1> DEFINE q == req[r]
           look == q.seen[s].process \in Looks
           out == q.seen[s].out
           rows == [q.rows EXCEPT ![s] = owners]
           next == [q EXCEPT !.todo = @ \ {s}, !.rows[s] = owners]
           Unclear(b) == [next EXCEPT !.unclear = next.unclear \/ b]
           Direct == [next EXCEPT !.active = @ \cup owners, !.direct = @ \cup owners]
           Unexpected == [next EXCEPT !.active = @ \cup owners, !.unexpected = @ \cup owners]
           Joins(n) == /\ n.pc = q.pc /\ n.todo = q.todo \ {s} /\ n.seen = q.seen
                       /\ n.complete = q.complete /\ n.tree = q.tree /\ n.tracked = q.tracked
                       /\ n.state = q.state /\ n.rows = rows
<1>1. q.pc = "owners" /\ s \in q.todo
  BY DEF JoinConnection
<1>2. \/ owners = {} /\ req'[r] = Unclear(look)
      \/ Cardinality(owners) = 1 /\ out = "vpn-direct" /\ req'[r] = Direct
      \/ Cardinality(owners) = 1 /\ out # "vpn-direct" /\ req'[r] = Unexpected
      \/ Cardinality(owners) > 1 /\ req'[r] = Unclear(TRUE)
  BY <1>0, Updated DEF Joining
<1>3. q \in Request
  BY DEF TypeOK
<1> HIDE DEF q, look, out
<1>4. next.unclear = q.unclear /\ Joins(next) /\ next.unexpected = q.unexpected
  BY <1>3 DEF Request
<1>5. DOMAIN next = DOMAIN q
  OBVIOUS
<1> HIDE DEF next, rows
<1>6. \A b : Joins(Unclear(b)) /\ (Unclear(b).unclear <=> (q.unclear \/ b))
                /\ Unclear(b).unexpected = q.unexpected
  BY <1>3, <1>4, <1>5 DEF Request
<1>7. Joins(Direct) /\ Direct.unclear = q.unclear /\ Direct.unexpected = q.unexpected
  BY <1>3, <1>4, <1>5 DEF Request
<1>8. /\ Joins(Unexpected) /\ Unexpected.unclear = q.unclear
      /\ Unexpected.unexpected = q.unexpected \cup owners
  BY <1>3, <1>4, <1>5 DEF Request
<1> HIDE DEF Unclear, Direct, Unexpected, Joins
<1>9. /\ Joins(req'[r])
      /\ \/ /\ owners = {} /\ req'[r].unexpected = q.unexpected
            /\ look => req'[r].unclear
            /\ q.unclear => req'[r].unclear
         \/ /\ Cardinality(owners) = 1 /\ req'[r].unclear = q.unclear
            /\ \/ out = "vpn-direct" /\ req'[r].unexpected = q.unexpected
               \/ out # "vpn-direct" /\ req'[r].unexpected = q.unexpected \cup owners
         \/ Cardinality(owners) > 1 /\ req'[r].unclear
  BY <1>2, <1>6, <1>7, <1>8
<1> QED BY <1>1, <1>9 DEF Joins, q, look, out, rows

\* The steps of a request, each by the record it leaves.
LEMMA StepTypes ==
    ASSUME TypeOK, \A t \in Requests : Keyed(req[t]), NEW r \in Requests, Step(r)
    PROVE  \E new \in Request : Update(r, new) /\ UNCHANGED lasting
<1> DEFINE q == req[r]
<1>0. /\ q \in Request /\ Keyed(q) /\ conn \in Tracker /\ instance \in Nat /\ vpn \in VPNs
      /\ cache \in [key : Key, value : Evidence] \cup {Nobody}
  BY DEF TypeOK
<1> HIDE DEF q
<1>1. CASE DiscoverAgentProcessTree(r)
  <2>1. \A listed \in Listings : TreeOf(listed) \subseteq Procs
    BY TreeFacts DEF Listings
  <2>2. \A tree \in SUBSET Procs :
          [q EXCEPT !.pc = "routes", !.complete = TRUE, !.tree = tree] \in Request
    BY <1>0 DEF Request
  <2>3. [q EXCEPT !.pc = "routes"] \in Request
    BY <1>0 DEF Request
  <2> QED BY <1>1, <2>1, <2>2, <2>3 DEF DiscoverAgentProcessTree, q
<1>2. CASE AttestAgentRoutes(r)
  <2>1. \A x \in {"ok", "unexpected"} : [q EXCEPT !.pc = "pids", !.route = x] \in Request
    BY <1>0 DEF Request
  <2>2. [q EXCEPT !.pc = "pids"] \in Request
    BY <1>0 DEF Request
  <2>3. \/ \E x \in {"ok", "unexpected"} : Update(r, [q EXCEPT !.pc = "pids", !.route = x])
        \/ Update(r, [q EXCEPT !.pc = "pids"])
    BY <1>2 DEF AttestAgentRoutes, q
  <2> QED BY <1>2, <2>1, <2>2, <2>3 DEF AttestAgentRoutes
<1>3. CASE AttestAgentPIDRoutes(r)
  <2>1. \A live \in SUBSET Sources :
          [q EXCEPT !.pc = "owners", !.tracked = TRUE, !.seen = conn, !.todo = live] \in Request
    BY <1>0 DEF Request
  <2>2. [q EXCEPT !.pc = "classify"] \in Request
    BY <1>0 DEF Request
  <2>3. \/ \E live \in SUBSET Sources :
             Update(r, [q EXCEPT !.pc = "owners", !.tracked = TRUE, !.seen = conn, !.todo = live])
        \/ Update(r, [q EXCEPT !.pc = "classify"])
    BY <1>3 DEF AttestAgentPIDRoutes, q
  <2> QED BY <1>3, <2>1, <2>2, <2>3 DEF AttestAgentPIDRoutes
<1>4. ASSUME NEW s \in Sources, JoinConnection(r, s)
      PROVE  \E new \in Request : Update(r, new) /\ UNCHANGED lasting
  <2>1. PICK owners \in Found(s, q.tree) : Joining(r, s, owners)
    BY <1>4, JoinIsJoining DEF q
  <2> DEFINE next == [q EXCEPT !.todo = @ \ {s}, !.rows[s] = owners]
  <2>2. owners \subseteq Procs
    BY <1>0 DEF Found, Owners, Request
  <2>3. [q.rows EXCEPT ![s] = owners] \in [Sources -> (SUBSET Procs) \cup {Nobody}]
    BY <1>0, <2>2 DEF Request
  <2>4. next \in Request
    <3>1. next = [q EXCEPT !.todo = @ \ {s}, !.rows = [q.rows EXCEPT ![s] = owners]]
      BY <1>0 DEF Request
    <3> DEFINE rows == [q.rows EXCEPT ![s] = owners]
    <3> HIDE DEF rows
    <3>2. [q EXCEPT !.todo = @ \ {s}, !.rows = rows] \in Request
      BY <1>0, <2>3 DEF Request, rows
    <3> QED BY <3>1, <3>2 DEF rows
  <2>5. \/ \E b : Update(r, [next EXCEPT !.unclear = next.unclear \/ b])
        \/ Update(r, [next EXCEPT !.active = @ \cup owners, !.direct = @ \cup owners])
        \/ Update(r, [next EXCEPT !.active = @ \cup owners, !.unexpected = @ \cup owners])
    BY <2>1 DEF Joining, q
  <2> HIDE DEF next
  <2>6. \A b : [next EXCEPT !.unclear = next.unclear \/ b] \in Request
    <3>1. next.unclear \in BOOLEAN
      BY <2>4 DEF Request
    <3>2. \A b : (next.unclear \/ b) \in BOOLEAN
      BY <3>1
    <3>3. \A b \in BOOLEAN : [next EXCEPT !.unclear = b] \in Request
      BY <2>4 DEF Request
    <3> QED BY <3>2, <3>3
  <2>7. /\ [next EXCEPT !.active = @ \cup owners, !.direct = @ \cup owners] \in Request
        /\ [next EXCEPT !.active = @ \cup owners, !.unexpected = @ \cup owners] \in Request
    BY <2>2, <2>4 DEF Request
  <2>8. UNCHANGED lasting
    BY <1>4 DEF JoinConnection
  <2> QED BY <2>5, <2>6, <2>7, <2>8
<1>5. CASE JoinDone(r)
  <2>1. NoConnections \in Tracker
    BY DEF NoConnections, Tracker
  <2>2. \A x \in {"config", "classify"} :
          [q EXCEPT !.seen = NoConnections, !.pc = x] \in Request
    BY <1>0, <2>1 DEF Request
  <2>3. \E x \in {"config", "classify"} :
          Update(r, [q EXCEPT !.seen = NoConnections, !.pc = x])
    BY <1>5 DEF JoinDone, q
  <2> QED BY <1>5, <2>2, <2>3 DEF JoinDone
<1>6. CASE ReadConfig(r)
  <2>1. [pid |-> 0, vpn |-> vpn] \in Key
    BY <1>0 DEF Key
  <2>2. \A k \in Key : [q EXCEPT !.pc = "pid", !.key = k] \in Request
    BY <1>0 DEF Request
  <2> QED BY <1>6, <2>1, <2>2 DEF ReadConfig, q
<1>7. CASE ReadPID(r)
  <2>1. q.key \in Key
    BY <1>0, <1>7 DEF ReadPID, Keyed, q
  <2>2. [q.key EXCEPT !.pid = instance] \in Key
    BY <1>0, <2>1 DEF Key
  <2>3. \A k \in Key : [q EXCEPT !.pc = "lookup", !.key = k] \in Request
    BY <1>0 DEF Request
  <2>4. [q EXCEPT !.pc = "lookup", !.key.pid = instance]
          = [q EXCEPT !.pc = "lookup", !.key = [q.key EXCEPT !.pid = instance]]
    BY <1>0 DEF Request
  <2> QED BY <1>7, <2>2, <2>3, <2>4 DEF ReadPID, q
<1>8. CASE LookupEvidence(r)
  <2>1. cache # Nobody => cache.value \in Evidence
    BY <1>0
  <2>2. \A e \in Evidence : [q EXCEPT !.pc = "classify", !.egress = e] \in Request
    BY <1>0 DEF Request
  <2>3. [q EXCEPT !.pc = "check"] \in Request
    BY <1>0 DEF Request
  <2> QED BY <1>8, <2>1, <2>2, <2>3 DEF LookupEvidence, q
<1>9. CASE CheckDataPlane(r)
  <2>1. Unavailable \in Evidence
    BY DEF Unavailable, Evidence
  <2>2. \A e \in Evidence : [q EXCEPT !.pc = "store", !.egress = e] \in Request
    BY <1>0 DEF Request
  <2>3. [q EXCEPT !.pc = "observe"] \in Request
    BY <1>0 DEF Request
  <2> QED BY <1>9, <2>1, <2>2, <2>3 DEF CheckDataPlane, q
<1>10. CASE ObserveEgress(r)
  <2>1. Unavailable \in Evidence /\ [available |-> TRUE, through |-> instance] \in Evidence
    BY <1>0 DEF Unavailable, Evidence
  <2>2. \A e \in Evidence : [q EXCEPT !.pc = "store", !.egress = e] \in Request
    BY <1>0 DEF Request
  <2> QED BY <1>10, <2>1, <2>2 DEF ObserveEgress, q
<1>11. CASE StoreEvidence(r)
  <2>1. [q EXCEPT !.pc = "classify"] \in Request
    BY <1>0 DEF Request
  <2> QED BY <1>11, <2>1 DEF StoreEvidence, q
<1>12. CASE Report(r)
  <2>1. \A x \in {"none", "idle", "partial", "verified", "degraded"} :
          [NoRequest EXCEPT !.state = x] \in Request
    BY DEF NoRequest, Request, NoConnections, Tracker
  <2>2. Classification(req[r]) \in {"none", "idle", "partial", "verified", "degraded"}
    BY DEF Classification
  <2> QED BY <1>12, <2>1, <2>2 DEF Report
<1> QED BY <1>1, <1>2, <1>3, <1>4, <1>5, <1>6, <1>7, <1>8, <1>9, <1>10, <1>11, <1>12
       DEF Step

\* Anomalies are of these kinds, whatever the host is like.
LEMMA AnomalyTypes ==
    ASSUME TypeOK
    PROVE  Anomalies \subseteq ({"leak"} \X (Sources \X Procs))
                                 \cup ({"shared"} \X (Sources \X Procs \X Procs))
                                 \cup ({"unowned"} \X Sources) \cup ({"unknown"} \X Procs)
<1> DEFINE tree == Tree
<1>1. tree \subseteq Procs
  BY TreeFacts DEF Tree
<1>2. Anomalies = ({"leak"} \X Leaks(tree)) \cup ({"shared"} \X Shared(tree))
                    \cup ({"unowned"} \X Unowned(tree)) \cup ({"unknown"} \X (tree \ Known))
  BY DEF Anomalies
<1> HIDE DEF tree
<1>3. Live \subseteq Sources
  BY DEF Live
<1>4. Leaks(tree) \subseteq Sources \X Procs
  BY <1>1, <1>3 DEF Leaks
<1>5. Shared(tree) \subseteq Sources \X Procs \X Procs
  BY <1>1, <1>3 DEF Shared
<1>6. Unowned(tree) \subseteq Sources
  BY <1>3 DEF Unowned
<1> QED BY <1>1, <1>2, <1>4, <1>5, <1>6

\* The request begins.
LEMMA BeginTypes ==
    ASSUME TypeOK, NEW r \in Requests, networkAttestation(r)
    PROVE  \E new \in Request :
             /\ Update(r, new) /\ lasting' = [lasting EXCEPT ![r] = Anomalies] /\ UNCHANGED cache
             /\ new.pc \in {"idle", "tree"} /\ ~new.tracked /\ ~new.complete
             /\ new.pc = "tree" => new.state = "none"
<1>1. /\ [NoRequest EXCEPT !.state = "idle"] \in Request
      /\ [NoRequest EXCEPT !.pc = "tree"] \in Request
  BY DEF NoRequest, Request, NoConnections, Tracker
<1> QED BY <1>1 DEF networkAttestation, NoRequest

\* What changes the host, sing-box and the cache's clock.
Environment ==
    \/ \E p \in Procs : ProcessExits(p) \/ \E by \in (alive \cup {Nobody}) : Spawn(p, by)
    \/ \E s \in Sources : Disconnect(s) \/ \E p \in Procs : Connect(s, p) \/ Inherit(s, p)
    \/ StartAgentTunnel \/ TunnelEnds \/ (\E v \in VPNs : ConfigChanges(v))
    \/ Expire

\* A living connection stays the same; only who holds it changes.
LEMMA HostTypes ==
    ASSUME TypeOK, Environment
    PROVE  /\ alive' \subseteq Procs /\ parent' \in [Procs -> Procs \cup {Nobody}]
           /\ conn' \in Tracker /\ instance' \in Nat /\ started' \in Nat /\ vpn' \in VPNs
           /\ cache' \in {cache, Nobody} /\ req' = req
           /\ changes' \in 0..MaxChanges
           /\ \/ Change
              \/ UNCHANGED <<alive, parent, conn, instance, started, vpn, lasting>>
<1> USE DEF TypeOK
<1>0. Change => req' = req /\ changes' \in 0..MaxChanges
  BY AttestationAssumption DEF Change
<1>1. ASSUME NEW p \in Procs, ProcessExits(p)
      PROVE  /\ alive' \subseteq Procs /\ parent' \in [Procs -> Procs \cup {Nobody}]
             /\ conn' \in Tracker
  <2>1. ASSUME NEW s \in Sources, conn[s] # Nobody
        PROVE  [conn[s] EXCEPT !.owners = @ \ {p}] \in Connection
    BY <2>1 DEF Tracker, Connection
  <2>2. conn' \in Tracker
    BY <1>1, <2>1 DEF ProcessExits, Tracker
  <2> QED BY <1>1, <2>2 DEF ProcessExits
<1>2. ASSUME NEW p \in Procs, NEW by \in alive \cup {Nobody}, Spawn(p, by)
      PROVE  alive' \subseteq Procs /\ parent' \in [Procs -> Procs \cup {Nobody}]
  BY <1>2 DEF Spawn
<1>3. ASSUME NEW s \in Sources, NEW p \in Procs, Connect(s, p)
      PROVE  conn' \in Tracker
  <2>1. PICK named \in {p, Nobody}, out \in {"vpn-direct", "system-direct"} :
          conn' = [conn EXCEPT ![s] = [process |-> named, owners |-> {p}, out |-> out]]
    BY <1>3 DEF Connect
  <2>2. [process |-> named, owners |-> {p}, out |-> out] \in Connection
    BY DEF Connection
  <2> QED BY <2>1, <2>2 DEF Tracker
<1>4. ASSUME NEW s \in Sources, NEW p \in Procs, Inherit(s, p)
      PROVE  conn' \in Tracker
  <2>1. [conn[s] EXCEPT !.owners = @ \cup {p}] \in Connection
    BY <1>4 DEF Inherit, Tracker, Connection
  <2>2. conn' = [conn EXCEPT ![s] = [conn[s] EXCEPT !.owners = @ \cup {p}]]
    BY <1>4 DEF Inherit
  <2> QED BY <2>1, <2>2 DEF Tracker
<1>5. ASSUME NEW s \in Sources, Disconnect(s)
      PROVE  conn' \in Tracker
  BY <1>5 DEF Disconnect, Tracker
<1>6. CASE StartAgentTunnel \/ TunnelEnds \/ (\E v \in VPNs : ConfigChanges(v))
  BY <1>0, <1>6 DEF StartAgentTunnel, TunnelEnds, ConfigChanges, host, NoConnections, Tracker
<1>7. CASE Expire
  BY <1>7 DEF Expire, host, plane
<1>8. CASE \/ \E p \in Procs : ProcessExits(p) \/ \E by \in (alive \cup {Nobody}) : Spawn(p, by)
           \/ \E s \in Sources : Disconnect(s) \/ \E p \in Procs : Connect(s, p) \/ Inherit(s, p)
  <2>1. Change /\ UNCHANGED <<plane, cache>>
    BY <1>8 DEF ProcessExits, Spawn, Disconnect, Connect, Inherit
  <2>2. alive' \subseteq Procs /\ parent' \in [Procs -> Procs \cup {Nobody}] /\ conn' \in Tracker
    BY <1>1, <1>2, <1>3, <1>4, <1>5, <1>8
         DEF ProcessExits, Spawn, Disconnect, Connect, Inherit
  <2> QED BY <1>0, <2>1, <2>2 DEF plane
<1> QED BY <1>6, <1>7, <1>8 DEF Environment

\* Every step keeps the types.
LEMMA TypesKept ==
    ASSUME TypeOK, \A t \in Requests : Keyed(req[t]), [Next]_vars
    PROVE  TypeOK'
<1> DEFINE Kinds == SUBSET (({"leak"} \X (Sources \X Procs))
                              \cup ({"shared"} \X (Sources \X Procs \X Procs))
                              \cup ({"unowned"} \X Sources) \cup ({"unknown"} \X Procs))
<1>0. lasting \in [Requests -> Kinds] /\ Anomalies \in Kinds
  BY AnomalyTypes DEF TypeOK
<1>1. ASSUME NEW r \in Requests, networkAttestation(r)
      PROVE  TypeOK'
  <2>1. PICK new \in Request : Update(r, new) /\ lasting' = [lasting EXCEPT ![r] = Anomalies]
                                 /\ UNCHANGED cache
    BY <1>1, BeginTypes
  <2>2. lasting' \in [Requests -> Kinds]
    BY <1>0, <2>1
  <2>3. /\ req' \in [Requests -> Request]
        /\ UNCHANGED <<alive, parent, conn, instance, started, vpn, changes>>
    BY <2>1, Updating
  <2> QED BY <2>1, <2>2, <2>3 DEF TypeOK
<1>2. ASSUME NEW r \in Requests, Step(r)
      PROVE  TypeOK'
  <2>1. PICK new \in Request : Update(r, new) /\ UNCHANGED lasting
    BY <1>2, StepTypes
  <2>2. /\ req' \in [Requests -> Request]
        /\ UNCHANGED <<alive, parent, conn, instance, started, vpn, changes>>
    BY <2>1, Updating
  <2>3. cache' \in [key : Key, value : Evidence] \cup {Nobody}
    <3>1. CASE StoreEvidence(r)
      <4>1. req[r].key \in Key /\ req[r].egress \in Evidence
        BY <3>1 DEF StoreEvidence, Keyed
      <4> QED BY <3>1, <4>1 DEF StoreEvidence
    <3>2. CASE ~StoreEvidence(r)
      <4>1. cache' = cache
        BY <1>2, <3>2 DEF Step, DiscoverAgentProcessTree, AttestAgentRoutes,
             AttestAgentPIDRoutes, JoinConnection, JoinDone, ReadConfig, ReadPID,
             LookupEvidence, CheckDataPlane, ObserveEgress, Report
      <4> QED BY <4>1 DEF TypeOK
    <3> QED BY <3>1, <3>2
  <2> QED BY <2>1, <2>2, <2>3 DEF TypeOK
<1>3. CASE Environment
  <2>1. lasting' \in [Requests -> Kinds]
    <3>1. CASE Change
      BY <1>0, <3>1 DEF Change
    <3>2. CASE lasting' = lasting
      BY <1>0, <3>2
    <3> QED BY <1>3, <3>1, <3>2, HostTypes
  <2>2. cache' \in [key : Key, value : Evidence] \cup {Nobody}
    BY <1>3, HostTypes DEF TypeOK
  <2> QED BY <1>3, <2>1, <2>2, HostTypes DEF TypeOK
<1>4. CASE UNCHANGED vars
  BY <1>4 DEF vars, host, plane, TypeOK
<1> QED BY <1>1, <1>2, <1>3, <1>4 DEF Next, Environment

-----------------------------------------------------------------------------
(* The evidence cache (cachedPublicEgress).                                *)

\* The key is of a sing-box that has started when it is read, and so is what
\* is observed later: through that one or one that was started after it.
LEMMA StepKeys ==
    ASSUME TypeOK, OneAfterAnother, CacheIsFresh, NEW r \in Requests, Keyed(req[r]), Step(r)
    PROVE  Keyed(req[r])' /\ CacheIsFresh'
<1> DEFINE q == req[r]
<1>0. /\ q \in Request /\ Keyed(q) /\ instance \in Nat /\ started \in Nat /\ req \in [Requests -> Request]
      /\ instance <= started /\ vpn \in VPNs
  BY DEF TypeOK, OneAfterAnother
<1>1. CASE \/ DiscoverAgentProcessTree(r) \/ AttestAgentRoutes(r) \/ AttestAgentPIDRoutes(r)
           \/ JoinDone(r) \/ Report(r)
  <2>1. req'[r].pc \notin {"pid", "lookup", "check", "observe", "store"}
    BY <1>1, Effects
  <2>2. cache' = cache
    BY <1>1 DEF DiscoverAgentProcessTree, AttestAgentRoutes, AttestAgentPIDRoutes, JoinDone, Report
  <2> QED BY <2>1, <2>2 DEF Keyed, CacheIsFresh
<1>2. CASE ReadConfig(r)
  <2>1. req'[r] = [q EXCEPT !.pc = "pid", !.key = [pid |-> 0, vpn |-> vpn]] /\ cache' = cache
    BY <1>0, <1>2 DEF ReadConfig, Update
  <2>2. req'[r].pc = "pid" /\ req'[r].key = [pid |-> 0, vpn |-> vpn]
    BY <1>0, <2>1 DEF Request
  <2>3. [pid |-> 0, vpn |-> vpn] \in Key
    BY <1>0 DEF Key
  <2> QED BY <2>1, <2>2, <2>3 DEF Keyed, CacheIsFresh
<1>3. CASE ReadPID(r)
  <2>1. q.key \in Key
    BY <1>0, <1>3 DEF ReadPID, Keyed
  <2>2. /\ req'[r] = [q EXCEPT !.pc = "lookup", !.key.pid = instance]
        /\ cache' = cache /\ started' = started
    BY <1>0, <1>3 DEF ReadPID, Update, plane
  <2>3. req'[r].pc = "lookup" /\ req'[r].key = [q.key EXCEPT !.pid = instance]
    BY <1>0, <2>2 DEF Request
  <2>4. req'[r].key \in Key /\ req'[r].key.pid = instance
    BY <1>0, <2>1, <2>3 DEF Key
  <2> QED BY <1>0, <2>2, <2>3, <2>4 DEF Keyed, CacheIsFresh
<1>4. CASE LookupEvidence(r)
  <2>1. /\ cache' = cache /\ started' = started
        /\ \/ req'[r].pc = "classify"
           \/ req'[r].pc = "check" /\ req'[r].key = q.key
    BY <1>0, <1>4 DEF LookupEvidence, Update, plane, Request
  <2>2. q.key \in Key /\ q.key.pid <= started
    BY <1>0, <1>4 DEF LookupEvidence, Keyed
  <2> QED BY <2>1, <2>2 DEF Keyed, CacheIsFresh
<1>5. CASE CheckDataPlane(r)
  <2>1. q.key \in Key /\ q.key.pid <= started
    BY <1>0, <1>5 DEF CheckDataPlane, Keyed
  <2>2. cache' = cache /\ started' = started
    BY <1>5 DEF CheckDataPlane, Update, plane
  <2>3. /\ req'[r].key = q.key
        /\ \/ req'[r].pc = "observe"
           \/ req'[r].pc = "store" /\ req'[r].egress = Unavailable
    BY <1>0, <1>5 DEF CheckDataPlane, Update, Request
  <2>4. Unavailable \in Evidence /\ ~Unavailable.available
    BY DEF Unavailable, Evidence
  <2> QED BY <2>1, <2>2, <2>3, <2>4 DEF Keyed, CacheIsFresh
<1>6. CASE ObserveEgress(r)
  <2>1. q.key \in Key /\ q.key.pid <= started
    BY <1>0, <1>6 DEF ObserveEgress, Keyed
  <2>2. cache' = cache /\ started' = started
    BY <1>6 DEF ObserveEgress, Update, plane
  <2> DEFINE through == [available |-> TRUE, through |-> instance]
  <2>3. /\ req'[r].key = q.key /\ req'[r].pc = "store"
        /\ \/ instance # 0 /\ req'[r].egress = through
           \/ req'[r].egress = Unavailable
    <3>1. \/ instance # 0 /\ Update(r, [q EXCEPT !.pc = "store", !.egress = through])
          \/ Update(r, [q EXCEPT !.pc = "store", !.egress = Unavailable])
      BY <1>6 DEF ObserveEgress
    <3> HIDE DEF through
    <3>2. \A e : /\ [q EXCEPT !.pc = "store", !.egress = e].key = q.key
                 /\ [q EXCEPT !.pc = "store", !.egress = e].pc = "store"
                 /\ [q EXCEPT !.pc = "store", !.egress = e].egress = e
      BY <1>0 DEF Request
    <3>3. \/ instance # 0 /\ req'[r] = [q EXCEPT !.pc = "store", !.egress = through]
          \/ req'[r] = [q EXCEPT !.pc = "store", !.egress = Unavailable]
      BY <3>1, Updated
    <3> HIDE DEF q
    <3> QED BY <3>2, <3>3
  <2>4. Unavailable \in Evidence /\ ~Unavailable.available
    BY DEF Unavailable, Evidence
  <2>5. through \in Evidence /\ through.through = instance
    BY <1>0 DEF Evidence
  <2>6. instance # 0 => instance = started
    BY DEF OneAfterAnother
  <2>7. q.key.pid \in Nat
    BY <2>1 DEF Key
  <2> HIDE DEF through
  <2> QED BY <1>0, <2>1, <2>2, <2>3, <2>4, <2>5, <2>6, <2>7 DEF Keyed, CacheIsFresh
<1>7. CASE StoreEvidence(r)
  <2>1. q.egress.available => q.egress.through >= q.key.pid
    BY <1>0, <1>7 DEF StoreEvidence, Keyed
  <2>2. cache' = [key |-> q.key, value |-> q.egress] /\ req'[r].pc = "classify"
    BY <1>0, <1>7 DEF StoreEvidence, Update, Request
  <2> QED BY <2>1, <2>2 DEF Keyed, CacheIsFresh
<1>8. ASSUME NEW s \in Sources, JoinConnection(r, s)
      PROVE  Keyed(req[r])' /\ CacheIsFresh'
  <2>1. req'[r].pc = "owners" /\ cache' = cache
    BY <1>8, JoinEffects DEF JoinConnection
  <2> QED BY <2>1 DEF Keyed, CacheIsFresh
<1> QED BY <1>1, <1>2, <1>3, <1>4, <1>5, <1>6, <1>7, <1>8 DEF Step

\* Every step keeps the keys and the cache what they are.
LEMMA KeysKept ==
    ASSUME TypeOK, OneAfterAnother, CacheIsFresh, \A t \in Requests : Keyed(req[t]), [Next]_vars
    PROVE  OneAfterAnother' /\ CacheIsFresh' /\ \A t \in Requests : Keyed(req[t])'
<1>1. ASSUME NEW r \in Requests, networkAttestation(r) \/ Step(r)
      PROVE  OneAfterAnother' /\ CacheIsFresh' /\ \A t \in Requests : Keyed(req[t])'
  <2>1. PICK new \in Request : Update(r, new)
    BY <1>1, BeginTypes, StepTypes
  <2>2. (\A t \in Requests \ {r} : req'[t] = req[t]) /\ UNCHANGED <<instance, started>>
    BY <2>1, Updating
  <2>3. Keyed(req[r])' /\ CacheIsFresh'
    <3>1. CASE Step(r)
      BY <3>1, StepKeys
    <3>2. CASE networkAttestation(r)
      <4>1. req'[r].pc \in {"idle", "tree"} /\ cache' = cache
        BY <3>2, BeginTypes, Updating
      <4> QED BY <4>1 DEF Keyed, CacheIsFresh
    <3> QED BY <1>1, <3>1, <3>2
  <2>4. \A t \in Requests \ {r} : Keyed(req[t])'
    BY <2>2 DEF Keyed
  <2> QED BY <2>2, <2>3, <2>4 DEF OneAfterAnother
<1>2. CASE Environment
  <2>1. req' = req /\ cache' \in {cache, Nobody}
    BY <1>2, HostTypes
  <2>2. OneAfterAnother' /\ started' >= started
    BY <1>2 DEF Environment, ProcessExits, Spawn, Disconnect, Connect, Inherit,
         StartAgentTunnel, TunnelEnds, ConfigChanges, Expire, plane, OneAfterAnother, TypeOK
  <2>3. ASSUME NEW t \in Requests PROVE Keyed(req[t])'
    <3>1. req[t].pc \in {"lookup", "check", "observe", "store"} => req[t].key.pid \in Nat
      BY DEF Keyed, Key
    <3>2. started \in Nat /\ started' \in Nat
      BY <1>2, HostTypes DEF TypeOK
    <3> QED BY <2>1, <2>2, <3>1, <3>2 DEF Keyed
  <2> QED BY <2>1, <2>2, <2>3 DEF CacheIsFresh
<1>3. CASE UNCHANGED vars
  BY <1>3 DEF vars, host, plane, OneAfterAnother, CacheIsFresh, Keyed
<1> QED BY <1>1, <1>2, <1>3 DEF Next, Environment

-----------------------------------------------------------------------------
(* What a request gathers (networkAttestation).                            *)

\* The host is what it was, so its anomalies are.
LEMMA SameAnomalies ==
    ASSUME UNCHANGED <<alive, parent, conn>>
    PROVE  Anomalies' = Anomalies
<1>1. Tree' = Tree
  BY DEF Tree, TreeOf
<1>2. \A s, C : Owners(s, C)' = Owners(s, C)
  BY DEF Owners
<1>3. Live' = Live
  BY DEF Live
<1>4. \A t : Leaks(t)' = Leaks(t)
  BY <1>3 DEF Leaks
<1>5. \A t : Shared(t)' = Shared(t)
  BY <1>3 DEF Shared
<1>6. \A t : Unowned(t)' = Unowned(t)
  BY <1>2, <1>3 DEF Unowned
<1> QED BY <1>1, <1>4, <1>5, <1>6 DEF Anomalies

\* The tree is read: it is as good as the moment it is read at
\* (buildAgentProcessTree), and nothing is tracked yet.
LEMMA DiscoverGathers ==
    ASSUME TypeOK, LastsToNow, NEW r \in Requests, Gathered(r),
           DiscoverAgentProcessTree(r), UNCHANGED <<alive, parent, conn, lasting>>
    PROVE  Gathered(r)'
<1>1. /\ req'[r].pc = "routes" /\ req'[r].tracked = req[r].tracked /\ req'[r].state = req[r].state
      /\ \/ req'[r].complete /\ \E listed \in SUBSET alive : req'[r].tree = TreeOf(listed)
         \/ req'[r].complete = req[r].complete
  BY Effects
<1>2. ~req[r].tracked /\ ~req[r].complete /\ req[r].state = "none"
  BY DEF Gathered, DiscoverAgentProcessTree, AfterTree, AfterSnapshot
<1>3. ASSUME NEW listed \in SUBSET alive, req'[r].tree = TreeOf(listed)
      PROVE  InTree(r)'
  <2> DEFINE tree == TreeOf(listed)
  <2>1. \A s \in Sources : UnownedIn(r, s) => conn[s].owners \cap tree = {}
    BY AnomalyFacts, TreeFacts
  <2>2. \A p \in tree \ Roots : parent[p] \in tree \cup {Nobody}
    BY TreeFacts
  <2> HIDE DEF tree
  <2>3. req'[r].tree = tree
    BY <1>3 DEF tree
  <2> QED BY <2>1, <2>2, <2>3 DEF InTree, UnownedIn
<1> QED BY <1>1, <1>2, <1>3 DEF Gathered, AfterTree

\* The second snapshot: every living connection is still to be joined, and is
\* as the snapshot says.
LEMMA SnapshotGathers ==
    ASSUME TypeOK, LastsToNow, NEW r \in Requests, Gathered(r),
           req[r].pc = "pids", UNCHANGED <<alive, parent, conn, lasting>>,
           req'[r].pc = "owners", req'[r].tracked, req'[r].seen = conn,
           req'[r].todo = {s \in Sources : conn[s] # Nobody},
           req'[r].complete = req[r].complete, req'[r].tree = req[r].tree,
           req'[r].state = req[r].state
    PROVE  Gathered(r)'
<1>1. req[r].complete => InTree(r)'
  BY DEF Gathered, InTree, UnknownIn, LeakOf, SharedBy, UnownedIn
<1>2. \A s \in Sources : Concerns(r, s) => conn[s] # Nobody
  BY AnomalyFacts DEF Concerns
<1>3. \A s \in Sources : Concerns(r, s)' => Concerns(r, s)
  BY DEF Concerns, LeakOf, SharedBy, UnownedIn
<1>4. \A s \in Sources : conn[s] # Nobody => SeenAsIs(r, s)'
  BY DEF SeenAsIs
<1>5. ASSUME NEW s \in Sources PROVE s \in req'[r].todo \/ Judged(r, s)'
  <2>1. req'[r].tree \subseteq Procs
    BY DEF TypeOK, Request
  <2>2. conn[s] = Nobody => ~Concerns(r, s)'
    BY <1>2, <1>3
  <2> QED BY <2>1, <2>2 DEF Judged, Concerns
<1> QED BY <1>1, <1>2, <1>3, <1>4, <1>5 DEF Gathered, AfterTree, AfterSnapshot

\* The other steps that keep the evidence.
LEMMA SameGathers ==
    ASSUME NEW r \in Requests, Gathered(r), UNCHANGED <<alive, parent, conn, lasting>>,
           Same(req[r], req'[r]), req[r].pc \in AfterTree, req'[r].pc \in AfterTree,
           req'[r].pc # "owners",
           req[r].pc \in AfterSnapshot => req'[r].pc \in AfterSnapshot,
           req[r].pc = "owners" => req[r].todo = {}
    PROVE  Gathered(r)'
<1>1. /\ req'[r].pc # "idle" => req'[r].state = "none"
      /\ req'[r].tracked => req'[r].pc \in AfterSnapshot
      /\ req'[r].complete => req'[r].pc \in AfterTree /\ InTree(r)'
  BY DEF Gathered, AfterTree, Same, InTree, UnknownIn, LeakOf, SharedBy, UnownedIn
<1>2. req'[r].tracked /\ req'[r].complete => \A s \in Sources : Judged(r, s)
  BY DEF Gathered, Same
<1>3. \A s \in Sources : Judged(r, s) => Judged(r, s)'
  <2>1. /\ \A s, p : LeakOf(r, s, p)' = LeakOf(r, s, p)
        /\ \A s, p, t : SharedBy(r, s, p, t)' = SharedBy(r, s, p, t)
        /\ \A s : UnownedIn(r, s)' = UnownedIn(r, s)
    BY DEF LeakOf, SharedBy, UnownedIn
  <2> QED BY <2>1 DEF Same, Judged
<1> QED BY <1>1, <1>2, <1>3 DEF Gathered

\* Whatever anomaly concerns the connection, its row now shows it - nobody of the
\* tree holds it and it looks like Antigravity's, its only holder leaks, or it
\* has several holders - or names too few.
LEMMA JoinJudges ==
    ASSUME TypeOK, LastsToNow, NEW r \in Requests, NEW s \in Sources, JoinConnection(r, s),
           InTree(r), Concerns(r, s) => SeenAsIs(r, s), UNCHANGED lasting
    PROVE  Judged(r, s)'
<1> DEFINE q == req[r]
<1>0. PICK owners \in Found(s, q.tree) :
        /\ req'[r].tree = q.tree /\ req'[r].rows = [q.rows EXCEPT ![s] = owners]
        /\ \/ /\ owners = {} /\ req'[r].unexpected = q.unexpected
              /\ q.seen[s].process \in Looks => req'[r].unclear
           \/ /\ Cardinality(owners) = 1 /\ req'[r].unclear = q.unclear
              /\ \/ q.seen[s].out = "vpn-direct" /\ req'[r].unexpected = q.unexpected
                 \/ /\ q.seen[s].out # "vpn-direct"
                    /\ req'[r].unexpected = q.unexpected \cup owners
           \/ Cardinality(owners) > 1 /\ req'[r].unclear
  BY JoinEffects
<1>1. req'[r].rows[s] = owners
  BY <1>0 DEF TypeOK, Request
<1>2. /\ \A p \in Procs : LeakOf(r, s, p) => q.seen[s].out # "vpn-direct"
      /\ \A p, t \in Procs : SharedBy(r, s, p, t) => p # t
      /\ UnownedIn(r, s) => owners = {} /\ q.seen[s].process \in Looks
  <2>1. UnownedIn(r, s) => conn[s].owners \cap q.tree = {}
    BY DEF InTree
  <2>2. UnownedIn(r, s) => owners = {}
    BY <2>1 DEF Found, Owners
  <2> QED BY <2>2, AnomalyFacts DEF Concerns, SeenAsIs
<1>3. /\ owners \subseteq Procs /\ IsFiniteSet(owners) /\ owners # Nobody
      /\ q.tree \subseteq Procs
  <2>1. owners \subseteq Procs /\ q.tree \subseteq Procs
    BY DEF Found, Owners, TypeOK, Request
  <2> QED BY <2>1, FS_Subset, AttestationAssumption
<1>4. Cardinality(owners) = 1 => \E p : owners = {p}
  BY <1>3, FS_Singleton
<1>5. req'[r].unclear \/ req'[r].unexpected # {}
        \/ /\ \A p \in q.tree : LeakOf(r, s, p) => owners = {}
           /\ \A p, t \in q.tree :
                SharedBy(r, s, p, t) => owners # Nobody /\ ~({p, t} \subseteq owners)
           /\ ~UnownedIn(r, s)
  <2>1. CASE owners = {}
    BY <1>0, <1>2, <1>3, <2>1, FS_EmptySet
  <2>2. CASE Cardinality(owners) = 1
    <3>1. owners # {}
      BY <2>2, FS_EmptySet
    <3>2. \A p, t \in q.tree : SharedBy(r, s, p, t) => ~({p, t} \subseteq owners)
      BY <1>2, <1>3, <1>4, <2>2
    <3>3. ~UnownedIn(r, s)
      BY <1>2, <3>1
    <3>4. (\E p \in q.tree : LeakOf(r, s, p)) => req'[r].unexpected # {}
      BY <1>0, <1>2, <1>3, <2>2, <3>1
    <3> QED BY <1>3, <3>2, <3>3, <3>4
  <2>3. CASE owners # {} /\ Cardinality(owners) # 1
    BY <1>0, <2>3
  <2> QED BY <2>1, <2>2, <2>3
<1> QED BY <1>0, <1>1, <1>5 DEF Judged, LeakOf, SharedBy, UnownedIn

\* What the other rows show remains.
LEMMA JoinGathers ==
    ASSUME TypeOK, LastsToNow, NEW r \in Requests, NEW s \in Sources, JoinConnection(r, s),
           Gathered(r), UNCHANGED <<alive, parent, conn, lasting>>
    PROVE  Gathered(r)'
<1> DEFINE q == req[r]
<1>1. /\ q.pc = "owners" /\ req'[r].pc = "owners" /\ s \in q.todo
      /\ req'[r].todo = q.todo \ {s} /\ req'[r].complete = q.complete
      /\ req'[r].tree = q.tree /\ req'[r].tracked = q.tracked /\ req'[r].seen = q.seen
      /\ req'[r].state = q.state
      /\ q.unclear => req'[r].unclear
      /\ q.unexpected \subseteq req'[r].unexpected \/ req'[r].unclear
      /\ \A t \in Sources \ {s} : req'[r].rows[t] = q.rows[t]
  <2>1. q.rows \in [Sources -> (SUBSET Procs) \cup {Nobody}]
    BY DEF TypeOK, Request
  <2>2. \A new : \A t \in Sources \ {s} : [q.rows EXCEPT ![s] = new][t] = q.rows[t]
    BY <2>1
  <2>3. PICK owners \in Found(s, q.tree) :
          /\ q.pc = "owners" /\ req'[r].pc = "owners" /\ s \in q.todo
          /\ req'[r].todo = q.todo \ {s} /\ req'[r].complete = q.complete
          /\ req'[r].tree = q.tree /\ req'[r].tracked = q.tracked /\ req'[r].seen = q.seen
          /\ req'[r].state = q.state /\ req'[r].rows = [q.rows EXCEPT ![s] = owners]
          /\ q.unclear => req'[r].unclear
          /\ \/ req'[r].unexpected \in {q.unexpected, q.unexpected \cup owners}
             \/ req'[r].unclear
    BY JoinEffects
  <2> HIDE DEF q
  <2> QED BY <2>2, <2>3
<1>2. q.complete => InTree(r)'
  BY <1>1 DEF Gathered, InTree, UnknownIn, LeakOf, SharedBy, UnownedIn
<1>3. q.complete => \A t \in q.todo : Concerns(r, t)' => SeenAsIs(r, t)'
  BY <1>1 DEF Gathered, Concerns, SeenAsIs, LeakOf, SharedBy, UnownedIn
<1>4. ASSUME q.tracked, q.complete, NEW t \in Sources
      PROVE  t \in req'[r].todo \/ Judged(r, t)'
  <2>1. CASE t = s
    BY <1>1, <1>4, <2>1, JoinJudges DEF Gathered
  <2>2. CASE t # s
    <3>1. t \in q.todo \/ Judged(r, t)
      BY <1>1, <1>4 DEF Gathered
    <3>2. Judged(r, t) => Judged(r, t)'
      BY <1>1, <2>2 DEF Judged, LeakOf, SharedBy, UnownedIn
    <3> QED BY <1>1, <2>2, <3>1, <3>2
  <2> QED BY <2>1, <2>2
<1>5. req'[r].pc \in AfterTree /\ req'[r].pc \in AfterSnapshot
  BY <1>1 DEF AfterTree, AfterSnapshot
<1> QED BY <1>1, <1>2, <1>3, <1>4, <1>5 DEF Gathered

-----------------------------------------------------------------------------
(* The host changes while a request looks at it.                           *)

\* A connection that stays is the same to sing-box, and only an heir of its
\* holders comes to hold it; a process of a tree that is read gets no parent.
LEMMA HostChanges ==
    ASSUME TypeOK, Environment
    PROVE  /\ \A s \in Sources : conn[s] # Nobody /\ conn'[s] # Nobody =>
                /\ conn'[s].process = conn[s].process /\ conn'[s].out = conn[s].out
                /\ \A p \in conn'[s].owners \ conn[s].owners :
                      p \in alive' /\ parent[p] \in conn[s].owners
           /\ \A r \in Requests : \A p \in req[r].tree : parent'[p] \in {parent[p], Nobody}
<1> DEFINE Stays(s) ==
             conn[s] # Nobody /\ conn'[s] # Nobody =>
               /\ conn'[s].process = conn[s].process /\ conn'[s].out = conn[s].out
               /\ \A p \in conn'[s].owners \ conn[s].owners :
                     p \in alive' /\ parent[p] \in conn[s].owners
           Parents == \A r \in Requests : \A p \in req[r].tree : parent'[p] \in {parent[p], Nobody}
<1>0. /\ \A r \in Requests : req[r].tree \subseteq Procs
      /\ parent \in [Procs -> Procs \cup {Nobody}] /\ conn \in Tracker
  BY DEF TypeOK, Request
<1>1. ASSUME NEW p \in Procs, ProcessExits(p)
      PROVE  Parents /\ \A s \in Sources : Stays(s)
  <2>1. Parents
    BY <1>0, <1>1 DEF ProcessExits
  <2>2. ASSUME NEW s \in Sources, conn[s] # Nobody, conn'[s] # Nobody
        PROVE  /\ conn'[s].process = conn[s].process /\ conn'[s].out = conn[s].out
               /\ conn'[s].owners \subseteq conn[s].owners
    <3>1. conn'[s] = [conn[s] EXCEPT !.owners = @ \ {p}]
      BY <1>1, <2>2 DEF ProcessExits
    <3>2. conn[s] \in Connection
      BY <1>0, <2>2 DEF Tracker
    <3> QED BY <3>1, <3>2 DEF Connection
  <2> QED BY <2>1, <2>2
<1>2. ASSUME NEW p \in Procs, NEW by \in alive \cup {Nobody}, Spawn(p, by)
      PROVE  Parents /\ \A s \in Sources : Stays(s)
  BY <1>0, <1>2 DEF Spawn
<1>3. ASSUME NEW t \in Sources, NEW p \in Procs, Connect(t, p)
      PROVE  Parents /\ \A s \in Sources : Stays(s)
  BY <1>0, <1>3 DEF Connect, Tracker
<1>4. ASSUME NEW t \in Sources, NEW p \in Procs, Inherit(t, p)
      PROVE  Parents /\ \A s \in Sources : Stays(s)
  <2>1. conn' = [conn EXCEPT ![t] = [conn[t] EXCEPT !.owners = @ \cup {p}]]
    BY <1>4 DEF Inherit
  <2>2. conn[t] \in Connection /\ parent' = parent /\ p \in alive' /\ parent[p] \in conn[t].owners
    BY <1>0, <1>4 DEF Inherit, Tracker
  <2> DEFINE given == [conn[t] EXCEPT !.owners = @ \cup {p}]
  <2>3. /\ given.process = conn[t].process /\ given.out = conn[t].out
        /\ given.owners = conn[t].owners \cup {p}
    BY <2>2 DEF Connection
  <2> HIDE DEF given
  <2>4. \A s \in Sources : conn'[s] = IF s = t THEN given ELSE conn[s]
    BY <1>0, <2>1 DEF given, Tracker
  <2>5. ASSUME NEW s \in Sources PROVE Stays(s)
    <3>1. CASE s = t
      BY <2>2, <2>3, <2>4, <3>1
    <3>2. CASE s # t
      BY <2>4, <3>2
    <3> QED BY <3>1, <3>2
  <2> QED BY <2>2, <2>5
<1>5. ASSUME NEW t \in Sources, Disconnect(t)
      PROVE  Parents /\ \A s \in Sources : Stays(s)
  BY <1>0, <1>5 DEF Disconnect, Tracker
<1>6. CASE StartAgentTunnel \/ (\E v \in VPNs : ConfigChanges(v)) \/ Expire
  BY <1>6 DEF StartAgentTunnel, ConfigChanges, Expire, host
<1>7. CASE TunnelEnds
  BY <1>7 DEF TunnelEnds, NoConnections
<1> QED BY <1>1, <1>2, <1>3, <1>4, <1>5, <1>6, <1>7 DEF Environment

\* What an anomaly says of the host after a step.
LEMMA AnomalyFactsLater ==
    ASSUME LastsToNow', NEW r \in Requests
    PROVE  /\ \A s \in Sources : Concerns(r, s)' => conn'[s] # Nobody
           /\ \A s \in Sources : UnownedIn(r, s)' => conn'[s].owners \cap alive' \cap Roots = {}
<1>1. lasting'[r] \subseteq Anomalies'
  BY DEF LastsToNow
<1> DEFINE tree == Tree
<1>2. Anomalies' = ({"leak"} \X Leaks(tree)') \cup ({"shared"} \X Shared(tree)')
                     \cup ({"unowned"} \X Unowned(tree)') \cup ({"unknown"} \X (tree' \ Known))
  BY DEF Anomalies
<1>3. alive' \cap Roots \subseteq tree'
  BY DEF Tree, TreeOf
<1> HIDE DEF tree
<1>4. \A s, p : LeakOf(r, s, p)' => <<s, p>> \in Leaks(tree)'
  BY <1>1, <1>2 DEF LeakOf
<1>5. \A s, p, q : SharedBy(r, s, p, q)' => <<s, p, q>> \in Shared(tree)'
  BY <1>1, <1>2 DEF SharedBy
<1>6. \A s : UnownedIn(r, s)' => s \in Unowned(tree)'
  BY <1>1, <1>2 DEF UnownedIn
<1>7. \A s, p : <<s, p>> \in Leaks(tree)' => s \in Live'
  BY DEF Leaks
<1>8. \A s, p, q : <<s, p, q>> \in Shared(tree)' => s \in Live'
  BY DEF Shared
<1>9. \A s \in Unowned(tree)' : s \in Live' /\ conn'[s].owners \cap tree' = {}
  BY DEF Unowned, Live, Owners
<1>10. \A s \in Sources : Concerns(r, s)' => s \in Live'
  BY <1>4, <1>5, <1>6, <1>7, <1>8, <1>9 DEF Concerns
<1> QED BY <1>3, <1>6, <1>9, <1>10 DEF Live

\* What a request has gathered stays true of the anomalies that last.
LEMMA HostKeepsGathered ==
    ASSUME TypeOK, TypeOK', LastsToNow, Environment, NEW r \in Requests, Gathered(r)
    PROVE  LastsToNow' /\ Gathered(r)'
<1>1. req' = req
  BY HostTypes
<1>2. LastsToNow' /\ lasting'[r] \subseteq lasting[r]
  <2>1. CASE Change
    BY <2>1 DEF Change, LastsToNow
  <2>2. CASE UNCHANGED <<alive, parent, conn, instance, started, vpn, lasting>>
    BY <2>2, SameAnomalies DEF LastsToNow
  <2> QED BY <2>1, <2>2, HostTypes
<1>3. /\ \A p : UnknownIn(r, p)' => UnknownIn(r, p)
      /\ \A s, p : LeakOf(r, s, p)' => LeakOf(r, s, p)
      /\ \A s, p, q : SharedBy(r, s, p, q)' => SharedBy(r, s, p, q)
      /\ \A s : UnownedIn(r, s)' => UnownedIn(r, s)
  BY <1>2 DEF UnknownIn, LeakOf, SharedBy, UnownedIn
<1>4. \A s \in Sources : Concerns(r, s)' => Concerns(r, s) /\ conn'[s] # Nobody
  BY <1>2, <1>3, AnomalyFactsLater DEF Concerns
<1>5. \A s \in Sources : Concerns(r, s) => conn[s] # Nobody
  BY AnomalyFacts DEF Concerns
<1>6. \A s \in Sources : SeenAsIs(r, s) /\ Concerns(r, s)' => SeenAsIs(r, s)'
  BY <1>1, <1>4, <1>5, HostChanges DEF SeenAsIs
<1>7. \A s \in Sources : Judged(r, s) => Judged(r, s)'
  BY <1>1, <1>3 DEF Judged
<1>8. ASSUME InTree(r) PROVE InTree(r)'
  <2> DEFINE tree == req[r].tree
  <2>0. req'[r].tree = tree /\ tree \subseteq Procs
    BY <1>1 DEF TypeOK, Request
  <2>1. \A p \in tree \ Roots : parent'[p] \in tree \cup {Nobody}
    BY <1>8, HostChanges DEF InTree
  <2>2. ASSUME NEW s \in Sources, UnownedIn(r, s)', NEW p \in conn'[s].owners, p \in tree
        PROVE  FALSE
    <3>1. UnownedIn(r, s) /\ Concerns(r, s)'
      BY <1>3, <2>2 DEF Concerns
    <3>2. conn[s] # Nobody /\ conn'[s] # Nobody /\ conn[s].owners \cap tree = {}
      BY <1>4, <1>5, <1>8, <3>1 DEF InTree
    <3>3. p \in alive' /\ parent[p] \in conn[s].owners
      BY <2>2, <3>2, HostChanges
    <3>4. Nobody \notin conn[s].owners
      BY <3>2, AttestationAssumption DEF TypeOK, Tracker, Connection
    <3>5. p \in Roots
      BY <1>8, <2>2, <3>2, <3>3, <3>4 DEF InTree
    <3> QED BY <1>2, <2>2, <3>3, <3>5, AnomalyFactsLater
  <2> HIDE DEF tree
  <2> QED BY <2>0, <2>1, <2>2 DEF InTree
<1>9. /\ req'[r].pc # "idle" => req'[r].state = "none"
      /\ req'[r].tracked => req'[r].pc \in AfterSnapshot
      /\ req'[r].complete => req'[r].pc \in AfterTree /\ InTree(r)'
  BY <1>1, <1>8 DEF Gathered
<1>10. req'[r].pc = "owners" /\ req'[r].complete =>
         \A s \in req'[r].todo : Concerns(r, s)' => SeenAsIs(r, s)'
  <2>1. req[r].todo \subseteq Sources
    BY DEF TypeOK, Request
  <2> QED BY <1>1, <1>4, <1>6, <2>1 DEF Gathered
<1>11. req'[r].tracked /\ req'[r].complete =>
         \A s \in Sources : (req'[r].pc = "owners" /\ s \in req'[r].todo) \/ Judged(r, s)'
  BY <1>1, <1>7 DEF Gathered
<1> QED BY <1>2, <1>9, <1>10, <1>11 DEF Gathered

\* A step of another request leaves what this one has gathered.
LEMMA OthersGather ==
    ASSUME NEW t \in Requests, Gathered(t), req'[t] = req[t], lasting'[t] = lasting[t],
           UNCHANGED <<alive, parent, conn>>
    PROVE  Gathered(t)'
<1>1. /\ \A s, p : LeakOf(t, s, p)' = LeakOf(t, s, p)
      /\ \A s, p, q : SharedBy(t, s, p, q)' = SharedBy(t, s, p, q)
      /\ \A s : UnownedIn(t, s)' = UnownedIn(t, s)
  BY DEF LeakOf, SharedBy, UnownedIn
<1>2. InTree(t) => InTree(t)'
  BY <1>1 DEF InTree
<1>3. ASSUME NEW s
      PROVE  /\ Concerns(t, s)' => Concerns(t, s)
             /\ SeenAsIs(t, s) => SeenAsIs(t, s)'
             /\ Judged(t, s) => Judged(t, s)'
  <2>1. Concerns(t, s)' => Concerns(t, s)
    BY <1>1 DEF Concerns
  <2>2. SeenAsIs(t, s) => SeenAsIs(t, s)'
    BY DEF SeenAsIs
  <2>3. Judged(t, s) => Judged(t, s)'
    BY <1>1 DEF Judged
  <2> QED BY <2>1, <2>2, <2>3
<1> QED BY <1>2, <1>3 DEF Gathered

\* Every step of a request keeps what it has gathered.
LEMMA StepGathers ==
    ASSUME TypeOK, LastsToNow, NEW r \in Requests, Gathered(r), Step(r),
           UNCHANGED <<alive, parent, conn, lasting>>
    PROVE  Gathered(r)'
<1>1. CASE DiscoverAgentProcessTree(r)
  BY <1>1, DiscoverGathers
<1>2. CASE AttestAgentRoutes(r)
  <2>1. req[r].pc = "routes"
    BY <1>2 DEF AttestAgentRoutes
  <2> QED BY <1>2, <2>1, Effects, SameGathers DEF AfterTree, AfterSnapshot
<1>3. CASE AttestAgentPIDRoutes(r)
  <2>1. req[r].pc = "pids"
    BY <1>3 DEF AttestAgentPIDRoutes
  <2>2. CASE req'[r].pc = "classify" /\ Same(req[r], req'[r])
    BY <2>1, <2>2, SameGathers DEF AfterTree, AfterSnapshot
  <2>3. CASE ~(req'[r].pc = "classify" /\ Same(req[r], req'[r]))
    BY <1>3, <2>1, <2>3, Effects, SnapshotGathers
  <2> QED BY <2>2, <2>3
<1>4. ASSUME NEW s \in Sources, JoinConnection(r, s) PROVE Gathered(r)'
  BY <1>4, JoinGathers
<1>5. CASE JoinDone(r)
  <2>1. req[r].pc = "owners" /\ req[r].todo = {}
    BY <1>5 DEF JoinDone
  <2> QED BY <1>5, <2>1, Effects, SameGathers DEF AfterTree, AfterSnapshot
<1>6. CASE \/ ReadConfig(r) \/ ReadPID(r) \/ LookupEvidence(r) \/ CheckDataPlane(r)
           \/ ObserveEgress(r) \/ StoreEvidence(r)
  <2>1. req[r].pc \in AfterSnapshot \ {"owners"}
    BY <1>6 DEF ReadConfig, ReadPID, LookupEvidence, CheckDataPlane, ObserveEgress,
         StoreEvidence, AfterTree, AfterSnapshot
  <2>2. Same(req[r], req'[r]) /\ req'[r].pc \in AfterSnapshot \ {"owners"}
    BY <1>6, Effects DEF AfterTree, AfterSnapshot
  <2> QED BY <2>1, <2>2, SameGathers DEF AfterTree, AfterSnapshot
<1>7. CASE Report(r)
  <2>1. req'[r].pc = "idle" /\ ~req'[r].tracked /\ ~req'[r].complete
    BY <1>7, Effects
  <2> QED BY <2>1 DEF Gathered
<1> QED BY <1>1, <1>2, <1>3, <1>4, <1>5, <1>6, <1>7 DEF Step

\* Every step of the system keeps what all requests have gathered.
LEMMA GatheredKept ==
    ASSUME IInv, TypeOK', [Next]_vars
    PROVE  LastsToNow' /\ \A t \in Requests : Gathered(t)'
<1> USE DEF IInv
<1>1. ASSUME NEW r \in Requests, networkAttestation(r)
      PROVE  LastsToNow' /\ \A t \in Requests : Gathered(t)'
  <2>1. PICK new \in Request :
          /\ Update(r, new) /\ lasting' = [lasting EXCEPT ![r] = Anomalies]
          /\ new.pc \in {"idle", "tree"} /\ ~new.tracked /\ ~new.complete
          /\ new.pc = "tree" => new.state = "none"
    BY <1>1, BeginTypes
  <2>2. /\ req'[r] = new /\ \A t \in Requests \ {r} : req'[t] = req[t]
        /\ UNCHANGED <<alive, parent, conn>>
    BY <2>1, Updating
  <2>3. lasting'[r] = Anomalies /\ \A t \in Requests \ {r} : lasting'[t] = lasting[t]
    BY <2>1 DEF TypeOK
  <2>4. Gathered(r)'
    BY <2>1, <2>2 DEF Gathered
  <2>5. Anomalies' = Anomalies
    BY <2>2, SameAnomalies
  <2> QED BY <2>2, <2>3, <2>4, <2>5, OthersGather DEF LastsToNow
<1>2. ASSUME NEW r \in Requests, Step(r)
      PROVE  LastsToNow' /\ \A t \in Requests : Gathered(t)'
  <2>1. PICK new \in Request : Update(r, new) /\ UNCHANGED lasting
    BY <1>2, StepTypes
  <2>2. (\A t \in Requests \ {r} : req'[t] = req[t]) /\ UNCHANGED <<alive, parent, conn>>
    BY <2>1, Updating
  <2>3. Gathered(r)'
    BY <1>2, <2>1, <2>2, StepGathers
  <2> QED BY <2>1, <2>2, <2>3, OthersGather, SameAnomalies DEF LastsToNow
<1>3. CASE Environment
  <2>1. ASSUME NEW r \in Requests PROVE LastsToNow' /\ Gathered(r)'
    BY <1>3, HostKeepsGathered
  <2> QED BY <2>1 DEF LastsToNow
<1>4. CASE UNCHANGED vars
  BY <1>4, OthersGather, SameAnomalies DEF vars, host, LastsToNow
<1> QED BY <1>1, <1>2, <1>3, <1>4 DEF Next, Environment

-----------------------------------------------------------------------------
(* The theorems.                                                           *)

\* The invariant, and with it the types: what lasts is there, a request has
\* gathered it, and cached evidence is of the sing-box of its key or a later one.
THEOREM AttestationInvariance == Spec => []IInv
<1>1. Init => IInv
  <2> SUFFICES ASSUME Init PROVE IInv
    OBVIOUS
  <2>1. NoConnections \in Tracker /\ NoRequest \in Request
    BY DEF NoConnections, Tracker, NoRequest, Request
  <2>2. TypeOK
    BY <2>1, AttestationAssumption DEF Init, TypeOK
  <2>3. \A r \in Requests : Gathered(r) /\ Keyed(req[r])
    BY DEF Init, NoRequest, Gathered, Keyed
  <2> QED BY <2>2, <2>3 DEF Init, IInv, LastsToNow, OneAfterAnother, CacheIsFresh
<1>2. IInv /\ [Next]_vars => IInv'
  <2> SUFFICES ASSUME IInv, [Next]_vars PROVE IInv'
    OBVIOUS
  <2>1. TypeOK'
    BY TypesKept DEF IInv
  <2>2. OneAfterAnother' /\ CacheIsFresh' /\ \A t \in Requests : Keyed(req[t])'
    BY KeysKept DEF IInv
  <2>3. LastsToNow' /\ \A t \in Requests : Gathered(t)'
    BY <2>1, GatheredKept
  <2> QED BY <2>1, <2>2, <2>3 DEF IInv
<1> QED BY <1>1, <1>2, PTL DEF Spec

\* The state of the types that the runs check.
THEOREM AttestationTypes == Spec => []TypeOK
<1>1. IInv => TypeOK
  BY DEF IInv
<1> QED BY <1>1, AttestationInvariance, PTL

\* Another step than the report of this request leaves its state alone.
LEMMA OnlyReportReports ==
    ASSUME IInv, [Next]_vars, NEW r \in Requests, req[r].pc = "classify", ~Report(r)
    PROVE  req'[r] = req[r]
<1> USE DEF IInv
<1>1. ASSUME NEW t \in Requests, networkAttestation(t) \/ Step(t)
      PROVE  req'[r] = req[r]
  <2>1. t # r
    BY <1>1 DEF networkAttestation, Step, DiscoverAgentProcessTree, AttestAgentRoutes,
         AttestAgentPIDRoutes, JoinConnection, JoinDone, ReadConfig, ReadPID,
         LookupEvidence, CheckDataPlane, ObserveEgress, StoreEvidence
  <2>2. PICK new \in Request : Update(t, new)
    BY <1>1, BeginTypes, StepTypes
  <2> QED BY <2>1, <2>2, Updating
<1>2. CASE Environment
  BY <1>2, HostTypes
<1>3. CASE UNCHANGED vars
  BY <1>3 DEF vars
<1> QED BY <1>1, <1>2, <1>3 DEF Next, Environment

\* An anomaly that lasts from the beginning of a request to its report is in the
\* report, however many processes come, go, fork and inherit meanwhile, unless
\* one of the reads missed it (networkAttestation): the listing left the process
\* out, there is no PID evidence, or the row names fewer owners than there are.
THEOREM LastingAnomaliesAreReported == Spec => LastingAnomalyIsReported
<1>1. IInv /\ [Next]_vars =>
        [\A r \in Requests :
           req[r].pc = "classify" /\ req'[r].state \in {"partial", "verified"} =>
             /\ \A p \in req[r].tree : <<"unknown", p>> \notin lasting[r]
             /\ req[r].tracked =>
                  \A s \in Sources :
                    /\ <<"unowned", s>> \notin lasting[r]
                    /\ \A p \in req[r].tree :
                         <<"leak", <<s, p>>>> \in lasting[r] => req[r].rows[s] = {}
                    /\ \A p, t \in req[r].tree :
                         <<"shared", <<s, p, t>>>> \in lasting[r] =>
                            req[r].rows[s] # Nobody /\ ~({p, t} \subseteq req[r].rows[s])]_vars
  <2> SUFFICES ASSUME IInv, [Next]_vars, NEW r \in Requests, req[r].pc = "classify",
                      req'[r].state \in {"partial", "verified"}
               PROVE  /\ \A p \in req[r].tree : ~UnknownIn(r, p)
                      /\ req[r].tracked =>
                           \A s \in Sources :
                             /\ ~UnownedIn(r, s)
                             /\ \A p \in req[r].tree : LeakOf(r, s, p) => req[r].rows[s] = {}
                             /\ \A p, t \in req[r].tree :
                                  SharedBy(r, s, p, t) =>
                                     req[r].rows[s] # Nobody /\ ~({p, t} \subseteq req[r].rows[s])
    BY DEF UnknownIn, UnownedIn, LeakOf, SharedBy
  <2> DEFINE q == req[r]
  <2>1. Gathered(r) /\ q \in Request
    BY DEF IInv, TypeOK
  <2>2. Report(r)
    <3>1. q.state = "none"
      BY <2>1 DEF Gathered
    <3> QED BY <3>1, OnlyReportReports
  <2>3. Classification(q) \in {"partial", "verified"}
    <3>1. req'[r] = [NoRequest EXCEPT !.state = Classification(q)]
      BY <2>2, Updated DEF Report, IInv
    <3> QED BY <3>1 DEF NoRequest
  <2>4. q.complete /\ q.tree \ Known = {} /\ q.unexpected = {} /\ ~q.unclear
    BY <2>3 DEF Classification
  <2>5. \A p \in q.tree : ~UnknownIn(r, p)
    <3>1. q.tree \subseteq Procs
      BY <2>1 DEF Request
    <3> QED BY <2>4, <3>1, AnomalyFacts DEF IInv
  <2>6. q.tracked => \A s \in Sources : Judged(r, s)
    BY <2>1, <2>4 DEF Gathered
  <2> QED BY <2>4, <2>5, <2>6 DEF Judged
<1> QED BY <1>1, AttestationInvariance, PTL DEF Spec, LastingAnomalyIsReported

\* Evidence from the cache was observed through the sing-box the request found
\* running or a later one, whichever way stops, exits and restarts overtake the
\* probes (cachedPublicEgress).
THEOREM EvidenceIsCurrent == Spec => EvidenceIsOfThisDataPlane
<1>1. IInv /\ [Next]_vars =>
        [\A r \in Requests :
           req[r].pc = "lookup" /\ req'[r].pc = "classify" /\ req'[r].egress.available
              => req'[r].egress.through >= req[r].key.pid]_vars
  <2> SUFFICES ASSUME IInv, [Next]_vars, NEW r \in Requests, req[r].pc = "lookup",
                      req'[r].pc = "classify", req'[r].egress.available
               PROVE  req'[r].egress.through >= req[r].key.pid
    OBVIOUS
  <2> USE DEF IInv
  <2> DEFINE q == req[r]
  <2>1. q \in Request /\ CacheIsFresh
    BY DEF TypeOK
  <2>2. LookupEvidence(r)
    <3>1. ASSUME NEW t \in Requests, networkAttestation(t) \/ Step(t)
          PROVE  LookupEvidence(r)
      <4>1. PICK new \in Request : Update(t, new)
        BY <3>1, BeginTypes, StepTypes
      <4>2. t = r
        BY <4>1, Updating
      <4> QED BY <3>1, <4>2 DEF networkAttestation, Step, DiscoverAgentProcessTree,
              AttestAgentRoutes, AttestAgentPIDRoutes, JoinConnection, JoinDone, ReadConfig,
              ReadPID, CheckDataPlane, ObserveEgress, StoreEvidence, Report
    <3>2. ~Environment
      BY HostTypes
    <3> QED BY <3>1, <3>2 DEF Next, Environment, vars
  <2>3. cache # Nobody /\ cache.key = q.key /\ req'[r].egress = cache.value
    <3>1. \/ /\ cache # Nobody /\ cache.key = q.key
             /\ req'[r] = [q EXCEPT !.pc = "classify", !.egress = cache.value]
          \/ req'[r] = [q EXCEPT !.pc = "check"]
      BY <2>2, Updated DEF LookupEvidence
    <3> HIDE DEF q
    <3> QED BY <2>1, <3>1 DEF Request
  <2> QED BY <2>1, <2>3 DEF CacheIsFresh
<1> QED BY <1>1, AttestationInvariance, PTL DEF Spec, EvidenceIsOfThisDataPlane
=============================================================================

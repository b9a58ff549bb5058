---------------------------- MODULE Attestation ----------------------------
(***************************************************************************)
(* GET /api/attestation (internal/app/attestation.go): one report composed *)
(* of evidence that is read at different times - the process tree, two     *)
(* snapshots of sing-box's connection tracker, the owners of each socket,  *)
(* and an observation of the public address that may come from a cache -   *)
(* while processes, connections and the tunnel go on changing.             *)
(*                                                                         *)
(* Left out: the isolation dimension (a function of one setting) and the   *)
(* system-direct comparison (never looked at by the classification).       *)
(***************************************************************************)
EXTENDS Naturals, FiniteSets

CONSTANTS
    Requests,       \* goroutines that serve attestation requests
    Procs,          \* processes of the host, named by their identity
    Roots,          \* those whose own name or command line says Antigravity
    Known,          \* those classified as known, with no endpoint in their arguments
    Looks,          \* those whose path sing-box reports looks like Antigravity
    Sources,        \* local endpoints of connections
    VPNs,           \* upstream interfaces the configuration may select
    Nobody,         \* init as a parent; no process, no connection, no evidence
    Faults,         \* "list" (all processes), "procs" (one of them), "sockets" (owners),
                    \* "api" (connection tracker), "observer"
    MaxChanges      \* bound: changes of the host and of sing-box in a behaviour

ASSUME AttestationAssumption ==
    /\ Roots \subseteq Procs /\ Known \subseteq Procs /\ Looks \subseteq Procs
    /\ Nobody \notin Procs /\ \A ps \in SUBSET Procs : ps # Nobody
    /\ IsFiniteSet(Procs) /\ Procs \cap Sources = {}
    /\ Faults \subseteq {"list", "procs", "sockets", "api", "observer"}
    /\ MaxChanges \in Nat

VARIABLES
    alive, parent,  \* the process table
    conn,           \* the connection from each source, as sing-box tracks it
    instance,       \* the managed sing-box in tunnel mode (its PID), or 0
    started,        \* the last PID given to one; none is given twice
    vpn,            \* Manager.cfg.VPNInterface
    cache,          \* Server.egressCache
    req,            \* what each request has gathered
    lasting,        \* history: anomalies present ever since the request began
    changes

host == <<alive, parent, conn>>
plane == <<instance, started, vpn>>
vars == <<host, plane, cache, req, lasting, changes>>

\* owners: the processes that hold the socket; process: the one sing-box names.
Connection == [process : Procs \cup {Nobody}, owners : SUBSET Procs,
               out : {"vpn-direct", "system-direct"}]
Tracker == [Sources -> Connection \cup {Nobody}]

\* through: the sing-box the observer was asked through.
Evidence == [available : BOOLEAN, through : Nat]
Key == [pid : Nat, vpn : VPNs]

\* rows: the owners that the report names for a connection, if it has a row.
Request == [pc : {"idle", "tree", "routes", "pids", "owners", "config", "pid", "lookup",
                  "check", "observe", "store", "classify"},
            complete : BOOLEAN, tree : SUBSET Procs,
            route : {"none", "ok", "unexpected"},
            tracked : BOOLEAN, todo : SUBSET Sources, seen : Tracker,
            rows : [Sources -> (SUBSET Procs) \cup {Nobody}],
            active : SUBSET Procs, direct : SUBSET Procs, unexpected : SUBSET Procs,
            unclear : BOOLEAN,
            key : Key \cup {Nobody}, egress : Evidence \cup {Nobody},
            state : {"none", "idle", "partial", "verified", "degraded"}]

NoConnections == [s \in Sources |-> Nobody]
NoRequest == [pc |-> "idle", complete |-> FALSE, tree |-> {}, route |-> "none",
              tracked |-> FALSE, todo |-> {}, seen |-> NoConnections, rows |-> NoConnections,
              active |-> {}, direct |-> {}, unexpected |-> {}, unclear |-> FALSE,
              key |-> Nobody, egress |-> Nobody, state |-> "none"]

TypeOK ==
    /\ alive \subseteq Procs /\ parent \in [Procs -> Procs \cup {Nobody}]
    /\ conn \in Tracker /\ instance \in Nat /\ started \in Nat /\ vpn \in VPNs
    /\ cache \in [key : Key, value : Evidence] \cup {Nobody}
    /\ req \in [Requests -> Request]
    /\ lasting \in [Requests -> SUBSET (({"leak"} \X (Sources \X Procs))
                                        \cup ({"shared"} \X (Sources \X Procs \X Procs))
                                        \cup ({"unowned"} \X Sources) \cup ({"unknown"} \X Procs))]
    /\ changes \in 0..MaxChanges

Init ==
    /\ alive \in SUBSET Roots /\ parent = [p \in Procs |-> Nobody] /\ conn = NoConnections
    /\ instance \in {0, 1} /\ started = instance /\ vpn \in VPNs
    /\ cache = Nobody
    /\ req = [r \in Requests |-> NoRequest] /\ lasting = [r \in Requests |-> {}]
    /\ changes = 0

-----------------------------------------------------------------------------
(* The evidence, as it is at one moment.                                   *)

\* buildAgentProcessTree: the roots of a listing and all their descendants, which
\* are what every set has that holds the roots and the children of its members.
TreeOf(listed) ==
    LET families == {C \in SUBSET listed : /\ listed \cap Roots \subseteq C
                                           /\ \A p \in listed : parent[p] \in C => p \in C}
    IN  {p \in listed : \A C \in families : p \in C}
Tree == TreeOf(alive)

\* listPlatformProcesses: a process that cannot be read is skipped.
Listings == IF "procs" \in Faults THEN SUBSET alive ELSE {alive}

\* The candidates that hold the socket of this source now, whatever the tracker
\* said earlier.
Owners(s, candidates) ==
    IF conn[s] = Nobody THEN {} ELSE conn[s].owners \cap candidates

\* platformRuntimeConnectionOwners finds them, or fewer: it fails as a whole, does
\* not match a socket that is bound to the wildcard address, or cannot read the
\* descriptors of a candidate.
Found(s, candidates) ==
    IF "sockets" \in Faults THEN SUBSET Owners(s, candidates) ELSE {Owners(s, candidates)}

\* What a report should not keep quiet about: a process of the tree that holds
\* a connection outside vpn-direct, two that hold the same one, a connection
\* that looks like Antigravity's and is held by nobody in the tree, and unknown
\* descendants.
Live == {s \in Sources : conn[s] # Nobody}
Leaks(tree) ==
    {x \in Live \X tree : x[2] \in conn[x[1]].owners /\ conn[x[1]].out # "vpn-direct"}
Shared(tree) ==
    {x \in Live \X tree \X tree : x[2] # x[3] /\ {x[2], x[3]} \subseteq conn[x[1]].owners}
Unowned(tree) == {s \in Live : Owners(s, tree) = {} /\ conn[s].process \in Looks}
Anomalies ==
    LET tree == Tree IN
    ({"leak"} \X Leaks(tree)) \cup ({"shared"} \X Shared(tree))
      \cup ({"unowned"} \X Unowned(tree)) \cup ({"unknown"} \X (tree \ Known))

-----------------------------------------------------------------------------
(* networkAttestation.                                                     *)

Update(r, new) == req' = [req EXCEPT ![r] = new] /\ UNCHANGED <<host, plane, changes>>

\* The request begins; it goes on only with the tunnel active.
networkAttestation(r) ==
    /\ req[r].pc = "idle"
    /\ Update(r, IF instance = 0 THEN [NoRequest EXCEPT !.state = "idle"]
                 ELSE [NoRequest EXCEPT !.pc = "tree"])
    /\ lasting' = [lasting EXCEPT ![r] = Anomalies]
    /\ UNCHANGED cache

DiscoverAgentProcessTree(r) ==
    /\ req[r].pc = "tree"
    /\ \/ \E listed \in Listings :
            Update(r, [req[r] EXCEPT !.pc = "routes", !.complete = TRUE, !.tree = TreeOf(listed)])
       \/ "list" \in Faults /\ Update(r, [req[r] EXCEPT !.pc = "routes"])
    /\ UNCHANGED <<cache, lasting>>

\* RuntimeConnections fails without a running tunnel, or when its client does.
TrackerAnswers == instance # 0
TrackerFails == instance = 0 \/ "api" \in Faults

AttestAgentRoutes(r) ==
    /\ req[r].pc = "routes"
    /\ \/ /\ TrackerAnswers
          /\ LET leaks == {s \in Sources : /\ conn[s] # Nobody
                                           /\ conn[s].process \in Looks
                                           /\ conn[s].out # "vpn-direct"}
             IN  Update(r, [req[r] EXCEPT !.pc = "pids",
                              !.route = IF leaks = {} THEN "ok" ELSE "unexpected"])
       \/ TrackerFails /\ Update(r, [req[r] EXCEPT !.pc = "pids"])
    /\ UNCHANGED <<cache, lasting>>

\* A second snapshot, whose rows are then joined one by one.
AttestAgentPIDRoutes(r) ==
    /\ req[r].pc = "pids"
    /\ \/ /\ req[r].tree # {} /\ TrackerAnswers
          /\ Update(r, [req[r] EXCEPT !.pc = "owners", !.tracked = TRUE, !.seen = conn,
                          !.todo = {s \in Sources : conn[s] # Nobody}])
       \/ /\ req[r].tree = {} \/ TrackerFails
          /\ Update(r, [req[r] EXCEPT !.pc = "classify"])
    /\ UNCHANGED <<cache, lasting>>

\* A row that is not resolved, by an error or without an owner, counts only when
\* its path looks like Antigravity's.
JoinConnection(r, s) ==
    /\ req[r].pc = "owners" /\ s \in req[r].todo
    /\ \E owners \in Found(s, req[r].tree) :
         LET c == req[r].seen[s]
             next == [req[r] EXCEPT !.todo = @ \ {s}, !.rows[s] = owners]
         IN  \/ /\ owners = {}
                /\ Update(r, [next EXCEPT !.unclear = @ \/ c.process \in Looks])
             \/ /\ Cardinality(owners) = 1
                /\ Update(r, IF c.out = "vpn-direct"
                             THEN [next EXCEPT !.active = @ \cup owners, !.direct = @ \cup owners]
                             ELSE [next EXCEPT !.active = @ \cup owners,
                                               !.unexpected = @ \cup owners])
             \/ /\ Cardinality(owners) > 1
                /\ Update(r, [next EXCEPT !.unclear = TRUE])
    /\ UNCHANGED <<cache, lasting>>

\* Public observers are asked only for an attributable live connection.
JoinDone(r) ==
    /\ req[r].pc = "owners" /\ req[r].todo = {}
    /\ Update(r, [req[r] EXCEPT !.seen = NoConnections,
                    !.pc = IF req[r].active # {} THEN "config" ELSE "classify"])
    /\ UNCHANGED <<cache, lasting>>

-----------------------------------------------------------------------------
(* cachedPublicEgress and AttestPublicEgress.                              *)

\* The key is read in two steps, configuration first.
ReadConfig(r) ==
    /\ req[r].pc = "config"
    /\ Update(r, [req[r] EXCEPT !.pc = "pid", !.key = [pid |-> 0, vpn |-> vpn]])
    /\ UNCHANGED <<cache, lasting>>

ReadPID(r) ==
    /\ req[r].pc = "pid"
    /\ Update(r, [req[r] EXCEPT !.pc = "lookup", !.key.pid = instance])
    /\ UNCHANGED <<cache, lasting>>

\* Mutant: entries are found by the configuration only.
BugLookupByConfig(r) ==
    /\ req[r].pc = "lookup"
    /\ Update(r, IF cache # Nobody /\ cache.key.vpn = req[r].key.vpn
                 THEN [req[r] EXCEPT !.pc = "classify", !.egress = cache.value]
                 ELSE [req[r] EXCEPT !.pc = "check"])
    /\ UNCHANGED <<cache, lasting>>

LookupEvidence(r) ==
    /\ req[r].pc = "lookup"
    /\ Update(r, IF cache # Nobody /\ cache.key = req[r].key
                 THEN [req[r] EXCEPT !.pc = "classify", !.egress = cache.value]
                 ELSE [req[r] EXCEPT !.pc = "check"])
    /\ UNCHANGED <<cache, lasting>>

Unavailable == [available |-> FALSE, through |-> 0]

\* The tunnel must run and own its listener before anybody is asked.
CheckDataPlane(r) ==
    /\ req[r].pc = "check"
    /\ Update(r, IF instance = 0 THEN [req[r] EXCEPT !.pc = "store", !.egress = Unavailable]
                 ELSE [req[r] EXCEPT !.pc = "observe"])
    /\ UNCHANGED <<cache, lasting>>

\* The observers are asked through whichever sing-box listens by then.
ObserveEgress(r) ==
    /\ req[r].pc = "observe"
    /\ \/ /\ instance # 0
          /\ Update(r, [req[r] EXCEPT !.pc = "store",
                          !.egress = [available |-> TRUE, through |-> instance]])
       \/ /\ instance = 0 \/ "observer" \in Faults
          /\ Update(r, [req[r] EXCEPT !.pc = "store", !.egress = Unavailable])
    /\ UNCHANGED <<cache, lasting>>

StoreEvidence(r) ==
    /\ req[r].pc = "store"
    /\ cache' = [key |-> req[r].key, value |-> req[r].egress]
    /\ Update(r, [req[r] EXCEPT !.pc = "classify"])
    /\ UNCHANGED lasting

\* CoverageComplete: the observers speak HTTPS over TCP only, so UDP and QUIC
\* are never observed.
Observed == {"ipv4", "ipv6", "tcp"}
CoverageComplete == {"ipv4", "ipv6", "tcp", "udp", "quic"} \subseteq Observed

\* Mutant: the joined evidence of the PIDs is not looked at.
BugClassifyByPath(q) ==
    IF ~q.complete \/ q.tree \ Known # {} \/ q.route = "unexpected" \/ q.unclear
    THEN "degraded"
    ELSE "partial"

\* classifyNetworkAttestation.
Classification(q) ==
    IF ~q.complete \/ q.tree \ Known # {} \/ q.route = "unexpected"
       \/ q.unexpected # {} \/ q.unclear
    THEN "degraded"
    ELSE IF q.tree = {} \/ q.route = "none" \/ ~q.tracked \/ q.active = {} THEN "partial"
    ELSE IF q.direct # q.active THEN "degraded"
    ELSE IF q.egress.available /\ CoverageComplete THEN "verified" ELSE "partial"

Report(r) ==
    /\ req[r].pc = "classify"
    /\ Update(r, [NoRequest EXCEPT !.state = Classification(req[r])])
    /\ UNCHANGED <<cache, lasting>>

-----------------------------------------------------------------------------
(* The host, sing-box and the cache's clock.                               *)

\* A change of the host: anomalies that are gone have not lasted.
Change ==
    /\ changes < MaxChanges /\ changes' = changes + 1
    /\ lasting' = [r \in Requests |-> lasting[r] \cap Anomalies']
    /\ UNCHANGED req

\* A PID is given again only after all the others: not while a request looks
\* at a tree that has it.
Spawn(p, by) ==
    /\ p \notin alive /\ \A r \in Requests : p \notin req[r].tree
    /\ alive' = alive \cup {p} /\ parent' = [parent EXCEPT ![p] = by]
    /\ UNCHANGED <<conn, plane, cache>> /\ Change

\* A connection without owners is closed; orphans are given to init.
ProcessExits(p) ==
    /\ p \in alive
    /\ alive' = alive \ {p}
    /\ parent' = [q \in Procs |-> IF q = p \/ parent[q] = p THEN Nobody ELSE parent[q]]
    /\ conn' = [s \in Sources |->
                  IF conn[s] = Nobody \/ conn[s].owners \subseteq {p} THEN Nobody
                  ELSE [conn[s] EXCEPT !.owners = @ \ {p}]]
    /\ UNCHANGED <<plane, cache>> /\ Change

\* sing-box may not find the process behind a connection.
Connect(s, p) ==
    /\ instance # 0 /\ p \in alive /\ conn[s] = Nobody
    /\ \E named \in {p, Nobody}, out \in {"vpn-direct", "system-direct"} :
         conn' = [conn EXCEPT ![s] = [process |-> named, owners |-> {p}, out |-> out]]
    /\ UNCHANGED <<alive, parent, plane, cache>> /\ Change

\* A child inherits the socket.
Inherit(s, p) ==
    /\ p \in alive /\ conn[s] # Nobody /\ parent[p] \in conn[s].owners
    /\ conn' = [conn EXCEPT ![s].owners = @ \cup {p}]
    /\ UNCHANGED <<alive, parent, plane, cache>> /\ Change

Disconnect(s) ==
    /\ conn[s] # Nobody
    /\ conn' = [conn EXCEPT ![s] = Nobody]
    /\ UNCHANGED <<alive, parent, plane, cache>> /\ Change

StartAgentTunnel ==
    /\ instance = 0
    /\ started' = started + 1 /\ instance' = started'
    /\ UNCHANGED <<host, vpn, cache>> /\ Change

\* invalidateEgressEvidence follows a stop, but not an exit of sing-box.
TunnelEnds ==
    /\ instance # 0
    /\ instance' = 0 /\ conn' = NoConnections
    /\ cache' \in {cache, Nobody}
    /\ UNCHANGED <<alive, parent, started, vpn>> /\ Change

\* The configuration changes before the cache is invalidated.
ConfigChanges(v) ==
    /\ instance = 0 /\ v # vpn
    /\ vpn' = v /\ cache' \in {cache, Nobody}
    /\ UNCHANGED <<host, instance, started>> /\ Change

\* The entry's time is over.
Expire ==
    /\ cache # Nobody /\ cache' = Nobody
    /\ UNCHANGED <<host, plane, req, lasting, changes>>

-----------------------------------------------------------------------------
Step(r) ==
    \/ DiscoverAgentProcessTree(r) \/ AttestAgentRoutes(r) \/ AttestAgentPIDRoutes(r)
    \/ (\E s \in Sources : JoinConnection(r, s)) \/ JoinDone(r)
    \/ ReadConfig(r) \/ ReadPID(r) \/ LookupEvidence(r)
    \/ CheckDataPlane(r) \/ ObserveEgress(r) \/ StoreEvidence(r) \/ Report(r)

Next ==
    \/ \E r \in Requests : networkAttestation(r) \/ Step(r)
    \/ \E p \in Procs : ProcessExits(p) \/ \E by \in (alive \cup {Nobody}) : Spawn(p, by)
    \/ \E s \in Sources : Disconnect(s) \/ \E p \in Procs : Connect(s, p) \/ Inherit(s, p)
    \/ StartAgentTunnel \/ TunnelEnds \/ (\E v \in VPNs : ConfigChanges(v))
    \/ Expire

Spec == Init /\ [][Next]_vars
-----------------------------------------------------------------------------
(* Properties.                                                             *)

\* Although the tree, both snapshots and the sockets are read at different times,
\* an anomaly that was there from the beginning of the request to its end is
\* reported as partial or verified ("never promoted to verified assurance",
\* EGRESS_ATTESTATION) only if the reads themselves missed it:
\*   - the listing skipped the process, or one on the way to it from a root;
\*   - the report has no PID evidence, as the tracker could not be read or the tree
\*     that was read is empty;
\*   - the lookup of the owners found fewer than there are: nobody, for a leak, or
\*     one of two who share a connection - which then still has its row.
\* None of these excuses an unknown descendant that was listed, nor, with PID
\* evidence, a connection that looks like Antigravity's and is of no process in
\* the tree.
LastingAnomalyIsReported ==
    [][\A r \in Requests :
         req[r].pc = "classify" /\ req'[r].state \in {"partial", "verified"} =>
           /\ \A p \in req[r].tree : <<"unknown", p>> \notin lasting[r]
           /\ req[r].tracked =>
                \A s \in Sources :
                  /\ <<"unowned", s>> \notin lasting[r]
                  /\ \A p \in req[r].tree :
                       <<"leak", <<s, p>>>> \in lasting[r] => req[r].rows[s] = {}
                  /\ \A p, t \in req[r].tree :
                       <<"shared", <<s, p, t>>>> \in lasting[r] =>
                          req[r].rows[s] # Nobody /\ ~({p, t} \subseteq req[r].rows[s])]_vars

\* Evidence taken from the cache was observed through the sing-box the request
\* found running or a later one, never through one before it, whichever way
\* probes, stops, exits and restarts overtake each other (cachedPublicEgress:
\* "make stale evidence from a previous data-plane instance unusable").
EvidenceIsOfThisDataPlane ==
    [][\A r \in Requests :
         req[r].pc = "lookup" /\ req'[r].pc = "classify" /\ req'[r].egress.available
            => req'[r].egress.through >= req[r].key.pid]_vars
=============================================================================

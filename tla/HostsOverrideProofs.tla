------------------------- MODULE HostsOverrideProofs -------------------------
(***************************************************************************)
(* HostsOverride, proved for every set of handlers, addresses, time limit  *)
(* and combination of faults: the record and the block of a handler that   *)
(* ran alone belong together, so a start removes an override exactly when  *)
(* its time is over.                                                       *)
(***************************************************************************)
EXTENDS HostsOverride, TLAPS

\* Handlers run only under a control plane that is up.
HandlersNeedServer == server # "up" => Quiet

\* A handler that is alone is the only one that runs.
AloneIsAlone ==
    \A p, q \in Requests :
        p # q /\ alone[p] /\ req[p].pc # "idle" => req[q].pc = "idle"

\* Between the two writes of SetHostsOverride the files do not match, and a
\* handler that is alone finds its own block when it writes the record.
BetweenWrites ==
    \A q \in Requests : req[q].pc = "meta" =>
        /\ torn # "no"
        /\ req[q].ip \in IPs
        /\ alone[q] => block = req[q].ip

\* OverrideIsRecorded, while handlers run as well: a record is never written for
\* a later time than now, so not for that of a block which comes after it.
Recorded ==
    /\ torn = "no" /\ block # None => Owned /\ meta.expires >= since + TTL
    /\ torn = "cut" /\ meta # None => meta.expires <= since + TTL
    /\ meta # None => meta.expires <= now + TTL

\* New has looked before it removes the block, and removes the record after it.
Expiring ==
    /\ server = "hosts" => Expired /\ Owned
    /\ server = "metadata" => block = None

IInv ==
    /\ TypeOK /\ since <= now
    /\ \A q \in Requests : req[q].pc = "enable" => req[q].ip \in IPs
    /\ HandlersNeedServer /\ AloneIsAlone /\ BetweenWrites /\ Recorded /\ Expiring

-----------------------------------------------------------------------------
(* The steps.                                                              *)

\* A host without an override.
LEMMA Initial == Init => IInv
<1> SUFFICES ASSUME Init
             PROVE  IInv
  OBVIOUS
<1>1. /\ NoRequest \in Request
      /\ \A q \in Requests : req[q] = NoRequest /\ req[q].pc = "idle"
  BY DEF Init, NoRequest, Request
<1>2. TypeOK
  <2>1. req \in [Requests -> Request] /\ alone \in [Requests -> BOOLEAN]
    BY <1>1 DEF Init
  <2>2. now \in 0..MaxTime /\ since \in 0..MaxTime
    BY HostsAssumption DEF Init
  <2> QED
    BY <2>1, <2>2 DEF Init, TypeOK
<1>3. since <= now
  BY DEF Init
<1> QED
  BY <1>1, <1>2, <1>3
     DEF Init, IInv, HandlersNeedServer, AloneIsAlone, BetweenWrites, Recorded, Expiring, Quiet

\* A handler begins: whoever runs is no longer alone.
LEMMA BeginStep ==
    ASSUME IInv, NEW q \in Requests, Begin(q),
           NEW pc \in {"enable", "disable"}, NEW ip \in IPs \cup {None},
           pc = "enable" => ip \in IPs,
           req' = [req EXCEPT ![q] = [pc |-> pc, ip |-> ip]]
    PROVE  IInv'
<1>0. /\ TypeOK /\ server = "up" /\ req[q].pc = "idle"
      /\ UNCHANGED <<now, block, meta, server, writable, since, torn>>
  BY DEF IInv, Begin, files, history
<1>1. \A p \in Requests : req'[p] = IF p = q THEN [pc |-> pc, ip |-> ip] ELSE req[p]
  BY <1>0 DEF TypeOK
<1>2. /\ alone' \in [Requests -> BOOLEAN]
      /\ \A p \in Requests : alone'[p] =
           IF p = q THEN {r \in Requests : req[r].pc # "idle"} = {}
           ELSE alone[p] /\ p \notin {r \in Requests : req[r].pc # "idle"}
  BY <1>0 DEF Begin, TypeOK
<1>3. TypeOK'
  BY <1>0, <1>2 DEF TypeOK, Request
<1>4. AloneIsAlone'
  BY <1>0, <1>1, <1>2 DEF AloneIsAlone
<1>5. BetweenWrites'
  <2> SUFFICES ASSUME NEW p \in Requests, req'[p].pc = "meta"
               PROVE  torn' # "no" /\ req'[p].ip \in IPs /\ (alone'[p] => block' = req'[p].ip)
    BY DEF BetweenWrites
  <2>1. p # q /\ req'[p] = req[p]
    BY <1>1
  <2> QED
    BY <1>0, <1>2, <2>1 DEF IInv, BetweenWrites
<1>6. HandlersNeedServer' /\ Recorded' /\ Expiring'
  BY <1>0 DEF IInv, HandlersNeedServer, Recorded, Expiring, Owned, Expired
<1> QED
  BY <1>0, <1>1, <1>3, <1>4, <1>5, <1>6 DEF IInv

\* A handler returns and leaves the files as they are.
LEMMA ReturnStep ==
    ASSUME IInv, NEW q \in Requests, req' = [req EXCEPT ![q] = NoRequest],
           UNCHANGED <<now, meta, server, writable, alone, since, torn>>,
           block' = block \/ (block' = None /\ req[q].pc = "disable")
    PROVE  IInv'
<1>0. TypeOK
  BY DEF IInv
<1>1. \A p \in Requests : req'[p] = IF p = q THEN NoRequest ELSE req[p]
  BY <1>0 DEF TypeOK
<1>2. TypeOK'
  BY <1>0 DEF TypeOK, Request, NoRequest
<1>3. AloneIsAlone' /\ HandlersNeedServer'
  BY <1>1 DEF IInv, AloneIsAlone, HandlersNeedServer, Quiet, NoRequest
<1>4. BetweenWrites'
  <2> SUFFICES ASSUME NEW p \in Requests, req'[p].pc = "meta"
               PROVE  torn' # "no" /\ req'[p].ip \in IPs /\ (alone'[p] => block' = req'[p].ip)
    BY DEF BetweenWrites
  <2>1. p # q /\ req'[p] = req[p]
    BY <1>1 DEF NoRequest
  <2> QED
    BY <2>1 DEF IInv, BetweenWrites, AloneIsAlone
<1>5. Recorded' /\ Expiring'
  <2>1. server = "hosts" => req[q].pc # "disable"
    BY DEF IInv, HandlersNeedServer, Quiet
  <2> QED
    BY <2>1 DEF IInv, Recorded, Expiring, Owned, Expired
<1> QED
  BY <1>1, <1>2, <1>3, <1>4, <1>5 DEF IInv, NoRequest

\* A step of the start, or of time: no handler moves, and the files stay.
LEMMA QuietStep ==
    ASSUME IInv, TypeOK', now <= now', UNCHANGED <<files, req, history, alone>>,
           HandlersNeedServer', Expiring'
    PROVE  IInv'
<1>1. since' <= now'
  BY DEF IInv, TypeOK, history
<1>2. meta' # None => meta'.expires <= now' + TTL
  <2> SUFFICES ASSUME meta \in Metadata
               PROVE  meta.expires <= now' + TTL
    BY DEF IInv, TypeOK, files
  <2>1. /\ meta.expires \in Nat /\ now \in Nat /\ now' \in Nat /\ TTL \in Nat
        /\ meta.expires <= now + TTL /\ now <= now'
    BY HostsAssumption DEF IInv, TypeOK, Recorded, Metadata
  <2> QED
    BY <2>1
<1> QED
  BY <1>1, <1>2
     DEF IInv, AloneIsAlone, BetweenWrites, Recorded, Owned, files, history

\* The first write of SetHostsOverride, after which the handler may end.
LEMMA WriteBlockStep ==
    ASSUME IInv, NEW q \in Requests, WriteBlock(q)
    PROVE  IInv'
<1>0. /\ TypeOK /\ req[q].pc = "enable" /\ req[q].ip \in IPs
      /\ block' = req[q].ip /\ since' = now /\ torn' \in {"cut", "overlap"}
      /\ UNCHANGED <<now, meta, server, writable, alone>>
      /\ req' = [req EXCEPT ![q].pc = "meta"] \/ req' = [req EXCEPT ![q] = NoRequest]
  BY DEF IInv, WriteBlock
<1>1. /\ \A p \in Requests \ {q} : req'[p] = req[p]
      /\ \/ req'[q].pc = "meta" /\ req'[q].ip = req[q].ip
         \/ req'[q].pc = "idle"
  BY <1>0 DEF TypeOK, Request, NoRequest
<1>2. TypeOK'
  <2>1. req' \in [Requests -> Request]
    BY <1>0 DEF TypeOK, Request, NoRequest
  <2> QED
    BY <1>0, <2>1 DEF TypeOK
<1>3. server = "up"
  BY <1>0 DEF IInv, HandlersNeedServer, Quiet
<1>4. AloneIsAlone' /\ HandlersNeedServer'
  BY <1>0, <1>1, <1>3 DEF IInv, AloneIsAlone, HandlersNeedServer
<1>5. BetweenWrites'
  BY <1>0, <1>1 DEF IInv, BetweenWrites, AloneIsAlone
<1>6. Recorded' /\ Expiring' /\ since' <= now'
  <2>1. meta # None => meta.expires <= now + TTL
    BY DEF IInv, Recorded
  <2>2. Recorded'
    BY <1>0, <2>1 DEF Recorded
  <2> QED
    BY <1>0, <1>3, <2>2 DEF Expiring, TypeOK
<1>7. \A p \in Requests : req'[p].pc = "enable" => req'[p].ip \in IPs
  BY <1>1 DEF IInv
<1> QED
  BY <1>2, <1>4, <1>5, <1>6, <1>7 DEF IInv

\* The second one: the record matches the block unless another handler ran.
LEMMA WriteMetadataStep ==
    ASSUME IInv, NEW q \in Requests, WriteMetadata(q)
    PROVE  IInv'
<1>0. /\ TypeOK /\ req[q].pc = "meta"
      /\ meta' = [ip |-> req[q].ip, expires |-> now + TTL]
      /\ torn' = (IF alone[q] THEN "no" ELSE "overlap") /\ req' = [req EXCEPT ![q] = NoRequest]
      /\ UNCHANGED <<now, block, server, writable, since, alone>>
  BY DEF IInv, WriteMetadata
<1>1. \A p \in Requests : req'[p] = IF p = q THEN NoRequest ELSE req[p]
  BY <1>0 DEF TypeOK
<1>2. /\ req[q].ip \in IPs /\ (alone[q] => block = req[q].ip)
      /\ now \in Nat /\ TTL \in Nat /\ since \in Nat /\ since <= now
  BY <1>0, HostsAssumption DEF IInv, BetweenWrites, TypeOK
<1>3. meta' \in Metadata /\ meta'.ip = req[q].ip /\ meta'.expires = now + TTL
  BY <1>0, <1>2 DEF Metadata
<1>4. TypeOK'
  BY <1>0, <1>3 DEF TypeOK, Request, NoRequest
<1>5. server = "up"
  BY <1>0 DEF IInv, HandlersNeedServer, Quiet
<1>6. AloneIsAlone' /\ HandlersNeedServer' /\ Expiring'
  BY <1>0, <1>1, <1>5 DEF IInv, AloneIsAlone, HandlersNeedServer, NoRequest, Expiring
<1>7. BetweenWrites'
  <2> SUFFICES ASSUME NEW p \in Requests, req'[p].pc = "meta"
               PROVE  torn' # "no" /\ req'[p].ip \in IPs /\ (alone'[p] => block' = req'[p].ip)
    BY DEF BetweenWrites
  <2>1. p # q /\ req'[p] = req[p]
    BY <1>1 DEF NoRequest
  <2>2. ~alone[q]
    BY <1>0, <2>1 DEF IInv, AloneIsAlone
  <2> QED
    BY <1>0, <2>1, <2>2 DEF IInv, BetweenWrites
<1>8. Recorded'
  <2>1. meta' # None
    BY <1>3, HostsAssumption
  <2>2. torn' # "cut" /\ (torn' = "no" => alone[q])
    BY <1>0
  <2>3. meta'.expires >= since' + TTL
    BY <1>0, <1>2, <1>3
  <2> QED
    BY <1>0, <1>2, <1>3, <2>1, <2>2, <2>3 DEF Recorded, Owned
<1> QED
  BY <1>0, <1>1, <1>2, <1>4, <1>6, <1>7, <1>8 DEF IInv, NoRequest

\* ExpireHostsOverride looks and decides, and changes neither file.
LEMMA LookStep == IInv /\ ExpireHostsOverride => IInv'
<1> SUFFICES ASSUME IInv, ExpireHostsOverride
             PROVE  IInv'
  OBVIOUS
<1>0. /\ TypeOK /\ server = "down"
      /\ writable' \in BOOLEAN
      /\ server' = CASE ~Expired -> "up"
                     [] Expired /\ Owned -> "hosts"
                     [] Expired /\ ~Owned -> "refused"
      /\ UNCHANGED <<now, block, meta, req, alone, since, torn>>
  BY DEF IInv, ExpireHostsOverride, files, history
<1>1. \/ server' \in {"up", "refused"}
      \/ server' = "hosts" /\ Expired /\ Owned
  <2>1. CASE ~Expired
    BY <1>0, <2>1
  <2>2. CASE Expired /\ Owned
    BY <1>0, <2>2
  <2>3. CASE Expired /\ ~Owned
    BY <1>0, <2>3
  <2> QED
    BY <2>1, <2>2, <2>3
<1>2. TypeOK'
  BY <1>0, <1>1 DEF TypeOK
<1>3. Quiet'
  BY <1>0 DEF IInv, HandlersNeedServer, Quiet
<1>4. HandlersNeedServer' /\ Expiring'
  BY <1>0, <1>1, <1>3 DEF HandlersNeedServer, Expiring, Expired, Owned
<1>5. now <= now' /\ UNCHANGED <<files, req, history, alone>>
  BY <1>0 DEF files, history, TypeOK
<1> QED
  BY <1>2, <1>4, <1>5, QuietStep

\* The start removes the block of the override that is over.
LEMMA RemoveBlockStep == IInv /\ RemoveExpiredBlock => IInv'
<1> SUFFICES ASSUME IInv, RemoveExpiredBlock
             PROVE  IInv'
  OBVIOUS
<1>0. /\ TypeOK /\ server = "hosts"
      /\ block' = None /\ torn' = "no" /\ server' \in {"metadata", "refused"}
      /\ UNCHANGED <<now, meta, req, writable, since, alone>>
  BY DEF IInv, RemoveExpiredBlock
<1>1. Quiet /\ Quiet'
  BY <1>0 DEF IInv, HandlersNeedServer, Quiet
<1>2. TypeOK'
  BY <1>0 DEF TypeOK
<1>3. HandlersNeedServer' /\ AloneIsAlone' /\ BetweenWrites' /\ Recorded' /\ Expiring'
  BY <1>0, <1>1
     DEF IInv, HandlersNeedServer, AloneIsAlone, BetweenWrites, Recorded, Expiring, Quiet
<1> QED
  BY <1>0, <1>2, <1>3 DEF IInv

\* It removes the record when the block is gone.
LEMMA RemoveRecordStep == IInv /\ RemoveMetadata => IInv'
<1> SUFFICES ASSUME IInv, RemoveMetadata
             PROVE  IInv'
  OBVIOUS
<1>0. /\ TypeOK /\ server = "metadata" /\ block = None
      /\ meta' = None /\ server' = "up"
      /\ UNCHANGED <<now, block, req, writable, alone, since, torn>>
  BY DEF IInv, RemoveMetadata, Expiring, history
<1>1. TypeOK'
  BY <1>0 DEF TypeOK
<1>2. HandlersNeedServer' /\ AloneIsAlone' /\ BetweenWrites' /\ Recorded' /\ Expiring'
  BY <1>0
     DEF IInv, HandlersNeedServer, AloneIsAlone, BetweenWrites, Recorded, Expiring
<1> QED
  BY <1>0, <1>1, <1>2 DEF IInv

\* The control plane stops, is refused its start, or starts with a warning.
LEMMA ServerStep == IInv /\ (NotPermitted \/ ExpireFails \/ Stop) => IInv'
<1> SUFFICES ASSUME IInv, NotPermitted \/ ExpireFails \/ Stop
             PROVE  IInv'
  OBVIOUS
<1>0. /\ TypeOK /\ Quiet /\ server' \in {"up", "refused", "down"}
      /\ UNCHANGED <<now, block, meta, req, writable, alone, since, torn>>
  BY DEF IInv, NotPermitted, ExpireFails, Stop, HandlersNeedServer, Quiet, files, history
<1>1. TypeOK' /\ HandlersNeedServer' /\ Expiring'
  BY <1>0 DEF TypeOK, HandlersNeedServer, Quiet, Expiring
<1>2. now <= now' /\ UNCHANGED <<files, req, history, alone>>
  BY <1>0 DEF files, history, TypeOK
<1> QED
  BY <1>1, <1>2, QuietStep

\* Time passes.
LEMMA TickStep == IInv /\ Tick => IInv'
<1> SUFFICES ASSUME IInv, Tick
             PROVE  IInv'
  OBVIOUS
<1>0. /\ TypeOK /\ now < MaxTime /\ now' = now + 1
      /\ UNCHANGED <<block, meta, server, req, writable, alone, since, torn>>
  BY DEF IInv, Tick, files, history
<1>1. TypeOK' /\ now <= now'
  BY <1>0, HostsAssumption DEF TypeOK
<1>2. Expired => Expired'
  <2> SUFFICES ASSUME meta \in Metadata, now >= meta.expires
               PROVE  now' >= meta.expires
    BY <1>0 DEF Expired, TypeOK
  <2>1. meta.expires \in Nat /\ now \in Nat
    BY <1>0, HostsAssumption DEF Metadata, TypeOK
  <2> QED
    BY <1>0, <2>1
<1>3. HandlersNeedServer' /\ Expiring'
  BY <1>0, <1>2 DEF IInv, HandlersNeedServer, Quiet, Expiring, Owned
<1>4. UNCHANGED <<files, req, history, alone>>
  BY <1>0 DEF files, history
<1> QED
  BY <1>1, <1>3, <1>4, QuietStep

\* The control plane dies with the handlers it runs; the files stay.
LEMMA CrashStep == IInv /\ Crash => IInv'
<1> SUFFICES ASSUME IInv, Crash
             PROVE  IInv'
  OBVIOUS
<1>0. /\ TypeOK /\ server' = "down" /\ req' = [q \in Requests |-> NoRequest]
      /\ UNCHANGED <<now, block, meta, writable, alone, since, torn>>
  BY DEF IInv, Crash, files, history
<1>1. \A q \in Requests : req'[q].pc = "idle"
  BY <1>0 DEF NoRequest
<1>2. TypeOK'
  BY <1>0 DEF TypeOK, Request, NoRequest
<1>3. HandlersNeedServer' /\ AloneIsAlone' /\ BetweenWrites' /\ Recorded' /\ Expiring'
  BY <1>0, <1>1
     DEF IInv, HandlersNeedServer, Quiet, AloneIsAlone, BetweenWrites, Recorded, Owned, Expiring
<1> QED
  BY <1>0, <1>1, <1>2, <1>3 DEF IInv

\* Every step keeps it.
LEMMA Preserved == IInv /\ [Next]_vars => IInv'
<1> SUFFICES ASSUME IInv, [Next]_vars
             PROVE  IInv'
  OBVIOUS
<1>1. ASSUME NEW q \in Requests, SetHostsOverride(q)
      PROVE  IInv'
  <2>1. PICK ip \in IPs : req' = [req EXCEPT ![q] = [pc |-> "enable", ip |-> ip]]
    BY <1>1 DEF SetHostsOverride
  <2> QED
    BY <1>1, <2>1, BeginStep DEF SetHostsOverride
<1>2. ASSUME NEW q \in Requests, RemoveHostsOverride(q)
      PROVE  IInv'
  <2>1. /\ req \in [Requests -> Request] /\ Begin(q)
        /\ req' = [req EXCEPT ![q].pc = "disable"]
    BY <1>2 DEF RemoveHostsOverride, IInv, TypeOK
  <2>2. /\ req[q].ip \in IPs \cup {None}
        /\ [req[q] EXCEPT !.pc = "disable"] = [pc |-> "disable", ip |-> req[q].ip]
    BY <2>1 DEF Request
  <2>3. req' = [req EXCEPT ![q] = [pc |-> "disable", ip |-> req[q].ip]]
    BY <2>1, <2>2
  <2> QED
    BY <2>1, <2>2, <2>3, BeginStep
<1>3. ASSUME NEW q \in Requests, RemoveBlock(q) \/ WriteFails(q)
      PROVE  IInv'
  BY <1>3, ReturnStep DEF RemoveBlock, WriteFails, files, history
<1>4. CASE UNCHANGED vars
  BY <1>4
     DEF vars, files, history, IInv, TypeOK, HandlersNeedServer, AloneIsAlone, BetweenWrites,
         Recorded, Expiring, Quiet, Owned, Expired
<1> QED
  BY <1>1, <1>2, <1>3, <1>4, WriteBlockStep, WriteMetadataStep, LookStep, RemoveBlockStep,
     RemoveRecordStep, ServerStep, TickStep, CrashStep
     DEF Next

-----------------------------------------------------------------------------
(* The theorems.                                                           *)

\* The invariant, for any number of handlers, crashes and failed writes.
THEOREM HostsInvariance == Spec => []IInv
  BY Initial, Preserved, PTL DEF Spec

\* ExpireHostsOverride can tell that a block is its own, and its time is not
\* cut short: whatever overlapped or crashed before, the files of a handler
\* that ran alone belong together.
THEOREM RecordIsTrusted == Spec => []OverrideIsRecorded
<1>1. IInv => OverrideIsRecorded
  BY DEF IInv, Recorded, Owned, OverrideIsRecorded
<1> QED
  BY <1>1, HostsInvariance, PTL

\* ExpireHostsOverride does not remove an override before its time.
THEOREM StartSparesTheYoung == Spec => YoungOverrideSurvives
<1>1. IInv /\ IInv' /\ [Next]_vars =>
        (server = "hosts" /\ torn = "no" /\ block' # block => now >= since + TTL)
  <2> SUFFICES ASSUME IInv, [Next]_vars, server = "hosts", torn = "no", block' # block
               PROVE  now >= since + TTL
    OBVIOUS
  <2>1. Quiet
    BY DEF IInv, HandlersNeedServer
  <2>2. RemoveExpiredBlock
    BY <2>1
       DEF Next, vars, files, Quiet, Begin, SetHostsOverride, WriteBlock, WriteMetadata,
           RemoveHostsOverride, RemoveBlock, WriteFails, ExpireHostsOverride, NotPermitted,
           RemoveMetadata, ExpireFails, Tick, Stop, Crash
  <2>3. block # None
    BY <2>2 DEF RemoveExpiredBlock
  <2>4. /\ meta \in Metadata /\ now >= meta.expires /\ meta.expires >= since + TTL
    BY <2>3 DEF IInv, TypeOK, Expiring, Expired, Recorded
  <2>5. meta.expires \in Nat /\ now \in Nat /\ since \in Nat /\ TTL \in Nat
    BY <2>4, HostsAssumption DEF IInv, TypeOK, Metadata
  <2> QED
    BY <2>4, <2>5
<1>2. IInv /\ IInv' /\ [Next]_vars =>
        [server = "hosts" /\ torn = "no" /\ block' # block => now >= since + TTL]_vars
  BY <1>1
<1> QED
  BY <1>2, HostsInvariance, PTL DEF Spec, YoungOverrideSurvives

\* A start that may write the hosts file leaves no override past its time.
THEOREM StartRemovesTheOld == Spec => ExpiredOverrideIsRemoved
<1>1. IInv /\ [Next]_vars =>
        (server # "up" /\ server' = "up" /\ writable /\ writable' /\ torn = "no" /\ block' # None
           => now < meta.expires)
  <2> SUFFICES ASSUME IInv, [Next]_vars, server # "up", server' = "up", writable, torn = "no",
                      block' # None
               PROVE  now < meta.expires
    OBVIOUS
  <2>1. Quiet
    BY DEF IInv, HandlersNeedServer
  <2>2. ExpireHostsOverride \/ RemoveMetadata
    BY <2>1
       DEF Next, vars, files, Quiet, Begin, SetHostsOverride, WriteBlock, WriteMetadata,
           RemoveHostsOverride, RemoveBlock, WriteFails, RemoveExpiredBlock, NotPermitted,
           ExpireFails, Tick, Stop, Crash
  <2>3. block # None /\ ExpireHostsOverride
    BY <2>2 DEF ExpireHostsOverride, RemoveMetadata, files, IInv, Expiring
  <2>4. ~Expired
    BY <2>3 DEF ExpireHostsOverride
  <2>5. meta \in Metadata /\ ~(now >= meta.expires)
    BY <2>3, <2>4 DEF IInv, TypeOK, Recorded, Owned, Expired
  <2>6. meta.expires \in Nat /\ now \in Nat
    BY <2>5, HostsAssumption DEF IInv, TypeOK, Metadata
  <2> QED
    BY <2>5, <2>6
<1> QED
  BY <1>1, HostsInvariance, PTL DEF Spec, ExpiredOverrideIsRemoved
=============================================================================

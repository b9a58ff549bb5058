---------------------------- MODULE EventStream ----------------------------
(***************************************************************************)
(* The event stream (internal/app/events.go and handleEvents): every       *)
(* component publishes to one hub, which keeps the latest events and hands *)
(* each new one to every client's buffered channel without waiting for it. *)
(* A new client is also sent the history, by a goroutine that does wait,   *)
(* on the same channel.                                                    *)
(*                                                                         *)
(* publish and the two halves of subscribe are atomic (hub.mu); replay     *)
(* goroutines, handlers and disconnects interleave with them.  An event is *)
(* known by the time it carries, which is read before the lock is taken.   *)
(***************************************************************************)
EXTENDS Naturals, SequencesExt

CONSTANTS
    Publishers,     \* goroutines that publish
    Clients,        \* connections to GET /events, each one subscription
    NoEvent,
    History,        \* events the hub keeps (300)
    Buffer,         \* capacity of a client's channel (32)
    MaxEvents       \* bound: events of a behaviour

ASSUME EventAssumption ==
    /\ History \in Nat \ {0} /\ Buffer \in Nat \ {0} /\ MaxEvents \in Nat
    /\ NoEvent \notin Nat

VARIABLES
    clock,          \* time of the latest event
    pending,        \* the event each publisher has in hand
    history,        \* eventHub.history
    clients,        \* eventHub.clients
    queue,          \* the channel of each client
    replay,         \* what its replay goroutine has still to send
    conn,           \* where each connection's handler is
    goroutine,      \* is the replay goroutine running
    log,            \* history: every event, in the order of publication
    since,          \* history: how many had been published at the subscription
    received,       \* history: what each handler wrote to its client
    lost            \* history: what did not fit into the channel

hub == <<history, clients>>
client == <<queue, replay, conn, goroutine>>
auxiliary == <<log, since, received, lost>>
vars == <<clock, pending, hub, client, auxiliary>>

Events == 1..MaxEvents

\* A handler reads, is stuck in a write to a slow client, or has returned: then
\* its deferred cancel has closed done ("leaving") and unregistered it ("gone").
States == {"new", "reading", "stalled", "leaving", "gone"}

TypeOK ==
    /\ clock \in 0..MaxEvents /\ pending \in [Publishers -> Events \cup {NoEvent}]
    /\ history \in Seq(Events) /\ Len(history) <= History
    /\ clients = {c \in Clients : conn[c] \in {"reading", "stalled", "leaving"}}
    /\ queue \in [Clients -> Seq(Events)] /\ \A c \in Clients : Len(queue[c]) <= Buffer
    /\ replay \in [Clients -> Seq(Events)] /\ \A c \in Clients : Len(replay[c]) <= History
    /\ conn \in [Clients -> States] /\ goroutine \in [Clients -> BOOLEAN]
    /\ log \in Seq(Events) /\ since \in [Clients -> Nat]
    /\ received \in [Clients -> Seq(Events)] /\ lost \in [Clients -> SUBSET Events]

Init ==
    /\ clock = 0 /\ pending = [p \in Publishers |-> NoEvent]
    /\ history = <<>> /\ clients = {}
    /\ queue = [c \in Clients |-> <<>>] /\ replay = [c \in Clients |-> <<>>]
    /\ conn = [c \in Clients |-> "new"] /\ goroutine = [c \in Clients |-> FALSE]
    /\ log = <<>> /\ since = [c \in Clients |-> 0]
    /\ received = [c \in Clients |-> <<>>] /\ lost = [c \in Clients |-> {}]

-----------------------------------------------------------------------------
(* publish.                                                                *)

\* The event takes its time; then the publisher waits for hub.mu.
Stamp(p) ==
    /\ pending[p] = NoEvent /\ clock < MaxEvents
    /\ clock' = clock + 1
    /\ pending' = [pending EXCEPT ![p] = clock + 1]
    /\ UNCHANGED <<hub, client, auxiliary>>

Latest(s) == IF Len(s) > History THEN SubSeq(s, Len(s) - History + 1, Len(s)) ELSE s

Full(c) == Len(queue[c]) >= Buffer

\* Mutant: publish waits for room in every channel.
BugPublishWaits(p) ==
    LET e == pending[p] IN
    /\ e # NoEvent
    /\ \A c \in clients : ~Full(c)
    /\ pending' = [pending EXCEPT ![p] = NoEvent]
    /\ history' = Latest(Append(history, e))
    /\ log' = Append(log, e)
    /\ queue' = [c \in Clients |-> IF c \in clients THEN Append(queue[c], e) ELSE queue[c]]
    /\ UNCHANGED <<clock, clients, replay, conn, goroutine, since, received, lost>>

\* Mutant: the clients are served after the unlock, where a later event may
\* overtake this one.
BugPublishUnlocksEarly(p) ==
    LET e == pending[p] IN
    /\ e # NoEvent
    /\ pending' = [pending EXCEPT ![p] = NoEvent]
    /\ history' = Latest(Append(history, e))
    /\ \E late \in BOOLEAN :
         log' = IF late \/ log = <<>> THEN Append(log, e) ELSE Front(log) \o <<e, Last(log)>>
    /\ queue' = [c \in Clients |-> IF c \in clients /\ ~Full(c) THEN Append(queue[c], e) ELSE queue[c]]
    /\ lost' = [c \in Clients |-> IF c \in clients /\ Full(c) THEN lost[c] \cup {e} ELSE lost[c]]
    /\ UNCHANGED <<clock, clients, replay, conn, goroutine, since, received>>

publish(p) ==
    LET e == pending[p] IN
    /\ e # NoEvent
    /\ pending' = [pending EXCEPT ![p] = NoEvent]
    /\ history' = Latest(Append(history, e))
    /\ log' = Append(log, e)
    /\ queue' = [c \in Clients |-> IF c \in clients /\ ~Full(c) THEN Append(queue[c], e) ELSE queue[c]]
    /\ lost' = [c \in Clients |-> IF c \in clients /\ Full(c) THEN lost[c] \cup {e} ELSE lost[c]]
    /\ UNCHANGED <<clock, clients, replay, conn, goroutine, since, received>>

-----------------------------------------------------------------------------
(* subscribe, and the goroutine it starts.                                 *)

\* Mutant: the history is copied first and the client registered later, when
\* another event has been published.
BugCopyBeforeRegistering(c) ==
    /\ conn[c] = "new"
    /\ clients' = clients \cup {c}
    /\ conn' = [conn EXCEPT ![c] = "reading"]
    /\ \E h \in {history} \cup (IF history = <<>> THEN {} ELSE {Front(history)}) :
         replay' = [replay EXCEPT ![c] = h]
    /\ goroutine' = [goroutine EXCEPT ![c] = TRUE]
    /\ since' = [since EXCEPT ![c] = Len(log)]
    /\ UNCHANGED <<clock, pending, history, queue, log, received, lost>>

subscribe(c) ==
    /\ conn[c] = "new"
    /\ clients' = clients \cup {c}
    /\ conn' = [conn EXCEPT ![c] = "reading"]
    /\ replay' = [replay EXCEPT ![c] = history]
    /\ goroutine' = [goroutine EXCEPT ![c] = TRUE]
    /\ since' = [since EXCEPT ![c] = Len(log)]
    /\ UNCHANGED <<clock, pending, history, queue, log, received, lost>>

\* The goroutine's select may send although done is closed, if there is room.
Replay(c) ==
    /\ goroutine[c] /\ replay[c] # <<>> /\ ~Full(c)
    /\ queue' = [queue EXCEPT ![c] = Append(@, Head(replay[c]))]
    /\ replay' = [replay EXCEPT ![c] = Tail(@)]
    /\ UNCHANGED <<clock, pending, hub, conn, goroutine, auxiliary>>

\* Mutant: the goroutine sends without looking at done.
BugReplayIgnoresDone(c) ==
    /\ goroutine[c] /\ replay[c] = <<>>
    /\ goroutine' = [goroutine EXCEPT ![c] = FALSE]
    /\ UNCHANGED <<clock, pending, hub, queue, replay, conn, auxiliary>>

\* Mutant: the goroutine does not wait for room in the channel.
BugReplayGivesUp(c) ==
    /\ goroutine[c]
    /\ replay[c] = <<>> \/ Full(c) \/ conn[c] \in {"leaving", "gone"}
    /\ goroutine' = [goroutine EXCEPT ![c] = FALSE]
    /\ UNCHANGED <<clock, pending, hub, queue, replay, conn, auxiliary>>

ReplayReturns(c) ==
    /\ goroutine[c]
    /\ replay[c] = <<>> \/ conn[c] \in {"leaving", "gone"}
    /\ goroutine' = [goroutine EXCEPT ![c] = FALSE]
    /\ UNCHANGED <<clock, pending, hub, queue, replay, conn, auxiliary>>

-----------------------------------------------------------------------------
(* handleEvents.                                                           *)

WriteEvent(c) ==
    /\ conn[c] = "reading" /\ queue[c] # <<>>
    /\ received' = [received EXCEPT ![c] = Append(@, Head(queue[c]))]
    /\ queue' = [queue EXCEPT ![c] = Tail(@)]
    /\ UNCHANGED <<clock, pending, hub, replay, conn, goroutine, log, since, lost>>

\* The client stops reading: the handler hangs in its write.
Stall(c) ==
    /\ conn[c] = "reading"
    /\ conn' = [conn EXCEPT ![c] = "stalled"]
    /\ UNCHANGED <<clock, pending, hub, queue, replay, goroutine, auxiliary>>

\* The connection ends; the deferred cancel closes done ...
Disconnect(c) ==
    /\ conn[c] \in {"reading", "stalled"}
    /\ conn' = [conn EXCEPT ![c] = "leaving"]
    /\ UNCHANGED <<clock, pending, hub, queue, replay, goroutine, auxiliary>>

\* ... and takes the client out of the hub.
Unregister(c) ==
    /\ conn[c] = "leaving"
    /\ clients' = clients \ {c}
    /\ conn' = [conn EXCEPT ![c] = "gone"]
    /\ UNCHANGED <<clock, pending, history, queue, replay, goroutine, auxiliary>>

Next ==
    \/ \E p \in Publishers : Stamp(p) \/ publish(p)
    \/ \E c \in Clients :
         \/ subscribe(c) \/ Replay(c) \/ ReplayReturns(c)
         \/ WriteEvent(c) \/ Stall(c) \/ Disconnect(c) \/ Unregister(c)

\* Goroutines that can run do; whether a client reads or stays is its own affair.
Fairness ==
    /\ \A p \in Publishers : WF_vars(publish(p))
    /\ \A c \in Clients : /\ WF_vars(Replay(c)) /\ WF_vars(ReplayReturns(c))
                          /\ WF_vars(WriteEvent(c)) /\ WF_vars(Unregister(c))

Spec == Init /\ [][Next]_vars /\ Fairness
-----------------------------------------------------------------------------
(* Properties.                                                             *)

\* What client c is to be shown: the latest History events at its subscription
\* and every later one.
Due(c) == {log[i] : i \in {i \in 1..Len(log) : i + History > since[c]}}

\* On its way to c, in the order in which it will arrive.
Delivered(c) == received[c] \o queue[c]

\* Between the history and the live stream there is neither a gap nor an
\* overlap: every event due was delivered, is still to be replayed or was lost
\* to a full channel, and only one of these, once (subscribe registers the
\* client and copies the history under one lock).
EveryEventOnce ==
    \A c \in clients :
        LET parts == <<ToSet(Delivered(c)), ToSet(replay[c]), lost[c]>> IN
        /\ Due(c) = parts[1] \cup parts[2] \cup parts[3]
        /\ IsInjective(Delivered(c) \o replay[c])
        /\ lost[c] \cap (parts[1] \cup parts[2]) = {}

Position(e) == CHOOSE i \in 1..Len(log) : log[i] = e

\* Live events keep the order of publication for every client, and so do the
\* replayed ones; only between the two kinds the order is open.
OrderWithinEachStream ==
    \A c \in clients :
        LET d == Delivered(c) IN
        \A i, j \in DOMAIN d :
            /\ i < j
            /\ (Position(d[i]) > since[c]) <=> (Position(d[j]) > since[c])
            => Position(d[i]) < Position(d[j])

\* A publisher never waits for a client: not for one that stopped reading, nor
\* for one whose channel is full of history.
PublishReturns == \A p \in Publishers : pending[p] # NoEvent ~> pending[p] = NoEvent

\* No replay goroutine outlives its connection for ever, however full the
\* channel is when the client goes.
ReplayGoroutineEnds == \A c \in Clients : conn[c] = "gone" ~> ~goroutine[c]

\* A client that stays and reads is shown every event due that did not meet a
\* full channel, although history and live events compete for it.
ReaderSeesEverything ==
    \A c \in Clients : \A e \in Events :
        (c \in clients /\ e \in Due(c))
            ~> (e \in ToSet(received[c]) \cup lost[c] \/ conn[c] # "reading")
=============================================================================

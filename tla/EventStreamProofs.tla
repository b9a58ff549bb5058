------------------------- MODULE EventStreamProofs -------------------------
(***************************************************************************)
(* EventStream, proved for any number of publishers and clients and any    *)
(* sizes of history and channel: its types, with the two capacities, and   *)
(* that a client misses nothing and sees nothing twice between the history *)
(* it is replayed and the live events.                                     *)
(***************************************************************************)
EXTENDS EventStream, SequenceTheorems, TLAPS

-----------------------------------------------------------------------------
(* Sequences of events.                                                    *)

\* What publish keeps of a history that has one event too many.
LEMMA LatestType ==
    ASSUME NEW s \in Seq(Events)
    PROVE  Latest(s) \in Seq(Events) /\ Len(Latest(s)) <= History
<1>1. CASE Len(s) > History
  <2>1. \A i \in (Len(s) - History + 1)..Len(s) : s[i] \in Events
    BY <1>1, EventAssumption
  <2>2. /\ SubSeq(s, Len(s) - History + 1, Len(s)) \in Seq(Events)
        /\ Len(SubSeq(s, Len(s) - History + 1, Len(s))) = History
    BY <1>1, <2>1, EventAssumption, SubSeqProperties
  <2> QED BY <1>1, <2>2, EventAssumption DEF Latest
<1>2. CASE ~(Len(s) > History)
  BY <1>2, EventAssumption DEF Latest
<1> QED BY <1>1, <1>2

\* It is the oldest that goes.
LEMMA LatestDrops ==
    ASSUME NEW s \in Seq(Events), Len(s) = History + 1
    PROVE  Len(Latest(s)) = History /\ \A i \in 1..History : Latest(s)[i] = s[i + 1]
<1> DEFINE n == History + 1
<1>1. Latest(s) = SubSeq(s, 2, n)
  BY EventAssumption DEF Latest
<1>2. n \in Int /\ 2 <= n /\ \A i \in 2..n : s[i] \in Events
  BY EventAssumption
<1>3. /\ Len(SubSeq(s, 2, n)) = n - 2 + 1
      /\ \A i \in 1..(n - 2 + 1) : SubSeq(s, 2, n)[i] = s[2 + i - 1]
  <2> HIDE DEF n
  <2> QED BY <1>2, SubSeqProperties
<1>4. n - 2 + 1 = History /\ \A i \in 1..History : 2 + i - 1 = i + 1
  BY EventAssumption
<1> QED BY <1>1, <1>3, <1>4

-----------------------------------------------------------------------------
(* Types.                                                                  *)

\* publish offers its event to every channel that has room.
LEMMA PublishTypes ==
    ASSUME TypeOK, NEW p \in Publishers, publish(p)
    PROVE  TypeOK'
<1> DEFINE e == pending[p]
<1>1. e \in Events
  BY DEF publish, TypeOK
<1>2. pending' \in [Publishers -> Events \cup {NoEvent}]
  BY DEF publish, TypeOK
<1>3. Append(history, e) \in Seq(Events)
  BY <1>1, AppendProperties DEF TypeOK
<1>4. history' \in Seq(Events) /\ Len(history') <= History
  BY <1>3, LatestType DEF publish
<1>5. log' \in Seq(Events)
  BY <1>1, AppendProperties DEF publish, TypeOK
<1>6. ASSUME NEW c \in Clients
      PROVE  queue'[c] \in Seq(Events) /\ Len(queue'[c]) <= Buffer
  <2>1. CASE c \in clients /\ ~Full(c)
    <3>1. queue'[c] = Append(queue[c], e)
      BY <2>1 DEF publish
    <3>2. queue[c] \in Seq(Events) /\ Len(queue[c]) \in Nat /\ Len(queue[c]) < Buffer
      BY <2>1, EventAssumption DEF Full, TypeOK
    <3>3. queue'[c] \in Seq(Events) /\ Len(queue'[c]) = Len(queue[c]) + 1
      BY <1>1, <3>1, <3>2, AppendProperties
    <3> QED BY <3>2, <3>3, EventAssumption
  <2>2. CASE ~(c \in clients /\ ~Full(c))
    BY <2>2 DEF publish, TypeOK
  <2> QED BY <2>1, <2>2
<1>7. queue' \in [Clients -> Seq(Events)]
  BY <1>6 DEF publish
<1>8. lost' \in [Clients -> SUBSET Events]
  BY <1>1 DEF publish, TypeOK
<1> QED BY <1>2, <1>4, <1>5, <1>6, <1>7, <1>8 DEF publish, TypeOK

\* The replay goroutine sends when there is room.
LEMMA ReplayTypes ==
    ASSUME TypeOK, NEW c \in Clients, Replay(c)
    PROVE  TypeOK'
<1>1. /\ replay[c] \in Seq(Events) /\ replay[c] # <<>>
      /\ queue[c] \in Seq(Events) /\ Len(queue[c]) \in Nat /\ Len(queue[c]) < Buffer
  BY EventAssumption DEF Replay, Full, TypeOK
<1>2. /\ Append(queue[c], Head(replay[c])) \in Seq(Events)
      /\ Len(Append(queue[c], Head(replay[c]))) <= Buffer
  BY <1>1, HeadTailProperties, AppendProperties, EventAssumption
<1>3. Tail(replay[c]) \in Seq(Events) /\ Len(Tail(replay[c])) <= History
  BY <1>1, HeadTailProperties, EventAssumption DEF TypeOK
<1> QED BY <1>2, <1>3 DEF Replay, TypeOK, hub, auxiliary

\* The handler takes the oldest event of the channel.
LEMMA WriteTypes ==
    ASSUME TypeOK, NEW c \in Clients, WriteEvent(c)
    PROVE  TypeOK'
<1>1. queue[c] \in Seq(Events) /\ queue[c] # <<>> /\ Len(queue[c]) <= Buffer
  BY DEF WriteEvent, TypeOK
<1>2. Tail(queue[c]) \in Seq(Events) /\ Len(Tail(queue[c])) <= Buffer
  BY <1>1, HeadTailProperties, EventAssumption
<1>3. Append(received[c], Head(queue[c])) \in Seq(Events)
  BY <1>1, HeadTailProperties, AppendProperties DEF TypeOK
<1> QED BY <1>2, <1>3 DEF WriteEvent, TypeOK, hub

\* The history and every channel keep to their capacity, and the hub's clients
\* are the connections that are subscribed (eventHub, handleEvents).
THEOREM TypeCorrect == Spec => []TypeOK
<1>1. Init => TypeOK
  BY EventAssumption DEF Init, TypeOK, Events, States
<1>2. TypeOK /\ [Next]_vars => TypeOK'
  <2> SUFFICES ASSUME TypeOK, [Next]_vars
               PROVE  TypeOK'
    OBVIOUS
  <2>1. ASSUME NEW p \in Publishers, Stamp(p)
        PROVE  TypeOK'
    BY <2>1, EventAssumption DEF Stamp, TypeOK, Events, hub, client, auxiliary
  <2>2. ASSUME NEW p \in Publishers, publish(p)
        PROVE  TypeOK'
    BY <2>2, PublishTypes
  <2>3. ASSUME NEW c \in Clients, subscribe(c)
        PROVE  TypeOK'
    BY <2>3 DEF subscribe, TypeOK, States
  <2>4. ASSUME NEW c \in Clients, Replay(c) \/ WriteEvent(c)
        PROVE  TypeOK'
    BY <2>4, ReplayTypes, WriteTypes
  <2>5. ASSUME NEW c \in Clients, ReplayReturns(c)
        PROVE  TypeOK'
    BY <2>5 DEF ReplayReturns, TypeOK, hub, auxiliary
  <2>6. ASSUME NEW c \in Clients, Stall(c) \/ Disconnect(c) \/ Unregister(c)
        PROVE  TypeOK'
    BY <2>6 DEF Stall, Disconnect, Unregister, TypeOK, States, hub, auxiliary
  <2>7. CASE UNCHANGED vars
    BY <2>7 DEF vars, TypeOK, hub, client, auxiliary
  <2> QED BY <2>1, <2>2, <2>3, <2>4, <2>5, <2>6, <2>7 DEF Next
<1> QED BY <1>1, <1>2, PTL DEF Spec

-----------------------------------------------------------------------------
(* The inductive invariant.                                                *)

\* An event has been stamped, is in one publisher's hand or in the log, once.
EventsAreNew ==
    /\ ToSet(log) \subseteq 1..clock /\ IsInjective(log)
    /\ \A p \in Publishers :
         pending[p] # NoEvent => pending[p] \in (1..clock) \ ToSet(log)
    /\ \A p, q \in Publishers : pending[p] # NoEvent /\ pending[p] = pending[q] => p = q

\* The hub keeps the end of the log, as much of it as it has room for.
HistoryIsLatest ==
    /\ Len(history) = IF Len(log) > History THEN History ELSE Len(log)
    /\ \A i \in 1..Len(history) : history[i] = log[Len(log) - Len(history) + i]

\* Nothing is under way to a connection that has not subscribed.
NewIsEmpty ==
    \A c \in Clients :
        /\ since[c] <= Len(log)
        /\ conn[c] = "new" =>
             queue[c] = <<>> /\ replay[c] = <<>> /\ received[c] = <<>> /\ lost[c] = {}

\* What is due to a client, split over the places where it may be.
SplitOnce(c) ==
    LET R == ToSet(received[c])  Q == ToSet(queue[c])  H == ToSet(replay[c]) IN
    /\ Due(c) = R \cup Q \cup H \cup lost[c]
    /\ R \cap Q = {} /\ R \cap H = {} /\ Q \cap H = {}
    /\ lost[c] \cap (R \cup Q \cup H) = {}
    /\ IsInjective(received[c]) /\ IsInjective(queue[c]) /\ IsInjective(replay[c])

IInv ==
    /\ TypeOK /\ EventsAreNew /\ HistoryIsLatest /\ NewIsEmpty
    /\ \A c \in clients : SplitOnce(c)

-----------------------------------------------------------------------------
(* Sets and sequences.                                                     *)

\* A new element at the end.
LEMMA Appending ==
    ASSUME NEW S, NEW s \in Seq(S), NEW e \in S
    PROVE  /\ ToSet(Append(s, e)) = ToSet(s) \cup {e}
           /\ IsInjective(s) /\ e \notin ToSet(s) => IsInjective(Append(s, e))
<1>1. /\ Append(s, e) \in Seq(S) /\ Len(Append(s, e)) = Len(s) + 1
      /\ \A i \in 1..Len(s) : Append(s, e)[i] = s[i]
      /\ Append(s, e)[Len(s) + 1] = e
  BY AppendProperties
<1>2. Len(s) \in Nat /\ DOMAIN s = 1..Len(s) /\ DOMAIN Append(s, e) = 1..(Len(s) + 1)
  BY <1>1
<1> QED BY <1>1, <1>2 DEF ToSet, IsInjective

\* The first element taken away.
LEMMA Removing ==
    ASSUME NEW S, NEW s \in Seq(S), s # <<>>
    PROVE  /\ ToSet(s) = {Head(s)} \cup ToSet(Tail(s))
           /\ IsInjective(s) => IsInjective(Tail(s)) /\ Head(s) \notin ToSet(Tail(s))
<1>1. /\ Tail(s) \in Seq(S) /\ Len(Tail(s)) = Len(s) - 1
      /\ \A i \in 1..(Len(s) - 1) : Tail(s)[i] = s[i + 1]
  BY HeadTailProperties
<1>2. Len(s) \in Nat \ {0} /\ DOMAIN s = 1..Len(s) /\ DOMAIN Tail(s) = 1..(Len(s) - 1)
  BY <1>1
<1>3. Head(s) = s[1]
  OBVIOUS
<1>4. \A i \in 2..Len(s) : i - 1 \in 1..(Len(s) - 1) /\ s[i] = Tail(s)[i - 1]
  BY <1>1, <1>2
<1>5. ToSet(s) = {Head(s)} \cup ToSet(Tail(s))
  <2>1. \A i \in 1..Len(s) : s[i] \in {Head(s)} \cup ToSet(Tail(s))
    <3>1. \A i \in 1..Len(s) : i = 1 \/ i \in 2..Len(s)
      BY <1>2
    <3> QED BY <1>2, <1>3, <1>4, <3>1 DEF ToSet
  <2>2. \A i \in 1..(Len(s) - 1) : i + 1 \in 1..Len(s)
    BY <1>2
  <2>3. 1 \in 1..Len(s)
    BY <1>2
  <2>4. ToSet(Tail(s)) \subseteq ToSet(s) /\ Head(s) \in ToSet(s)
    BY <1>1, <1>2, <1>3, <2>2, <2>3 DEF ToSet
  <2> QED BY <1>2, <2>1, <2>4 DEF ToSet
<1>6. ASSUME IsInjective(s)
      PROVE  IsInjective(Tail(s)) /\ Head(s) \notin ToSet(Tail(s))
  <2>1. \A i, j \in 1..(Len(s) - 1) : Tail(s)[i] = Tail(s)[j] => i = j
    BY <1>1, <1>2, <1>6 DEF IsInjective
  <2>2. \A i \in 1..(Len(s) - 1) : Tail(s)[i] # s[1]
    BY <1>1, <1>2, <1>6 DEF IsInjective
  <2> QED BY <1>2, <1>3, <2>1, <2>2 DEF IsInjective, ToSet
<1> QED BY <1>5, <1>6

\* One sequence after another.
LEMMA Joining ==
    ASSUME NEW S, NEW s \in Seq(S), NEW t \in Seq(S)
    PROVE  /\ s \o t \in Seq(S)
           /\ ToSet(s \o t) = ToSet(s) \cup ToSet(t)
           /\ IsInjective(s) /\ IsInjective(t) /\ ToSet(s) \cap ToSet(t) = {}
                => IsInjective(s \o t)
<1> DEFINE m == Len(s)
           n == Len(t)
<1>1. /\ s \o t \in Seq(S) /\ Len(s \o t) = m + n
      /\ \A i \in 1..(m + n) : (s \o t)[i] = IF i <= m THEN s[i] ELSE t[i - m]
  BY ConcatProperties
<1>2. /\ m \in Nat /\ n \in Nat
      /\ DOMAIN s = 1..m /\ DOMAIN t = 1..n /\ DOMAIN (s \o t) = 1..(m + n)
  BY <1>1
<1>3. \A i \in 1..n : i + m \in 1..(m + n) /\ (s \o t)[i + m] = t[i]
  BY <1>1, <1>2
<1>4. \A i \in 1..m : i \in 1..(m + n) /\ (s \o t)[i] = s[i]
  BY <1>1, <1>2
<1>5. ToSet(s \o t) = ToSet(s) \cup ToSet(t)
  <2>1. \A x \in ToSet(s \o t) : x \in ToSet(s) \cup ToSet(t)
    <3> SUFFICES ASSUME NEW i \in 1..(m + n)
                 PROVE  (s \o t)[i] \in ToSet(s) \cup ToSet(t)
      BY <1>2 DEF ToSet
    <3>1. CASE i <= m
      BY <1>1, <1>2, <3>1 DEF ToSet
    <3>2. CASE ~(i <= m)
      <4>1. i - m \in 1..n
        BY <1>2, <3>2
      <4> QED BY <1>1, <1>2, <3>2, <4>1 DEF ToSet
    <3> QED BY <3>1, <3>2
  <2>2. \A x \in ToSet(s) \cup ToSet(t) : x \in ToSet(s \o t)
    BY <1>2, <1>3, <1>4 DEF ToSet
  <2> QED BY <2>1, <2>2
<1>6. ASSUME IsInjective(s), IsInjective(t), ToSet(s) \cap ToSet(t) = {},
             NEW i \in 1..(m + n), NEW j \in 1..(m + n), (s \o t)[i] = (s \o t)[j]
      PROVE  i = j
  <2>1. CASE i <= m /\ j <= m
    BY <1>1, <1>2, <1>6, <2>1 DEF IsInjective
  <2>2. CASE i > m /\ j > m
    <3>1. i - m \in 1..n /\ j - m \in 1..n /\ t[i - m] = t[j - m]
      BY <1>1, <1>2, <1>6, <2>2
    <3>2. i - m = j - m
      BY <1>2, <1>6, <3>1 DEF IsInjective
    <3> QED BY <1>2, <3>2
  <2>3. CASE i <= m /\ j > m
    <3>1. i \in 1..m /\ j - m \in 1..n /\ s[i] = t[j - m]
      BY <1>1, <1>2, <1>6, <2>3
    <3> QED BY <1>2, <1>6, <3>1 DEF ToSet
  <2>4. CASE i > m /\ j <= m
    <3>1. j \in 1..m /\ i - m \in 1..n /\ s[j] = t[i - m]
      BY <1>1, <1>2, <1>6, <2>4
    <3> QED BY <1>2, <1>6, <3>1 DEF ToSet
  <2> QED BY <1>2, <2>1, <2>2, <2>3, <2>4
<1> QED BY <1>1, <1>2, <1>5, <1>6 DEF IsInjective

-----------------------------------------------------------------------------
(* publish.                                                                *)

\* The event takes its place at the end of the log and of the history.
LEMMA PublishLog ==
    ASSUME IInv, NEW p \in Publishers, publish(p)
    PROVE  EventsAreNew' /\ HistoryIsLatest' /\ NewIsEmpty'
<1> DEFINE e == pending[p]
<1>1. e \in Events /\ e # NoEvent /\ e \in 1..clock /\ e \notin ToSet(log)
  BY DEF publish, IInv, TypeOK, EventsAreNew
<1>2. /\ log \in Seq(Events) /\ history \in Seq(Events)
      /\ Len(log) \in Nat /\ Len(history) \in Nat /\ Len(history) <= History
  BY DEF IInv, TypeOK
<1>3. /\ log' = Append(log, e) /\ Len(log') = Len(log) + 1
      /\ \A i \in 1..Len(log) : log'[i] = log[i]
      /\ log'[Len(log) + 1] = e
  BY <1>1, <1>2, AppendProperties DEF publish
<1>4. EventsAreNew'
  <2>1. ToSet(log') = ToSet(log) \cup {e} /\ IsInjective(log')
    BY <1>1, <1>2, <1>3, Appending DEF IInv, EventsAreNew
  <2>2. clock' = clock /\ \A q \in Publishers : pending'[q] = IF q = p THEN NoEvent ELSE pending[q]
    BY DEF publish, IInv, TypeOK
  <2>3. \A q \in Publishers : q # p /\ pending[q] # NoEvent => pending[q] # e
    BY <1>1 DEF IInv, EventsAreNew
  <2> QED BY <1>1, <2>1, <2>2, <2>3 DEF IInv, EventsAreNew
<1>5. HistoryIsLatest'
  <2> DEFINE h == Append(history, e)
  <2>1. /\ h \in Seq(Events) /\ Len(h) = Len(history) + 1
        /\ \A i \in 1..Len(history) : h[i] = history[i]
        /\ h[Len(history) + 1] = e
    BY <1>1, <1>2, AppendProperties
  <2>2. \A i \in 1..Len(h) : h[i] = log'[Len(log') - Len(h) + i]
    BY <1>2, <1>3, <2>1 DEF IInv, HistoryIsLatest
  <2>3. history' = Latest(h)
    BY DEF publish
  <2>4. CASE Len(h) > History
    <3>1. Len(h) = History + 1 /\ Len(log) >= History
      BY <1>2, <2>1, <2>4, EventAssumption DEF IInv, HistoryIsLatest
    <3>2. Len(history') = History /\ \A i \in 1..History : history'[i] = h[i + 1]
      BY <2>1, <2>3, <3>1, LatestDrops
    <3>3. \A i \in 1..History : history'[i] = log'[Len(log') - History + i]
      <4> SUFFICES ASSUME NEW i \in 1..History
                   PROVE  history'[i] = log'[Len(log') - History + i]
        OBVIOUS
      <4>1. i + 1 \in 1..Len(h) /\ Len(log') - Len(h) + (i + 1) = Len(log') - History + i
        BY <1>2, <1>3, <3>1, EventAssumption
      <4> QED BY <2>2, <3>2, <4>1
    <3>4. Len(log') > History
      BY <1>2, <1>3, <3>1, EventAssumption
    <3> QED BY <3>2, <3>3, <3>4 DEF HistoryIsLatest
  <2>5. CASE ~(Len(h) > History)
    <3>1. history' = h
      BY <2>3, <2>5 DEF Latest
    <3>2. Len(log) = Len(history) /\ Len(log') <= History
      BY <1>2, <1>3, <2>1, <2>5, EventAssumption DEF IInv, HistoryIsLatest
    <3> QED BY <1>2, <1>3, <2>1, <2>2, <3>1, <3>2, EventAssumption DEF HistoryIsLatest
  <2> QED BY <2>4, <2>5
<1>6. NewIsEmpty'
  <2>1. \A c \in Clients : conn[c] = "new" => queue'[c] = queue[c] /\ lost'[c] = lost[c]
    BY DEF publish, IInv, TypeOK
  <2>2. \A c \in Clients : since[c] \in Nat /\ since[c] <= Len(log')
    BY <1>2, <1>3 DEF IInv, TypeOK, NewIsEmpty
  <2> QED BY <2>1, <2>2 DEF publish, IInv, NewIsEmpty
<1> QED BY <1>4, <1>5, <1>6

\* A client's channel takes it, or it is lost.
LEMMA PublishSplit ==
    ASSUME IInv, NEW p \in Publishers, publish(p), NEW c \in clients
    PROVE  SplitOnce(c)'
<1> DEFINE e == pending[p]
<1>1. e \in Events /\ e \notin ToSet(log) /\ c \in Clients
  BY DEF publish, IInv, TypeOK, EventsAreNew
<1>2. log \in Seq(Events) /\ Len(log) \in Nat /\ since[c] \in Nat /\ since[c] <= Len(log)
  BY <1>1 DEF IInv, TypeOK, NewIsEmpty
<1>3. /\ Len(log') = Len(log) + 1 /\ since' = since
      /\ \A i \in 1..Len(log) : log'[i] = log[i]
      /\ log'[Len(log) + 1] = e
  BY <1>1, <1>2, AppendProperties DEF publish
<1>4. Due(c) \subseteq ToSet(log)
  BY <1>2 DEF Due, ToSet
<1>5. Due(c)' = Due(c) \cup {e}
  <2>1. \A i \in 1..Len(log) : i \in 1..(Len(log) + 1)
    BY <1>2
  <2>2. Len(log) + 1 \in 1..(Len(log) + 1) /\ Len(log) + 1 + History > since[c]
    BY <1>2, EventAssumption
  <2>3. \A i \in 1..(Len(log) + 1) : i \in 1..Len(log) \/ i = Len(log) + 1
    BY <1>2
  <2> QED BY <1>3, <2>1, <2>2, <2>3 DEF Due
<1>6. /\ received'[c] = received[c] /\ replay'[c] = replay[c]
      /\ queue[c] \in Seq(Events) /\ SplitOnce(c)
  BY <1>1 DEF publish, IInv, TypeOK
<1>7. e \notin ToSet(received[c]) \cup ToSet(queue[c]) \cup ToSet(replay[c]) \cup lost[c]
  BY <1>1, <1>4, <1>6 DEF SplitOnce
<1>8. CASE Full(c)
  <2>1. queue'[c] = queue[c] /\ lost'[c] = lost[c] \cup {e}
    BY <1>1, <1>8 DEF publish
  <2> QED BY <1>5, <1>6, <1>7, <2>1 DEF SplitOnce
<1>9. CASE ~Full(c)
  <2>1. queue'[c] = Append(queue[c], e) /\ lost'[c] = lost[c]
    BY <1>1, <1>9 DEF publish
  <2>2. ToSet(queue'[c]) = ToSet(queue[c]) \cup {e} /\ IsInjective(queue'[c])
    BY <1>1, <1>6, <1>7, <2>1, Appending DEF SplitOnce
  <2> QED BY <1>5, <1>6, <1>7, <2>1, <2>2 DEF SplitOnce
<1> QED BY <1>8, <1>9

-----------------------------------------------------------------------------
(* subscribe, the replay goroutine and the handler.                        *)

\* What is due at the subscription is the history.
LEMMA SubscribeSplit ==
    ASSUME IInv, NEW c \in Clients, subscribe(c)
    PROVE  SplitOnce(c)'
<1>1. /\ log \in Seq(Events) /\ history \in Seq(Events)
      /\ Len(log) \in Nat /\ Len(history) \in Nat
  BY DEF IInv, TypeOK
<1>2. /\ queue'[c] = <<>> /\ received'[c] = <<>> /\ lost'[c] = {}
      /\ replay'[c] = history /\ since'[c] = Len(log) /\ log' = log
  BY DEF subscribe, IInv, TypeOK, NewIsEmpty
<1> DEFINE k == Len(log) - Len(history)
<1>6. /\ k \in Nat
      /\ Len(log) > History => Len(history) = History
      /\ ~(Len(log) > History) => k = 0
      /\ \A i \in 1..Len(history) : history[i] = log[k + i]
  <2>1. /\ Len(history) = IF Len(log) > History THEN History ELSE Len(log)
        /\ \A i \in 1..Len(history) : history[i] = log[k + i]
    BY DEF IInv, HistoryIsLatest
  <2>2. /\ k \in Nat
        /\ Len(log) > History => Len(history) = History
        /\ ~(Len(log) > History) => k = 0
    BY <1>1, <2>1, EventAssumption
  <2> QED BY <2>1, <2>2
<1> HIDE DEF k
<1>3. Due(c)' = ToSet(history)
  <2>1. \A i \in 1..Len(log) : i + History > Len(log)
          => /\ i - k \in 1..Len(history)
             /\ log[i] = history[i - k]
    <3>1. \A i \in 1..Len(log) : i + History > Len(log)
            => i - k \in 1..Len(history) /\ k + (i - k) = i
      BY <1>1, <1>6, EventAssumption DEF k
    <3> QED BY <1>6, <3>1
  <2>2. \A i \in 1..Len(history) :
          /\ k + i \in 1..Len(log)
          /\ k + i + History > Len(log)
          /\ history[i] = log[k + i]
    BY <1>1, <1>6, EventAssumption DEF k
  <2>3. Due(c)' = {log[i] : i \in {i \in 1..Len(log) : i + History > Len(log)}}
    BY <1>2 DEF Due
  <2>4. ToSet(history) = {history[i] : i \in 1..Len(history)}
    BY <1>1 DEF ToSet
  <2>5. \A x \in Due(c)' : x \in ToSet(history)
    BY <2>1, <2>3, <2>4
  <2>6. \A x \in ToSet(history) : x \in Due(c)'
    BY <2>2, <2>3, <2>4
  <2> QED BY <2>5, <2>6
<1>4. IsInjective(history)
  <2>1. \A i, j \in 1..Len(history) : history[i] = history[j] => i = j
    <3> SUFFICES ASSUME NEW i \in 1..Len(history), NEW j \in 1..Len(history),
                        history[i] = history[j]
                 PROVE  i = j
      OBVIOUS
    <3>1. k + i \in DOMAIN log /\ k + j \in DOMAIN log
      BY <1>1, <1>6 DEF k
    <3>2. log[k + i] = log[k + j]
      BY <1>6
    <3>3. k + i = k + j
      BY <3>1, <3>2 DEF IInv, EventsAreNew, IsInjective
    <3> QED BY <1>1, <1>6, <3>3
  <2> QED BY <1>1, <2>1 DEF IsInjective
<1>5. ToSet(<<>>) = {} /\ IsInjective(<<>>)
  BY DEF ToSet, IsInjective
<1> QED BY <1>2, <1>3, <1>4, <1>5 DEF SplitOnce

\* The oldest event that is left moves from the history to the channel.
LEMMA ReplaySplit ==
    ASSUME IInv, NEW c \in clients, Replay(c)
    PROVE  SplitOnce(c)'
<1>1. /\ c \in Clients /\ replay[c] \in Seq(Events) /\ replay[c] # <<>>
      /\ queue[c] \in Seq(Events) /\ SplitOnce(c) /\ Due(c)' = Due(c)
      /\ received'[c] = received[c] /\ lost'[c] = lost[c]
      /\ queue'[c] = Append(queue[c], Head(replay[c])) /\ replay'[c] = Tail(replay[c])
  BY DEF Replay, IInv, TypeOK, auxiliary, Due
<1>2. Head(replay[c]) \in Events
  BY <1>1, HeadTailProperties
<1>3. /\ ToSet(replay[c]) = {Head(replay[c])} \cup ToSet(replay'[c])
      /\ IsInjective(replay'[c]) /\ Head(replay[c]) \notin ToSet(replay'[c])
  BY <1>1, Removing DEF SplitOnce
<1>4. ToSet(queue'[c]) = ToSet(queue[c]) \cup {Head(replay[c])} /\ IsInjective(queue'[c])
  BY <1>1, <1>2, <1>3, Appending DEF SplitOnce
<1> QED BY <1>1, <1>3, <1>4 DEF SplitOnce

\* The oldest event of the channel moves to the client.
LEMMA WriteSplit ==
    ASSUME IInv, NEW c \in clients, WriteEvent(c)
    PROVE  SplitOnce(c)'
<1>1. /\ c \in Clients /\ queue[c] \in Seq(Events) /\ queue[c] # <<>>
      /\ received[c] \in Seq(Events) /\ SplitOnce(c) /\ Due(c)' = Due(c)
      /\ replay'[c] = replay[c] /\ lost'[c] = lost[c]
      /\ received'[c] = Append(received[c], Head(queue[c])) /\ queue'[c] = Tail(queue[c])
  BY DEF WriteEvent, IInv, TypeOK, Due
<1>2. Head(queue[c]) \in Events
  BY <1>1, HeadTailProperties
<1>3. /\ ToSet(queue[c]) = {Head(queue[c])} \cup ToSet(queue'[c])
      /\ IsInjective(queue'[c]) /\ Head(queue[c]) \notin ToSet(queue'[c])
  BY <1>1, Removing DEF SplitOnce
<1>4. ToSet(received'[c]) = ToSet(received[c]) \cup {Head(queue[c])} /\ IsInjective(received'[c])
  BY <1>1, <1>2, <1>3, Appending DEF SplitOnce
<1> QED BY <1>1, <1>3, <1>4 DEF SplitOnce

\* Nothing moves to or from a client.
LEMMA UntouchedSplit ==
    ASSUME IInv, NEW c \in clients,
           log' = log, since'[c] = since[c], received'[c] = received[c],
           queue'[c] = queue[c], replay'[c] = replay[c], lost'[c] = lost[c]
    PROVE  SplitOnce(c)'
<1>1. SplitOnce(c) /\ Due(c)' = Due(c)
  BY DEF IInv, Due
<1> QED BY <1>1 DEF SplitOnce

-----------------------------------------------------------------------------
(* The invariant.                                                          *)

\* Every event due to a client is in one place and once, for every size of the
\* history and of the channels.
THEOREM Invariance == Spec => []IInv
<1>1. Init => IInv
  <2> SUFFICES ASSUME Init
               PROVE  IInv
    OBVIOUS
  <2>1. TypeOK
    BY EventAssumption DEF Init, TypeOK, Events, States
  <2>2. ToSet(<<>>) = {} /\ IsInjective(<<>>) /\ Len(<<>>) = 0
    BY DEF ToSet, IsInjective
  <2>3. EventsAreNew /\ HistoryIsLatest /\ NewIsEmpty
    BY <2>2, EventAssumption DEF Init, EventsAreNew, HistoryIsLatest, NewIsEmpty
  <2> QED BY <2>1, <2>3 DEF Init, IInv
<1>2. IInv /\ TypeOK' /\ [Next]_vars => IInv'
  <2> SUFFICES ASSUME IInv, TypeOK', [Next]_vars
               PROVE  EventsAreNew' /\ HistoryIsLatest' /\ NewIsEmpty'
                        /\ \A c \in clients' : SplitOnce(c)'
    BY DEF IInv
  <2>1. ASSUME NEW p \in Publishers, Stamp(p)
        PROVE  EventsAreNew'
    <3>1. clock \in Nat /\ clock' = clock + 1 /\ log' = log
      BY <2>1 DEF Stamp, IInv, TypeOK, auxiliary
    <3>2. \A q \in Publishers : pending'[q] = IF q = p THEN clock + 1 ELSE pending[q]
      BY <2>1 DEF Stamp, IInv, TypeOK
    <3>3. clock + 1 \notin 1..clock /\ 1..clock \subseteq 1..(clock + 1)
            /\ clock + 1 \in 1..(clock + 1)
      BY <3>1
    <3> QED BY <3>1, <3>2, <3>3 DEF IInv, EventsAreNew
  <2>2. ASSUME NEW p \in Publishers, Stamp(p)
        PROVE  HistoryIsLatest' /\ NewIsEmpty' /\ \A c \in clients' : SplitOnce(c)'
    BY <2>2, UntouchedSplit DEF Stamp, IInv, HistoryIsLatest, NewIsEmpty, hub, client,
       auxiliary
  <2>3. ASSUME NEW p \in Publishers, publish(p)
        PROVE  EventsAreNew' /\ HistoryIsLatest' /\ NewIsEmpty'
                 /\ \A c \in clients' : SplitOnce(c)'
    <3>1. clients' = clients
      BY <2>3 DEF publish
    <3> QED BY <2>3, <3>1, PublishLog, PublishSplit
  <2>4. ASSUME NEW d \in Clients,
               subscribe(d) \/ Replay(d) \/ ReplayReturns(d) \/ WriteEvent(d)
                 \/ Stall(d) \/ Disconnect(d) \/ Unregister(d)
        PROVE  EventsAreNew' /\ HistoryIsLatest'
    BY <2>4 DEF subscribe, Replay, ReplayReturns, WriteEvent, Stall, Disconnect, Unregister,
       IInv, EventsAreNew, HistoryIsLatest, hub, auxiliary
  <2>5. ASSUME NEW d \in Clients, subscribe(d)
        PROVE  NewIsEmpty' /\ \A c \in clients' : SplitOnce(c)'
    <3>1. NewIsEmpty'
      BY <2>5 DEF subscribe, IInv, TypeOK, NewIsEmpty
    <3>2. ASSUME NEW c \in clients', c # d
          PROVE  SplitOnce(c)'
      BY <2>5, <3>2, UntouchedSplit DEF subscribe, IInv, TypeOK
    <3> QED BY <2>5, <3>1, <3>2, SubscribeSplit
  <2>6. ASSUME NEW d \in Clients, Replay(d)
        PROVE  NewIsEmpty' /\ \A c \in clients' : SplitOnce(c)'
    <3>1. NewIsEmpty'
      BY <2>6 DEF Replay, IInv, TypeOK, NewIsEmpty, auxiliary
    <3>2. clients' = clients
      BY <2>6 DEF Replay, hub
    <3>3. ASSUME NEW c \in clients, c # d
          PROVE  SplitOnce(c)'
      BY <2>6, <3>3, UntouchedSplit DEF Replay, IInv, TypeOK, auxiliary
    <3> QED BY <2>6, <3>1, <3>2, <3>3, ReplaySplit
  <2>7. ASSUME NEW d \in Clients, WriteEvent(d)
        PROVE  NewIsEmpty' /\ \A c \in clients' : SplitOnce(c)'
    <3>1. NewIsEmpty'
      BY <2>7 DEF WriteEvent, IInv, TypeOK, NewIsEmpty
    <3>2. clients' = clients
      BY <2>7 DEF WriteEvent, hub
    <3>3. ASSUME NEW c \in clients, c # d
          PROVE  SplitOnce(c)'
      BY <2>7, <3>3, UntouchedSplit DEF WriteEvent, IInv, TypeOK
    <3> QED BY <2>7, <3>1, <3>2, <3>3, WriteSplit
  <2>8. ASSUME NEW d \in Clients,
               ReplayReturns(d) \/ Stall(d) \/ Disconnect(d) \/ Unregister(d)
        PROVE  NewIsEmpty' /\ \A c \in clients' : SplitOnce(c)'
    <3>1. /\ clients' \subseteq clients
          /\ UNCHANGED <<queue, replay, log, since, received, lost>>
          /\ \A c \in Clients : conn'[c] = "new" => conn[c] = "new"
      BY <2>8 DEF ReplayReturns, Stall, Disconnect, Unregister, IInv, TypeOK, hub, auxiliary
    <3>2. NewIsEmpty'
      BY <3>1 DEF IInv, NewIsEmpty
    <3> QED BY <3>1, <3>2, UntouchedSplit
  <2>9. CASE UNCHANGED vars
    BY <2>9, UntouchedSplit DEF vars, IInv, EventsAreNew, HistoryIsLatest, NewIsEmpty, hub,
       client, auxiliary
  <2> QED BY <2>1, <2>2, <2>3, <2>4, <2>5, <2>6, <2>7, <2>8, <2>9 DEF Next
<1> QED BY <1>1, <1>2, TypeCorrect, PTL DEF Spec

\* Between the history a client is replayed and the live events there is neither
\* a gap nor an overlap: subscribe registers it and copies the history under one
\* lock, and nobody else reads its channel.
THEOREM NoGapNoOverlap == Spec => []EveryEventOnce
<1>1. IInv => EveryEventOnce
  <2> SUFFICES ASSUME IInv, NEW c \in clients
               PROVE  LET parts == <<ToSet(Delivered(c)), ToSet(replay[c]), lost[c]>> IN
                      /\ Due(c) = parts[1] \cup parts[2] \cup parts[3]
                      /\ IsInjective(Delivered(c) \o replay[c])
                      /\ lost[c] \cap (parts[1] \cup parts[2]) = {}
    BY DEF EveryEventOnce
  <2>1. /\ received[c] \in Seq(Events) /\ queue[c] \in Seq(Events)
        /\ replay[c] \in Seq(Events) /\ SplitOnce(c)
    BY DEF IInv, TypeOK
  <2>2. /\ Delivered(c) \in Seq(Events) /\ IsInjective(Delivered(c))
        /\ ToSet(Delivered(c)) = ToSet(received[c]) \cup ToSet(queue[c])
    BY <2>1, Joining DEF Delivered, SplitOnce
  <2>3. IsInjective(Delivered(c) \o replay[c])
    BY <2>1, <2>2, Joining DEF SplitOnce
  <2> QED BY <2>1, <2>2, <2>3 DEF SplitOnce
<1> QED BY <1>1, Invariance, PTL

-----------------------------------------------------------------------------
(* Order.                                                                  *)

\* The place of an event in a sequence of events.
Place(s, e) == CHOOSE i \in 1..Len(s) : s[i] = e

\* Live events and replayed ones are each in order, and what is still to be
\* replayed comes after what was.
InOrder(c) ==
    LET d == Delivered(c)
        h == replay[c]
        Live(e) == Place(log, e) > since[c]
    IN  /\ \A i, j \in DOMAIN d :
             i < j /\ (Live(d[i]) <=> Live(d[j])) => Place(log, d[i]) < Place(log, d[j])
        /\ \A i \in DOMAIN d, k \in DOMAIN h :
             ~Live(d[i]) => Place(log, d[i]) < Place(log, h[k])
        /\ \A k, m \in DOMAIN h : k < m => Place(log, h[k]) < Place(log, h[m])
        /\ \A k \in DOMAIN h : ~Live(h[k])

\* The place of an event that is there once.
LEMMA PlaceOf ==
    ASSUME NEW S, NEW s \in Seq(S), IsInjective(s), NEW i \in 1..Len(s)
    PROVE  Place(s, s[i]) = i
<1>1. Place(s, s[i]) \in 1..Len(s) /\ s[Place(s, s[i])] = s[i]
  BY Zenon DEF Place
<1>2. DOMAIN s = 1..Len(s)
  OBVIOUS
<1> QED BY <1>1, <1>2 DEF IsInjective

\* A longer log leaves the places as they are.
LEMMA PlacesStay ==
    ASSUME NEW S, NEW s \in Seq(S), NEW e \in S, IsInjective(s), e \notin ToSet(s)
    PROVE  /\ \A x \in ToSet(s) : Place(Append(s, e), x) = Place(s, x)
           /\ \A x \in ToSet(s) : Place(s, x) \in 1..Len(s)
           /\ Place(Append(s, e), e) = Len(s) + 1
<1>1. /\ Append(s, e) \in Seq(S) /\ Len(Append(s, e)) = Len(s) + 1
      /\ \A i \in 1..Len(s) : Append(s, e)[i] = s[i]
      /\ Append(s, e)[Len(s) + 1] = e
  BY AppendProperties
<1>2. Len(s) \in Nat /\ DOMAIN s = 1..Len(s) /\ IsInjective(Append(s, e))
  BY Appending
<1>3. \A i \in 1..Len(s) :
        i \in 1..(Len(s) + 1) /\ Place(Append(s, e), s[i]) = i /\ Place(s, s[i]) = i
  <2> SUFFICES ASSUME NEW i \in 1..Len(s)
               PROVE  /\ i \in 1..(Len(s) + 1)
                      /\ Place(Append(s, e), s[i]) = i /\ Place(s, s[i]) = i
    OBVIOUS
  <2>1. i \in 1..Len(Append(s, e))
    BY <1>1, <1>2
  <2>2. Place(Append(s, e), Append(s, e)[i]) = i
    BY <1>1, <1>2, <2>1, PlaceOf
  <2>3. Place(s, s[i]) = i
    BY PlaceOf
  <2> QED BY <1>1, <2>1, <2>2, <2>3
<1>4. Len(s) + 1 \in 1..Len(Append(s, e))
  BY <1>1, <1>2
<1>5. Place(Append(s, e), e) = Len(s) + 1
  BY <1>1, <1>2, <1>4, PlaceOf
<1> QED BY <1>2, <1>3, <1>5 DEF ToSet

\* What is delivered or to be replayed is in the log.
LEMMA UnderWayIsLogged ==
    ASSUME IInv, NEW c \in clients
    PROVE  /\ c \in Clients /\ log \in Seq(Events) /\ IsInjective(log)
           /\ Delivered(c) \in Seq(Events) /\ replay[c] \in Seq(Events)
           /\ received[c] \in Seq(Events) /\ queue[c] \in Seq(Events)
           /\ \A i \in DOMAIN Delivered(c) : Delivered(c)[i] \in ToSet(log)
           /\ \A k \in DOMAIN replay[c] : replay[c][k] \in ToSet(log)
<1>1. /\ c \in Clients /\ log \in Seq(Events) /\ IsInjective(log)
      /\ received[c] \in Seq(Events) /\ queue[c] \in Seq(Events)
      /\ replay[c] \in Seq(Events) /\ SplitOnce(c)
  BY DEF IInv, TypeOK, EventsAreNew
<1>2. Due(c) \subseteq ToSet(log)
  BY <1>1 DEF Due, ToSet
<1>3. /\ Delivered(c) \in Seq(Events)
      /\ ToSet(Delivered(c)) = ToSet(received[c]) \cup ToSet(queue[c])
  BY <1>1, Joining DEF Delivered
<1>4. ToSet(Delivered(c)) \subseteq ToSet(log) /\ ToSet(replay[c]) \subseteq ToSet(log)
  BY <1>1, <1>2, <1>3 DEF SplitOnce
<1> QED BY <1>1, <1>3, <1>4 DEF ToSet

\* An event that is appended to what is delivered.
LEMMA DeliveredGrows ==
    ASSUME NEW r \in Seq(Events), NEW q \in Seq(Events), NEW e \in Events
    PROVE  r \o Append(q, e) = Append(r \o q, e)
<1>1. q \o <<e>> = Append(q, e) /\ (r \o q) \o <<e>> = Append(r \o q, e)
  BY AppendIsConcat, ConcatProperties
<1> QED BY <1>1, ConcatAssociative

\* An event that moves from the channel to the client.
LEMMA DeliveredStays ==
    ASSUME NEW r \in Seq(Events), NEW q \in Seq(Events), q # <<>>
    PROVE  Append(r, Head(q)) \o Tail(q) = r \o q
<1>1. Head(q) \in Events /\ Tail(q) \in Seq(Events)
  BY HeadTailProperties
<1>2. q = <<Head(q)>> \o Tail(q)
  BY <1>1
<1>3. Append(r, Head(q)) = r \o <<Head(q)>>
  BY <1>1, AppendIsConcat
<1>4. (r \o <<Head(q)>>) \o Tail(q) = r \o (<<Head(q)>> \o Tail(q))
  BY <1>1, ConcatAssociative
<1> QED BY <1>2, <1>3, <1>4

\* A published event is live, and later than all others.
LEMMA PublishOrder ==
    ASSUME IInv, NEW p \in Publishers, publish(p), NEW c \in clients, InOrder(c)
    PROVE  InOrder(c)'
<1> DEFINE e == pending[p]
           d == Delivered(c)
<1>1. e \in Events /\ e \notin ToSet(log)
  BY DEF publish, IInv, TypeOK, EventsAreNew
<1>2. /\ c \in Clients /\ log \in Seq(Events) /\ IsInjective(log) /\ Len(log) \in Nat
      /\ d \in Seq(Events) /\ received[c] \in Seq(Events) /\ queue[c] \in Seq(Events)
      /\ \A i \in DOMAIN d : d[i] \in ToSet(log)
      /\ \A k \in DOMAIN replay[c] : replay[c][k] \in ToSet(log)
      /\ since[c] \in Nat /\ since[c] <= Len(log)
  BY UnderWayIsLogged DEF IInv, TypeOK, NewIsEmpty
<1>3. /\ log' = Append(log, e) /\ since' = since /\ replay'[c] = replay[c]
      /\ received'[c] = received[c]
  BY <1>2 DEF publish
<1>4. /\ \A x \in ToSet(log) : Place(log', x) = Place(log, x)
      /\ \A x \in ToSet(log) : Place(log, x) \in 1..Len(log)
      /\ Place(log', e) = Len(log) + 1
  BY <1>1, <1>2, <1>3, PlacesStay
<1>5. CASE queue'[c] = queue[c]
  <2>1. Delivered(c)' = d
    BY <1>3, <1>5 DEF Delivered
  <2> QED BY <1>2, <1>3, <1>4, <2>1 DEF InOrder
<1>6. CASE queue'[c] = Append(queue[c], e)
  <2>1. Delivered(c)' = Append(d, e)
    <3>1. received[c] \o Append(queue[c], e) = Append(received[c] \o queue[c], e)
      <4> HIDE DEF e, d
      <4> QED BY <1>1, <1>2, DeliveredGrows
    <3>2. Delivered(c)' = received[c] \o Append(queue[c], e)
      BY <1>3, <1>6 DEF Delivered
    <3> QED BY <3>1, <3>2 DEF Delivered
  <2>2. /\ Len(d) \in Nat /\ DOMAIN d = 1..Len(d)
        /\ DOMAIN Append(d, e) = 1..(Len(d) + 1)
        /\ \A i \in 1..Len(d) : Append(d, e)[i] = d[i]
        /\ Append(d, e)[Len(d) + 1] = e
    BY <1>1, <1>2, AppendProperties
  <2>3. \A i \in 1..(Len(d) + 1) : i \in 1..Len(d) \/ i = Len(d) + 1
    BY <2>2
  <2> HIDE DEF d, e
  <2>4. ASSUME NEW i \in DOMAIN Delivered(c)', NEW j \in DOMAIN Delivered(c)', i < j,
               Place(log', Delivered(c)'[i]) > since[c]
                 <=> Place(log', Delivered(c)'[j]) > since[c]
        PROVE  Place(log', Delivered(c)'[i]) < Place(log', Delivered(c)'[j])
    <3>1. i \in 1..Len(d)
      BY <2>1, <2>2, <2>4
    <3>2. Delivered(c)'[i] = d[i] /\ Place(log', d[i]) = Place(log, d[i])
            /\ Place(log, d[i]) \in 1..Len(log)
      BY <1>2, <1>4, <2>1, <2>2, <3>1
    <3>3. CASE j \in 1..Len(d)
      <4>1. Delivered(c)'[j] = d[j] /\ Place(log', d[j]) = Place(log, d[j])
        BY <1>2, <1>4, <2>1, <2>2, <3>3
      <4> QED BY <2>2, <2>4, <3>1, <3>2, <3>3, <4>1 DEF InOrder, d
    <3>4. CASE j = Len(d) + 1
      BY <1>2, <1>4, <2>1, <2>2, <3>2, <3>4
    <3> QED BY <2>1, <2>2, <2>3, <3>3, <3>4
  <2>5. ASSUME NEW i \in DOMAIN Delivered(c)', NEW k \in DOMAIN replay'[c],
               ~(Place(log', Delivered(c)'[i]) > since[c])
        PROVE  Place(log', Delivered(c)'[i]) < Place(log', replay'[c][k])
    <3>1. i # Len(d) + 1
      BY <1>2, <1>4, <2>1, <2>2, <2>5
    <3>2. i \in 1..Len(d) /\ Delivered(c)'[i] = d[i] /\ Place(log', d[i]) = Place(log, d[i])
      BY <1>2, <1>4, <2>1, <2>2, <2>3, <3>1
    <3>3. Place(log', replay'[c][k]) = Place(log, replay[c][k])
      BY <1>2, <1>3, <1>4
    <3> QED BY <1>3, <2>2, <2>5, <3>2, <3>3 DEF InOrder, d
  <2>6. /\ \A k, m \in DOMAIN replay'[c] :
             k < m => Place(log', replay'[c][k]) < Place(log', replay'[c][m])
        /\ \A k \in DOMAIN replay'[c] : ~(Place(log', replay'[c][k]) > since[c])
    BY <1>2, <1>3, <1>4 DEF InOrder
  <2> QED BY <1>3, <2>4, <2>5, <2>6 DEF InOrder
<1> QED BY <1>2, <1>5, <1>6 DEF publish

\* The history is in the order of the log, and none of it is live.
LEMMA SubscribeOrder ==
    ASSUME IInv, NEW c \in Clients, subscribe(c)
    PROVE  InOrder(c)'
<1> DEFINE k == Len(log) - Len(history)
<1>1. /\ log \in Seq(Events) /\ IsInjective(log) /\ history \in Seq(Events)
      /\ Len(log) \in Nat /\ Len(history) \in Nat /\ Len(history) <= Len(log)
  BY EventAssumption DEF IInv, TypeOK, EventsAreNew, HistoryIsLatest
<1>2. /\ queue'[c] = <<>> /\ received'[c] = <<>> /\ replay'[c] = history
      /\ since'[c] = Len(log) /\ log' = log
  BY DEF subscribe, IInv, TypeOK, NewIsEmpty
<1>3. \A i \in 1..Len(history) :
        k + i \in 1..Len(log) /\ Place(log, history[i]) = k + i
  <2> SUFFICES ASSUME NEW i \in 1..Len(history)
               PROVE  k + i \in 1..Len(log) /\ Place(log, history[i]) = k + i
    OBVIOUS
  <2>1. k + i \in 1..Len(log) /\ history[i] = log[k + i]
    BY <1>1 DEF IInv, HistoryIsLatest
  <2> HIDE DEF k
  <2> QED BY <1>1, <2>1, PlaceOf
<1>4. Delivered(c)' = <<>>
  BY <1>2 DEF Delivered
<1>5. DOMAIN history = 1..Len(history)
  BY <1>1
<1>6. /\ \A i, j \in DOMAIN history : i < j => Place(log, history[i]) < Place(log, history[j])
      /\ \A i \in DOMAIN history : ~(Place(log, history[i]) > Len(log))
  BY <1>1, <1>3, <1>5
<1> QED BY <1>2, <1>4, <1>6 DEF InOrder

\* The goroutine sends the oldest of what is left.
LEMMA ReplayOrder ==
    ASSUME IInv, NEW c \in clients, Replay(c), InOrder(c)
    PROVE  InOrder(c)'
<1> DEFINE d == Delivered(c)
           h == replay[c]
           e == Head(h)
<1>1. /\ c \in Clients /\ log \in Seq(Events) /\ d \in Seq(Events) /\ h \in Seq(Events)
      /\ received[c] \in Seq(Events) /\ queue[c] \in Seq(Events) /\ h # <<>>
  BY UnderWayIsLogged DEF Replay
<1>2. /\ log' = log /\ since' = since /\ received' = received
      /\ queue'[c] = Append(queue[c], e) /\ replay'[c] = Tail(h)
  BY <1>1 DEF Replay, IInv, TypeOK, auxiliary
<1>3. /\ e \in Events /\ e = h[1] /\ Tail(h) \in Seq(Events) /\ Len(Tail(h)) = Len(h) - 1
      /\ \A i \in 1..(Len(h) - 1) : Tail(h)[i] = h[i + 1]
      /\ Len(h) \in Nat \ {0} /\ DOMAIN h = 1..Len(h) /\ DOMAIN Tail(h) = 1..(Len(h) - 1)
  BY <1>1, HeadTailProperties
<1>4. Delivered(c)' = Append(d, e)
  <2>1. received[c] \o Append(queue[c], e) = Append(received[c] \o queue[c], e)
    <3> HIDE DEF e, d, h
    <3> QED BY <1>1, <1>3, DeliveredGrows
  <2>2. Delivered(c)' = received[c] \o Append(queue[c], e)
    BY <1>2 DEF Delivered
  <2> QED BY <2>1, <2>2 DEF Delivered
<1>5. /\ Len(d) \in Nat /\ DOMAIN d = 1..Len(d)
      /\ DOMAIN Append(d, e) = 1..(Len(d) + 1)
      /\ \A i \in 1..Len(d) : Append(d, e)[i] = d[i]
      /\ Append(d, e)[Len(d) + 1] = e
  BY <1>1, <1>3, AppendProperties
<1> DEFINE Live(x) == Place(log, x) > since[c]
<1>6. /\ \A i, j \in 1..Len(d) :
           i < j /\ (Live(d[i]) <=> Live(d[j])) => Place(log, d[i]) < Place(log, d[j])
      /\ \A i \in 1..Len(d), k \in 1..Len(h) : ~Live(d[i]) => Place(log, d[i]) < Place(log, h[k])
      /\ \A k, m \in 1..Len(h) : k < m => Place(log, h[k]) < Place(log, h[m])
      /\ \A k \in 1..Len(h) : ~Live(h[k])
  BY <1>3, <1>5 DEF InOrder
<1>7. 1 \in 1..Len(h) /\ ~Live(e)
  BY <1>3, <1>6
<1>8. \A k \in 1..(Len(h) - 1) : k + 1 \in 1..Len(h) /\ 1 < k + 1 /\ Tail(h)[k] = h[k + 1]
  BY <1>3
<1> DEFINE g == Append(d, e)
<1>9. \A i \in 1..(Len(d) + 1) :
        \/ i \in 1..Len(d) /\ g[i] = d[i]
        \/ i = Len(d) + 1 /\ g[i] = e
  BY <1>5
<1>10. \A i, j \in 1..(Len(d) + 1) :
         i < j /\ (Live(g[i]) <=> Live(g[j])) => Place(log, g[i]) < Place(log, g[j])
  <2> SUFFICES ASSUME NEW i \in 1..(Len(d) + 1), NEW j \in 1..(Len(d) + 1), i < j,
                      Live(g[i]) <=> Live(g[j])
               PROVE  Place(log, g[i]) < Place(log, g[j])
    OBVIOUS
  <2> HIDE DEF g, Live
  <2>1. i \in 1..Len(d) /\ g[i] = d[i]
    BY <1>5, <1>9
  <2>2. CASE j \in 1..Len(d) /\ g[j] = d[j]
    BY <1>6, <2>1, <2>2
  <2>3. CASE j = Len(d) + 1 /\ g[j] = e
    BY <1>3, <1>6, <1>7, <2>1, <2>3
  <2> QED BY <1>9, <2>2, <2>3
<1>11. \A i \in 1..(Len(d) + 1), k \in 1..(Len(h) - 1) :
         ~Live(g[i]) => Place(log, g[i]) < Place(log, Tail(h)[k])
  <2> SUFFICES ASSUME NEW i \in 1..(Len(d) + 1), NEW k \in 1..(Len(h) - 1), ~Live(g[i])
               PROVE  Place(log, g[i]) < Place(log, h[k + 1])
    BY <1>8
  <2> HIDE DEF g, Live
  <2>1. CASE i \in 1..Len(d) /\ g[i] = d[i]
    BY <1>6, <1>8, <2>1
  <2>2. CASE i = Len(d) + 1 /\ g[i] = e
    BY <1>3, <1>6, <1>7, <1>8, <2>2
  <2> QED BY <1>9, <2>1, <2>2
<1>12. \A k, m \in 1..(Len(h) - 1) :
         k < m => Place(log, Tail(h)[k]) < Place(log, Tail(h)[m])
  <2> SUFFICES ASSUME NEW k \in 1..(Len(h) - 1), NEW m \in 1..(Len(h) - 1), k < m
               PROVE  Place(log, h[k + 1]) < Place(log, h[m + 1])
    BY <1>8
  <2>1. k + 1 < m + 1
    BY <1>3
  <2> QED BY <1>6, <1>8, <2>1
<1>13. \A k \in 1..(Len(h) - 1) : ~Live(Tail(h)[k])
  BY <1>6, <1>8
<1> QED BY <1>2, <1>3, <1>4, <1>5, <1>10, <1>11, <1>12, <1>13 DEF InOrder

\* What the handler writes has been delivered before.
LEMMA WriteOrder ==
    ASSUME IInv, NEW c \in clients, WriteEvent(c), InOrder(c)
    PROVE  InOrder(c)'
<1>1. /\ c \in Clients /\ received[c] \in Seq(Events) /\ queue[c] \in Seq(Events)
      /\ queue[c] # <<>>
  BY UnderWayIsLogged DEF WriteEvent
<1>2. /\ log' = log /\ since' = since /\ replay' = replay
      /\ received'[c] = Append(received[c], Head(queue[c])) /\ queue'[c] = Tail(queue[c])
  BY <1>1 DEF WriteEvent, IInv, TypeOK
<1>3. Delivered(c)' = Delivered(c)
  BY <1>1, <1>2, DeliveredStays DEF Delivered
<1> QED BY <1>2, <1>3 DEF InOrder

\* Nothing moves to or from a client.
LEMMA UntouchedOrder ==
    ASSUME NEW c, InOrder(c),
           log' = log, since'[c] = since[c], received'[c] = received[c],
           queue'[c] = queue[c], replay'[c] = replay[c]
    PROVE  InOrder(c)'
<1>1. Delivered(c)' = Delivered(c)
  BY DEF Delivered
<1> QED BY <1>1 DEF InOrder

\* Live events reach a client in the order of their publication, and so do those
\* of its history, although the goroutine of the history and the publishers
\* compete for one channel.
THEOREM Order == Spec => []OrderWithinEachStream
<1> DEFINE AllInOrder == \A c \in clients : InOrder(c)
<1>1. Init => AllInOrder
  BY DEF Init
<1>2. IInv /\ AllInOrder /\ [Next]_vars => AllInOrder'
  <2> SUFFICES ASSUME IInv, AllInOrder, [Next]_vars, NEW c \in clients'
               PROVE  InOrder(c)'
    OBVIOUS
  <2>1. ASSUME NEW p \in Publishers, Stamp(p)
        PROVE  InOrder(c)'
    BY <2>1, UntouchedOrder DEF Stamp, hub, client, auxiliary
  <2>2. ASSUME NEW p \in Publishers, publish(p)
        PROVE  InOrder(c)'
    <3>1. clients' = clients
      BY <2>2 DEF publish
    <3> QED BY <2>2, <3>1, PublishOrder
  <2>3. ASSUME NEW d \in Clients, subscribe(d)
        PROVE  InOrder(c)'
    <3>1. CASE c = d
      BY <2>3, <3>1, SubscribeOrder
    <3>2. CASE c # d
      BY <2>3, <3>2, UntouchedOrder DEF subscribe, IInv, TypeOK
    <3> QED BY <3>1, <3>2
  <2>4. ASSUME NEW d \in Clients, Replay(d)
        PROVE  InOrder(c)'
    <3>1. clients' = clients
      BY <2>4 DEF Replay, hub
    <3>2. CASE c = d
      BY <2>4, <3>1, <3>2, ReplayOrder
    <3>3. CASE c # d
      BY <2>4, <3>1, <3>3, UntouchedOrder DEF Replay, IInv, TypeOK, auxiliary
    <3> QED BY <3>2, <3>3
  <2>5. ASSUME NEW d \in Clients, WriteEvent(d)
        PROVE  InOrder(c)'
    <3>1. clients' = clients
      BY <2>5 DEF WriteEvent, hub
    <3>2. CASE c = d
      BY <2>5, <3>1, <3>2, WriteOrder
    <3>3. CASE c # d
      BY <2>5, <3>1, <3>3, UntouchedOrder DEF WriteEvent, IInv, TypeOK
    <3> QED BY <3>2, <3>3
  <2>6. ASSUME NEW d \in Clients,
               ReplayReturns(d) \/ Stall(d) \/ Disconnect(d) \/ Unregister(d)
        PROVE  InOrder(c)'
    <3>1. /\ c \in clients
          /\ UNCHANGED <<queue, replay, log, since, received>>
      BY <2>6 DEF ReplayReturns, Stall, Disconnect, Unregister, hub, auxiliary
    <3> QED BY <3>1, UntouchedOrder
  <2>7. CASE UNCHANGED vars
    BY <2>7, UntouchedOrder DEF vars, hub, client, auxiliary
  <2> QED BY <2>1, <2>2, <2>3, <2>4, <2>5, <2>6, <2>7 DEF Next
<1>3. IInv /\ AllInOrder => OrderWithinEachStream
  BY DEF InOrder, OrderWithinEachStream, Place, Position
<1> QED BY <1>1, <1>2, <1>3, Invariance, PTL DEF Spec
=============================================================================

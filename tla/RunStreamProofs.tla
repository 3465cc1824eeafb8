-------------------------- MODULE RunStreamProofs --------------------------
(***************************************************************************)
(* Theorems about RunStream, for any set of clients, any buffer and queue  *)
(* capacity, with and without Redis, and any number of chunks.             *)
(*                                                                         *)
(*  - SafelyTyped: Spec => []TypeOK                                        *)
(*  - OrderInvariant: Spec => []OrderInv, the inductive invariant          *)
(*  - NoOrphans: Spec => []NoOrphanQueue                                   *)
(*  - Refinement: Spec => StreamsAreOrdered                                *)
(*  - StatusesAreFinal: Spec => []DoneIsTerminal                           *)
(*  - BufferAndQueuesAreNewest: Spec => []LogSuffix                        *)
(*  - OnlyOverflowMakesHoles: Spec => HolesOnlyByOverflow                  *)
(*  - TimeoutsWaitForTheEnd: Spec => ExpiresOnlyAfterRun                   *)
(***************************************************************************)
EXTENDS RunStream, SequenceTheorems, TLAPS

USE DEF NoId

-----------------------------------------------------------------------------
(* The operators of the bus. *)

\* deque(maxlen) and the drop-oldest queue keep a suffix of at most n entries.
LEMMA KeepLastIsSuffix ==
  ASSUME NEW S, NEW s \in Seq(S), NEW n \in Nat \ {0}
  PROVE  /\ KeepLast(s, n) \in Seq(S)
         /\ Len(KeepLast(s, n)) = IF Len(s) <= n THEN Len(s) ELSE n
         /\ \A i \in 1 .. Len(KeepLast(s, n)) :
               KeepLast(s, n)[i] = s[i + Len(s) - Len(KeepLast(s, n))]
<1>1. CASE Len(s) <= n
  BY <1>1 DEF KeepLast
<1>2. CASE ~(Len(s) <= n)
  <2> DEFINE m == Len(s) - n + 1
  <2>1. Len(s) \in Nat /\ m \in Int /\ m >= 2 /\ m <= Len(s)
    BY <1>2
  <2>2. \A i \in m .. Len(s) : s[i] \in S
    BY <2>1
  <2>3. /\ SubSeq(s, m, Len(s)) \in Seq(S)
        /\ Len(SubSeq(s, m, Len(s))) = IF m <= Len(s) THEN Len(s) - m + 1 ELSE 0
        /\ \A i \in 1 .. Len(s) - m + 1 : SubSeq(s, m, Len(s))[i] = s[m + i - 1]
    BY <2>1, <2>2, SubSeqProperties
  <2>4. KeepLast(s, n) = SubSeq(s, m, Len(s))
    BY <1>2 DEF KeepLast
  <2>5. Len(KeepLast(s, n)) = n
    BY <2>1, <2>3, <2>4
  <2>6. ASSUME NEW i \in 1 .. n
        PROVE  KeepLast(s, n)[i] = s[i + Len(s) - n]
    <3>1. i \in 1 .. Len(s) - m + 1 /\ m + i - 1 = i + Len(s) - n
      BY <2>1
    <3> QED BY <3>1, <2>3, <2>4
  <2> QED BY <1>2, <2>3, <2>4, <2>5, <2>6
<1> QED BY <1>1, <1>2

\* Replaying after an id yields entries of the buffer, in buffer order, that
\* follow an entry with that id; without an id, the whole buffer.
LEMMA ReplayIsSuffix ==
  ASSUME buffer \in Seq(Events), NEW after \in Int
  PROVE  /\ BufferedAfter(after) \in Seq(Events)
         /\ \E k \in 0 .. Len(buffer) :
               /\ Len(BufferedAfter(after)) = Len(buffer) - k
               /\ \A i \in 1 .. Len(buffer) - k :
                     BufferedAfter(after)[i] = buffer[i + k]
               /\ k = 0 => after = NoId \/ buffer = <<>>
               /\ k > 0 /\ k < Len(buffer) => buffer[k].id = after
<1> DEFINE hits == {i \in DOMAIN buffer : buffer[i].id = after}
           Goal(k) == /\ Len(BufferedAfter(after)) = Len(buffer) - k
                      /\ \A i \in 1 .. Len(buffer) - k :
                            BufferedAfter(after)[i] = buffer[i + k]
                      /\ k = 0 => after = NoId \/ buffer = <<>>
                      /\ k > 0 /\ k < Len(buffer) => buffer[k].id = after
<1> SUFFICES BufferedAfter(after) \in Seq(Events) /\ \E k \in 0 .. Len(buffer) : Goal(k)
  OBVIOUS
<1>1. CASE after = NoId
  <2>1. BufferedAfter(after) = buffer
    BY <1>1 DEF BufferedAfter
  <2>2. 0 \in 0 .. Len(buffer) /\ Len(buffer) - 0 = Len(buffer)
    OBVIOUS
  <2>3. Goal(0)
    BY <1>1, <2>1, <2>2
  <2> QED BY <2>1, <2>2, <2>3
<1>2. CASE after # NoId /\ hits = {}
  <2>1. BufferedAfter(after) = <<>>
    BY <1>2 DEF BufferedAfter
  <2>2. Len(buffer) \in 0 .. Len(buffer) /\ Len(buffer) - Len(buffer) = 0
    OBVIOUS
  <2>3. Len(buffer) = 0 => buffer = <<>>
    OBVIOUS
  <2> QED BY <2>1, <2>2, <2>3
<1>3. CASE after # NoId /\ hits # {}
  <2> DEFINE k == CHOOSE i \in hits : TRUE
  <2>1. k \in DOMAIN buffer /\ buffer[k].id = after
    BY <1>3
  <2>2. k \in 1 .. Len(buffer) /\ Len(buffer) \in Nat
    BY <2>1
  <2> HIDE DEF k
  <2>3. \A i \in k + 1 .. Len(buffer) : buffer[i] \in Events
    BY <2>2
  <2>4. /\ SubSeq(buffer, k + 1, Len(buffer)) \in Seq(Events)
        /\ Len(SubSeq(buffer, k + 1, Len(buffer))) =
              IF k + 1 <= Len(buffer) THEN Len(buffer) - (k + 1) + 1 ELSE 0
        /\ \A i \in 1 .. Len(buffer) - (k + 1) + 1 :
              SubSeq(buffer, k + 1, Len(buffer))[i] = buffer[(k + 1) + i - 1]
    <3>1. k + 1 \in Int /\ Len(buffer) \in Int
      BY <2>2
    <3> QED BY <2>3, <3>1, SubSeqProperties
  <2>5. BufferedAfter(after) = SubSeq(buffer, k + 1, Len(buffer))
    BY <1>3 DEF BufferedAfter, k
  <2>6. Len(BufferedAfter(after)) = Len(buffer) - k
    BY <2>2, <2>4, <2>5
  <2>7. ASSUME NEW i \in 1 .. Len(buffer) - k
        PROVE  BufferedAfter(after)[i] = buffer[i + k]
    <3>1. i \in 1 .. Len(buffer) - (k + 1) + 1 /\ (k + 1) + i - 1 = i + k
      BY <2>2
    <3> QED BY <3>1, <2>4, <2>5
  <2>8. Goal(k)
    BY <2>1, <2>2, <2>6, <2>7
  <2>9. k \in 0 .. Len(buffer)
    BY <2>2
  <2> HIDE DEF Goal
  <2> QED BY <2>4, <2>5, <2>8, <2>9
<1> QED BY <1>1, <1>2, <1>3

-----------------------------------------------------------------------------
(* InOrder, the order of a queue, a replay or the buffer relative to the log. *)

LEMMA EventFields ==
  ASSUME NEW s \in Seq(Events)
  PROVE  \A i \in 1 .. Len(s) : s[i] \in Events /\ s[i].id \in Nat /\ s[i].kind \in Kinds
<1>1. ASSUME NEW i \in 1 .. Len(s)
      PROVE  s[i] \in Events
  BY ElementOfSeq
<1> QED BY <1>1 DEF Events

LEMMA InOrderEmpty ==
  ASSUME NEW low, NEW l
  PROVE  InOrder(<<>>, low, l)
BY DEF InOrder

\* Taking the head off moves the lower bound up to it.
LEMMA InOrderTail ==
  ASSUME NEW s \in Seq(Events), s # <<>>, NEW low \in Int, NEW l \in Seq(Kinds),
         InOrder(s, low, l)
  PROVE  /\ Head(s) \in Events /\ Tail(s) \in Seq(Events)
         /\ Len(Tail(s)) = Len(s) - 1
         /\ Head(s).id > low /\ Head(s).id < Len(l)
         /\ Head(s).kind = l[Head(s).id + 1]
         /\ InOrder(Tail(s), Head(s).id, l)
<1>1. /\ Head(s) \in Events /\ Tail(s) \in Seq(Events)
      /\ Len(Tail(s)) = Len(s) - 1
      /\ \A i \in 1 .. Len(Tail(s)) : Tail(s)[i] = s[i + 1]
  BY HeadTailProperties
<1>2. Head(s) = s[1] /\ Len(s) \in Nat \ {0}
  OBVIOUS
<1>3. /\ Head(s).id > low /\ Head(s).id < Len(l)
      /\ Head(s).kind = l[Head(s).id + 1]
      /\ \A j \in 2 .. Len(s) : Head(s).id < s[j].id
  BY <1>2 DEF InOrder
<1>4. ASSUME NEW i \in 1 .. Len(Tail(s))
      PROVE  /\ Tail(s)[i].id > Head(s).id /\ Tail(s)[i].id < Len(l)
             /\ Tail(s)[i].kind = l[Tail(s)[i].id + 1]
             /\ \A j \in 1 .. Len(Tail(s)) : i < j => Tail(s)[i].id < Tail(s)[j].id
  <2>1. i + 1 \in 2 .. Len(s) /\ Tail(s)[i] = s[i + 1]
    BY <1>1, <1>2
  <2>2. s[i + 1].id < Len(l) /\ s[i + 1].kind = l[s[i + 1].id + 1]
    BY <2>1, <1>2 DEF InOrder
  <2>3. ASSUME NEW j \in 1 .. Len(Tail(s)), i < j
        PROVE  s[i + 1].id < Tail(s)[j].id
    <3>1. j + 1 \in 1 .. Len(s) /\ i + 1 \in 1 .. Len(s) /\ i + 1 < j + 1
      BY <2>1, <2>3, <1>1
    <3>2. s[i + 1].id < s[j + 1].id
      BY <3>1 DEF InOrder
    <3> QED BY <3>2, <1>1
  <2> QED BY <1>3, <2>1, <2>2, <2>3
<1> QED BY <1>1, <1>3, <1>4 DEF InOrder

\* The log may grow under a sequence that is in order.
LEMMA InOrderGrow ==
  ASSUME NEW s \in Seq(Events), NEW low \in Int, NEW l \in Seq(Kinds),
         NEW k \in Kinds, InOrder(s, low, l)
  PROVE  InOrder(s, low, Append(l, k))
<1>1. /\ Len(Append(l, k)) = Len(l) + 1
      /\ \A i \in 1 .. Len(l) : Append(l, k)[i] = l[i]
  BY AppendProperties
<1>2. Len(l) \in Nat
  OBVIOUS
<1> DEFINE m == Append(l, k)
<1> HIDE DEF m
<1>3. ASSUME NEW i \in 1 .. Len(s)
      PROVE  s[i].id < Len(m) /\ s[i].kind = m[s[i].id + 1]
  <2>1. s[i].id \in Nat /\ s[i].id < Len(l) /\ s[i].kind = l[s[i].id + 1]
    BY EventFields DEF InOrder
  <2>2. s[i].id + 1 \in 1 .. Len(l)
    BY <2>1, <1>2
  <2> QED BY <1>1, <1>2, <2>1, <2>2 DEF m
<1>4. InOrder(s, low, m)
  BY <1>3 DEF InOrder
<1> QED BY <1>4 DEF m

\* Publishing appends the next event of the log, which lies above everything.
LEMMA InOrderPush ==
  ASSUME NEW s \in Seq(Events), NEW low \in Int, NEW l \in Seq(Kinds),
         NEW k \in Kinds, NEW n \in Nat \ {0}, NEW e,
         e = [id |-> Len(l), kind |-> k],
         low < Len(l), InOrder(s, low, l)
  PROVE  InOrder(KeepLast(Append(s, e), n), low, Append(l, k))
<1> DEFINE t == Append(s, e)
           m == Append(l, k)
           u == KeepLast(t, n)
<1>1. e \in Events
  BY DEF Events
<1>2. /\ t \in Seq(Events) /\ Len(t) = Len(s) + 1
      /\ \A i \in 1 .. Len(s) : t[i] = s[i]
      /\ t[Len(s) + 1] = e
  BY <1>1, AppendProperties
<1>3. /\ Len(m) = Len(l) + 1
      /\ \A i \in 1 .. Len(l) : m[i] = l[i]
      /\ m[Len(l) + 1] = k
  BY AppendProperties
<1>4. \A i \in 1 .. Len(s) :
         /\ s[i].id \in Nat /\ s[i].id > low /\ s[i].id < Len(l)
         /\ s[i].kind = l[s[i].id + 1]
         /\ \A j \in 1 .. Len(s) : i < j => s[i].id < s[j].id
  BY EventFields DEF InOrder
<1>5. InOrder(t, low, m)
  <2> HIDE DEF t, m
  <2>1. e.id = Len(l) /\ e.kind = k
    OBVIOUS
  <2>2. ASSUME NEW i \in 1 .. Len(t)
        PROVE  t[i].id > low /\ t[i].id < Len(m) /\ t[i].kind = m[t[i].id + 1]
    <3>1. CASE i = Len(s) + 1
      BY <3>1, <1>2, <1>3, <2>1
    <3>2. CASE i \in 1 .. Len(s)
      <4>1. s[i].id + 1 \in 1 .. Len(l)
        BY <3>2, <1>4
      <4> QED BY <3>2, <4>1, <1>2, <1>3, <1>4
    <3> QED BY <3>1, <3>2, <1>2
  <2>3. ASSUME NEW i \in 1 .. Len(t), NEW j \in 1 .. Len(t), i < j
        PROVE  t[i].id < t[j].id
    <3>1. i \in 1 .. Len(s)
      BY <2>3, <1>2
    <3>2. CASE j = Len(s) + 1
      BY <3>1, <3>2, <1>2, <1>4, <2>1
    <3>3. CASE j \in 1 .. Len(s)
      BY <3>1, <3>3, <2>3, <1>2, <1>4
    <3> QED BY <3>2, <3>3, <1>2
  <2> QED BY <2>2, <2>3 DEF InOrder
<1>6. /\ Len(u) \in Nat /\ Len(t) \in Nat /\ Len(u) <= Len(t)
      /\ \A i \in 1 .. Len(u) : u[i] = t[i + Len(t) - Len(u)]
  <2> HIDE DEF t
  <2>1. /\ Len(u) = IF Len(t) <= n THEN Len(t) ELSE n
        /\ \A i \in 1 .. Len(u) : u[i] = t[i + Len(t) - Len(u)]
    BY <1>2, KeepLastIsSuffix
  <2>2. Len(t) \in Nat
    BY <1>2
  <2> HIDE DEF u
  <2>3. Len(u) \in Nat /\ Len(u) <= Len(t)
    BY <2>1, <2>2
  <2> QED BY <2>1, <2>2, <2>3
<1>7. ASSUME NEW i \in 1 .. Len(u)
      PROVE  /\ u[i].id > low /\ u[i].id < Len(m) /\ u[i].kind = m[u[i].id + 1]
             /\ \A j \in 1 .. Len(u) : i < j => u[i].id < u[j].id
  <2> HIDE DEF t, m, u
  <2>1. i + Len(t) - Len(u) \in 1 .. Len(t)
    BY <1>6
  <2>2. ASSUME NEW j \in 1 .. Len(u), i < j
        PROVE  u[i].id < u[j].id
    <3>1. /\ j + Len(t) - Len(u) \in 1 .. Len(t)
          /\ i + Len(t) - Len(u) < j + Len(t) - Len(u)
      BY <2>2, <1>6
    <3> QED BY <2>1, <3>1, <1>5, <1>6 DEF InOrder
  <2> QED BY <2>1, <2>2, <1>5, <1>6 DEF InOrder
<1> QED BY <1>7 DEF InOrder

\* A replay after an id holds only later events of the buffer.
LEMMA InOrderReplay ==
  ASSUME buffer \in Seq(Events), NEW low \in Int, NEW l \in Seq(Kinds),
         InOrder(buffer, NoId, l)
  PROVE  /\ BufferedAfter(low) \in Seq(Events)
         /\ InOrder(BufferedAfter(low), low, l)
<1> DEFINE r == BufferedAfter(low)
<1>1. PICK k \in 0 .. Len(buffer) :
         /\ Len(r) = Len(buffer) - k
         /\ \A i \in 1 .. Len(buffer) - k : r[i] = buffer[i + k]
         /\ k = 0 => low = NoId \/ buffer = <<>>
         /\ k > 0 /\ k < Len(buffer) => buffer[k].id = low
  BY ReplayIsSuffix
<1>2. r \in Seq(Events)
  BY ReplayIsSuffix
<1> HIDE DEF r
<1>3. ASSUME NEW i \in 1 .. Len(r)
      PROVE  /\ r[i].id > low /\ r[i].id < Len(l) /\ r[i].kind = l[r[i].id + 1]
             /\ \A j \in 1 .. Len(r) : i < j => r[i].id < r[j].id
  <2>1. i + k \in 1 .. Len(buffer) /\ r[i] = buffer[i + k]
    BY <1>1
  <2>2. /\ buffer[i + k].id > NoId /\ buffer[i + k].id < Len(l)
        /\ buffer[i + k].kind = l[buffer[i + k].id + 1]
    BY <2>1 DEF InOrder
  <2>3. buffer[i + k].id > low
    <3>1. CASE k = 0
      BY <3>1, <1>1, <2>1, <2>2
    <3>2. CASE k > 0
      <4>1. k \in 1 .. Len(buffer) /\ k < i + k /\ k < Len(buffer)
        BY <3>2, <1>1, <2>1
      <4>2. buffer[k].id < buffer[i + k].id
        BY <4>1, <2>1 DEF InOrder
      <4>3. buffer[k].id = low
        BY <3>2, <4>1, <1>1
      <4>4. buffer[i + k].id \in Nat
        BY <2>1, EventFields
      <4> QED BY <4>2, <4>3, <4>4
    <3> QED BY <3>1, <3>2, <1>1
  <2>4. ASSUME NEW j \in 1 .. Len(r), i < j
        PROVE  r[i].id < r[j].id
    <3>0. i \in 1 .. Len(buffer) - k /\ j \in 1 .. Len(buffer) - k
      BY <1>1
    <3>1. j + k \in 1 .. Len(buffer) /\ r[j] = buffer[j + k] /\ i + k < j + k
      BY <2>4, <3>0, <1>1
    <3>2. buffer[i + k].id < buffer[j + k].id
      BY <3>1, <2>1 DEF InOrder
    <3> QED BY <3>1, <3>2, <2>1
  <2> QED BY <2>1, <2>2, <2>3, <2>4
<1> QED BY <1>2, <1>3 DEF InOrder, r

-----------------------------------------------------------------------------
(* Type correctness. *)

LEMMA PushedTyped ==
  ASSUME NEW q \in Seq(Events), NEW e \in Events, NEW n \in Nat \ {0}
  PROVE  /\ KeepLast(Append(q, e), n) \in Seq(Events)
         /\ Len(KeepLast(Append(q, e), n)) <= n
<1> DEFINE t == Append(q, e)
<1>1. t \in Seq(Events) /\ Len(t) \in Nat
  OBVIOUS
<1> HIDE DEF t
<1>2. /\ KeepLast(t, n) \in Seq(Events)
      /\ Len(KeepLast(t, n)) = IF Len(t) <= n THEN Len(t) ELSE n
  BY <1>1, KeepLastIsSuffix
<1>3. Len(KeepLast(t, n)) <= n
  BY <1>1, <1>2
<1> QED BY <1>2, <1>3 DEF t

\* Every operation of the bus keeps its types and its two capacities.
LEMMA BusTyped ==
  ASSUME BusTypeOK,
         \/ \E k \in Kinds : Publish(k)
         \/ \E c \in Clients : Subscribe(c) \/ Unsubscribe(c) \/ Take(c)
         \/ DropRun
         \/ UNCHANGED busVars
  PROVE  BusTypeOK'
<1> USE BusAssumption DEF BusTypeOK
<1>1. ASSUME NEW k \in Kinds, Publish(k)
      PROVE  BusTypeOK'
  <2> DEFINE e == NextEvent(k)
  <2>1. e \in Events
    BY DEF NextEvent, Events
  <2> HIDE DEF e
  <2>2. buffer' \in Seq(Events) /\ Len(buffer') <= BufferMax
    BY <1>1, <2>1, PushedTyped DEF Publish, e
  <2>3. ASSUME NEW c \in Clients
        PROVE  queue'[c] \in Seq(Events) /\ Len(queue'[c]) <= QueueMax
    BY <1>1, <2>1, PushedTyped DEF Publish, Pushed, e
  <2>4. queue' \in [Clients -> Seq(Events)]
    BY <1>1, <2>3 DEF Publish
  <2>5. counter' \in Nat /\ subscribers' \in SUBSET Clients
    BY <1>1 DEF Publish
  <2> QED BY <2>2, <2>3, <2>4, <2>5
<1>2. ASSUME NEW c \in Clients, Subscribe(c)
      PROVE  BusTypeOK'
  BY <1>2 DEF Subscribe
<1>3. ASSUME NEW c \in Clients, Unsubscribe(c)
      PROVE  BusTypeOK'
  BY <1>3 DEF Unsubscribe
<1>4. ASSUME NEW c \in Clients, Take(c)
      PROVE  BusTypeOK'
  <2>1. /\ Tail(queue[c]) \in Seq(Events)
        /\ Len(Tail(queue[c])) = Len(queue[c]) - 1
    BY <1>4, HeadTailProperties DEF Take
  <2>2. Len(queue[c]) <= QueueMax /\ Len(queue[c]) \in Nat
    OBVIOUS
  <2>3. queue' \in [Clients -> Seq(Events)]
    BY <1>4, <2>1 DEF Take
  <2>4. \A d \in Clients : Len(queue'[d]) <= QueueMax
    BY <1>4, <2>1, <2>2 DEF Take
  <2> QED BY <1>4, <2>3, <2>4 DEF Take
<1>5. CASE DropRun
  BY <1>5 DEF DropRun
<1>6. CASE UNCHANGED busVars
  BY <1>6 DEF busVars
<1> QED BY <1>1, <1>2, <1>3, <1>4, <1>5, <1>6

\* What a client receives is an event's id.
LEMMA ReceiveTyped ==
  ASSUME TypeOK, NEW c \in Clients, NEW e \in Events,
         NEW state \in ConnStates, Receive(c, e, state)
  PROVE  /\ got' \in [Clients -> Seq(Nat)]
         /\ conn' \in [Clients -> ConnStates]
<1>1. e.id \in Nat /\ "ended" \in ConnStates
  BY DEF Events, ConnStates
<1>2. Append(got[c], e.id) \in Seq(Nat)
  BY <1>1 DEF TypeOK
<1> QED BY <1>1, <1>2 DEF TypeOK, Receive

LEMMA InitTyped == Init => TypeOK
<1> SUFFICES ASSUME Init PROVE TypeOK
  OBVIOUS
<1>1. <<>> \in Seq(Events) /\ <<>> \in Seq(Nat) /\ <<>> \in Seq(Kinds) /\ Len(<<>>) = 0
  OBVIOUS
<1>2. 0 <= BufferMax /\ 0 <= QueueMax
  BY BusAssumption
<1>3. BusTypeOK
  BY <1>1, <1>2 DEF Init, BusInit, BusTypeOK
<1>4. /\ task \in Points /\ onLoop \in BOOLEAN /\ cancelled \in BOOLEAN
      /\ journal \in BOOLEAN /\ handle \in BOOLEAN /\ status \in Statuses
      /\ cleaner \in {"idle", "waiting", "done"}
  BY DEF Init, Points, Statuses
<1>5. /\ conn \in [Clients -> ConnStates] /\ replay \in [Clients -> Seq(Events)]
      /\ got \in [Clients -> Seq(Nat)] /\ log \in Seq(Kinds) /\ joined \in [Clients -> Nat]
  BY <1>1 DEF Init, ConnStates
<1> QED BY <1>3, <1>4, <1>5 DEF TypeOK

\* The background task keeps the types.
LEMMA TaskTyped ==
  ASSUME TypeOK, TaskNext
  PROVE  TypeOK'
<1> USE DEF At, Go, RunOn, InPublish, EnterFinally, Points, Statuses
<1>1. RunAssumption
  BY RunAssumption
<1>2. /\ task' \in Points /\ onLoop' \in BOOLEAN /\ cancelled' \in BOOLEAN
      /\ journal' \in BOOLEAN /\ handle' \in BOOLEAN
      /\ status' \in Statuses /\ cleaner' \in {"idle", "waiting", "done"}
  <2>1. CASE StartTask \/ JournalReady
    BY <2>1 DEF TypeOK, StartTask, JournalReady
  <2>2. CASE GraphChunk \/ TokenUsage \/ GraphFails \/ Saved \/ PublishEnd
    BY <1>1, <2>2 DEF TypeOK, GraphChunk, TokenUsage, GraphFails, Saved, PublishEnd,
                      RunAssumption
  <2>3. CASE NextChunk \/ GraphDone \/ ErrorPublished \/ Flushed \/ FinalizerDone
    BY <2>3 DEF TypeOK, NextChunk, GraphDone, ErrorPublished, Flushed, FinalizerDone
  <2>4. CASE TaskReturns
    BY <2>4 DEF TypeOK, TaskReturns
  <2>5. CASE CancelInTry \/ CancelInHandler \/ CancelOutsideTry
    BY <2>5 DEF TypeOK, CancelInTry, CancelInHandler, CancelOutsideTry
  <2> QED BY <2>1, <2>2, <2>3, <2>4, <2>5 DEF TaskNext
<1>3. UNCHANGED connVars
  BY DEF TaskNext, StartTask, JournalReady, GraphChunk, TokenUsage, GraphFails, Saved,
         PublishEnd, NextChunk, GraphDone, ErrorPublished, Flushed, FinalizerDone,
         TaskReturns, CancelInTry, CancelInHandler, CancelOutsideTry
<1>4. \/ \E k \in Kinds : Emit(k)
      \/ UNCHANGED <<busVars, log>>
  BY DEF TaskNext, StartTask, JournalReady, GraphChunk, TokenUsage, GraphFails, Saved,
         PublishEnd, NextChunk, GraphDone, ErrorPublished, Flushed, FinalizerDone,
         TaskReturns, CancelInTry, CancelInHandler, CancelOutsideTry, Kinds
<1>5. BusTypeOK' /\ log' \in Seq(Kinds)
  <2>1. ASSUME NEW k \in Kinds, Emit(k)
        PROVE  BusTypeOK' /\ log' \in Seq(Kinds)
    BY <2>1, BusTyped DEF TypeOK, Emit
  <2>2. CASE UNCHANGED <<busVars, log>>
    BY <2>2, BusTyped DEF TypeOK
  <2> QED BY <1>4, <2>1, <2>2
<1> QED BY <1>2, <1>3, <1>5 DEF TypeOK, connVars

\* The SSE connections keep the types.
LEMMA ConsumerTyped ==
  ASSUME TypeOK, NEW c \in Clients, ConsumerNext(c)
  PROVE  TypeOK'
<1> USE DEF TypeOK
<1>1. "replay" \in ConnStates /\ "live" \in ConnStates /\ "expired" \in ConnStates
  BY DEF ConnStates, Watching
<1>2. <<>> \in Seq(Events) /\ Len(log) \in Nat
  OBVIOUS
<1>3. ASSUME NEW s \in Seq(Events), s # <<>>
      PROVE  Head(s) \in Events /\ Tail(s) \in Seq(Events)
  BY <1>3, HeadTailProperties
<1>4. ASSUME GoLive(c), UNCHANGED <<taskVars, replay, log>>
      PROVE  TypeOK'
  <2>1. BusTypeOK'
    BY <1>4, BusTyped DEF GoLive
  <2>2. conn' \in [Clients -> ConnStates] /\ joined' \in [Clients -> Nat]
    BY <1>1, <1>2, <1>4 DEF GoLive
  <2> QED BY <1>4, <2>1, <2>2 DEF GoLive, taskVars
<1>5. ASSUME StopLive(c)
      PROVE  BusTypeOK' /\ joined' \in [Clients -> Nat]
  BY <1>5, BusTyped DEF StopLive
<1>6. ASSUME Snapshot(c)
      PROVE  TypeOK'
  <2> DEFINE events == BufferedAfter(LastId(got[c]))
  <2>1. events \in Seq(Events)
    <3>1. LastId(got[c]) \in Int
      BY DEF LastId
    <3> QED BY <3>1, ReplayIsSuffix DEF BusTypeOK
  <2>2. CASE events = <<>>
    BY <1>4, <1>6, <2>2 DEF Snapshot
  <2>3. CASE events # <<>>
    <3> HIDE DEF events
    <3>1. Head(events) \in Events /\ Tail(events) \in Seq(Events)
      BY <1>3, <2>1, <2>3
    <3>2. /\ Receive(c, Head(events), "replay")
          /\ replay' = [replay EXCEPT ![c] =
                           IF Head(events).kind = "end" THEN <<>> ELSE Tail(events)]
          /\ UNCHANGED <<busVars, joined>>
          /\ UNCHANGED <<taskVars, log>>
      BY <1>6, <2>3 DEF Snapshot, events
    <3>3. replay' \in [Clients -> Seq(Events)]
      BY <1>2, <3>1, <3>2
    <3>4. got' \in [Clients -> Seq(Nat)] /\ conn' \in [Clients -> ConnStates]
      BY <1>1, <3>1, <3>2, ReceiveTyped
    <3>5. BusTypeOK'
      BY <3>2, BusTyped
    <3> QED BY <3>2, <3>3, <3>4, <3>5 DEF taskVars
  <2> QED BY <2>2, <2>3
<1>7. ASSUME Replay(c)
      PROVE  TypeOK'
  <2>1. Head(replay[c]) \in Events /\ Tail(replay[c]) \in Seq(Events)
    BY <1>3, <1>7 DEF Replay
  <2>2. replay' \in [Clients -> Seq(Events)]
    BY <1>2, <1>7, <2>1 DEF Replay
  <2>3. got' \in [Clients -> Seq(Nat)] /\ conn' \in [Clients -> ConnStates]
    BY <1>1, <1>7, <2>1, ReceiveTyped DEF Replay
  <2>4. BusTypeOK'
    BY <1>7, BusTyped DEF Replay
  <2> QED BY <1>7, <2>2, <2>3, <2>4 DEF Replay, taskVars
<1>8. ASSUME JoinLive(c)
      PROVE  TypeOK'
  BY <1>4, <1>8 DEF JoinLive
<1>9. ASSUME Deliver(c)
      PROVE  TypeOK'
  <2>1. Head(queue[c]) \in Events
    BY <1>3, <1>9 DEF Deliver, BusTypeOK
  <2>2. got' \in [Clients -> Seq(Nat)] /\ conn' \in [Clients -> ConnStates]
    BY <1>1, <1>9, <2>1, ReceiveTyped DEF Deliver
  <2>3. BusTypeOK' /\ joined' \in [Clients -> Nat]
    <3>1. CASE Head(queue[c]).kind = "end"
      BY <1>5, <1>9, <3>1 DEF Deliver
    <3>2. CASE Head(queue[c]).kind # "end"
      BY <1>9, <3>2, BusTyped DEF Deliver
    <3> QED BY <3>1, <3>2
  <2> QED BY <1>9, <2>2, <2>3 DEF Deliver, taskVars
<1>10. ASSUME Expire(c)
       PROVE  TypeOK'
  <2>1. conn' \in [Clients -> ConnStates]
    BY <1>1, <1>10 DEF Expire
  <2> QED BY <1>5, <1>10, <2>1 DEF Expire
<1> QED BY <1>6, <1>7, <1>8, <1>9, <1>10 DEF ConsumerNext

\* The endpoints, a disconnect, the cleanup and a restart keep the types.
LEMMA OtherTyped ==
  ASSUME TypeOK,
         \/ CancelRun \/ Cleanup \/ Restart
         \/ \E c \in Clients : \/ StreamRun(c) \/ Launch(c) \/ Reconnect(c)
                              \/ JoinThread(c) \/ Disconnect(c)
  PROVE  TypeOK'
<1> USE DEF TypeOK
<1>1. ConnStates = {"open", "replay", "live", "idle", "posting", "ended", "expired", "checkpoint"}
  BY DEF ConnStates, Watching
<1>2. <<>> \in Seq(Events) /\ <<>> \in Seq(Nat)
  OBVIOUS
<1>3. CASE CancelRun
  BY <1>3, BusTyped DEF CancelRun, connVars, IsRunning, Statuses
<1>4. CASE Cleanup
  BY <1>4, BusTyped DEF Cleanup, connVars
<1>5. CASE Restart
  <2>1. BusTypeOK'
    <3>1. 0 <= BufferMax /\ 0 <= QueueMax /\ Len(<<>>) = 0
      BY BusAssumption
    <3> QED BY <1>2, <1>5, <3>1 DEF Restart, BusTypeOK
  <2>2. /\ conn' \in [Clients -> ConnStates]
        /\ replay' \in [Clients -> Seq(Events)] /\ joined' \in [Clients -> Nat]
    BY <1>1, <1>2, <1>5 DEF Restart
  <2> QED BY <1>5, <2>1, <2>2 DEF Restart, Points, Statuses
<1>6. ASSUME NEW c \in Clients, StreamRun(c) \/ Launch(c)
      PROVE  TypeOK'
  <2>1. BusTypeOK'
    BY <1>6, BusTyped DEF StreamRun, Launch
  <2> QED BY <1>1, <1>6, <2>1 DEF StreamRun, Launch, Points, Statuses
<1>7. ASSUME NEW c \in Clients, Reconnect(c)
      PROVE  TypeOK'
  <2>1. BusTypeOK'
    BY <1>7, BusTyped DEF Reconnect
  <2> QED BY <1>1, <1>2, <1>7, <2>1 DEF Reconnect, IsRunning
<1>8. ASSUME NEW c \in Clients, JoinThread(c)
      PROVE  TypeOK'
  <2>1. BusTypeOK'
    BY <1>8, BusTyped DEF JoinThread
  <2> QED BY <1>1, <1>2, <1>8, <2>1 DEF JoinThread, taskVars
<1>9. ASSUME NEW c \in Clients, Disconnect(c)
      PROVE  TypeOK'
  <2>1. BusTypeOK' /\ joined' \in [Clients -> Nat]
    BY <1>9, BusTyped DEF Disconnect, StopLive
  <2> QED BY <1>1, <1>2, <1>9, <2>1 DEF Disconnect, taskVars
<1> QED BY <1>3, <1>4, <1>5, <1>6, <1>7, <1>8, <1>9

\* Whatever the clients, the cancels and the restarts do, buffer and queues
\* stay within their capacities and every variable within its type.
THEOREM SafelyTyped == Spec => []TypeOK
<1>1. TypeOK /\ [Next]_vars => TypeOK'
  <2> SUFFICES ASSUME TypeOK, [Next]_vars PROVE TypeOK'
    OBVIOUS
  <2>1. CASE Next
    BY <2>1, TaskTyped, ConsumerTyped, OtherTyped DEF Next
  <2>2. CASE UNCHANGED vars
    BY <2>2, BusTyped DEF vars, taskVars, connVars, TypeOK
  <2> QED BY <2>1, <2>2
<1> QED BY <1>1, InitTyped, PTL DEF Spec

-----------------------------------------------------------------------------
(* The inductive invariant. *)

LEMMA LastIdProperties ==
  ASSUME NEW ids \in Seq(Nat)
  PROVE  /\ LastId(ids) \in Int /\ LastId(ids) >= NoId
         /\ LastId(<<>>) = NoId
         /\ \A i \in Nat : LastId(Append(ids, i)) = i
         /\ \A n \in Nat : (\A i \in 1 .. Len(ids) : ids[i] < n) => LastId(ids) < n
<1>1. CASE ids = <<>>
  BY <1>1 DEF LastId
<1>2. CASE ids # <<>>
  <2>1. Len(ids) \in 1 .. Len(ids) /\ ids[Len(ids)] \in Nat
    BY <1>2
  <2>2. LastId(ids) = ids[Len(ids)]
    BY <1>2 DEF LastId
  <2>3. \A i \in Nat : LastId(Append(ids, i)) = i
    BY AppendProperties DEF LastId
  <2> QED BY <2>1, <2>2, <2>3 DEF LastId
<1> QED BY <1>1, <1>2

LEMMA InitInOrder == Init => OrderInv
BY InOrderEmpty DEF Init, BusInit, OrderInv, ClientInOrder, Over

\* A publish while the run is not over and has not sent its end event.
LEMMA EmitInOrder ==
  ASSUME TypeOK, OrderInv, NEW k \in Kinds, Emit(k),
         task \notin Over \cup {"end"}, task' \notin Over,
         k = "end" => task' = "end",
         UNCHANGED <<cleaner, connVars>>
  PROVE  OrderInv'
<1> USE BusAssumption
<1> DEFINE e == NextEvent(k)
<1>1. counter = Len(log) /\ log' = Append(log, k) /\ counter' = counter + 1
  BY DEF OrderInv, Emit, Publish
<1>2. e = [id |-> Len(log), kind |-> k] /\ Len(log) \in Nat
  BY <1>1 DEF NextEvent, TypeOK
<1>3. /\ log \in Seq(Kinds) /\ log' \in Seq(Kinds) /\ Len(log') = Len(log) + 1
      /\ \A i \in 1 .. Len(log) : log'[i] = log[i]
      /\ log'[Len(log) + 1] = k
  BY <1>1, AppendProperties DEF TypeOK
<1>4. /\ task' \notin Over => counter' = Len(log')
      /\ cleaner' = "waiting" => task' = "done"
  BY <1>1, <1>3 DEF OrderInv, Over
<1>5. \A i \in 1 .. Len(log') :
         log'[i] = "end" => i = Len(log') /\ task' \in Over \cup {"end"}
  BY <1>1, <1>2, <1>3 DEF OrderInv, TypeOK, Kinds
<1> HIDE DEF e
<1>6. InOrder(buffer', NoId, log')
  <2>1. NoId < Len(log) /\ NoId \in Int
    BY <1>2
  <2>2. InOrder(KeepLast(Append(buffer, e), BufferMax), NoId, Append(log, k))
    BY <1>2, <2>1, InOrderPush DEF OrderInv, TypeOK, BusTypeOK
  <2> QED BY <1>1, <2>2 DEF Emit, Publish, e
<1>7. ASSUME NEW c \in Clients
      PROVE  ClientInOrder(c)'
  <2> DEFINE low == LastId(got[c])
  <2>1. /\ got[c] \in Seq(Nat) /\ queue[c] \in Seq(Events) /\ replay[c] \in Seq(Events)
        /\ \A i \in 1 .. Len(got[c]) : got[c][i] < Len(log)
        /\ InOrder(queue[c], low, log) /\ InOrder(replay[c], low, log)
        /\ conn[c] # "live" => queue[c] = <<>> /\ c \notin subscribers
        /\ conn[c] # "replay" => replay[c] = <<>>
    BY DEF OrderInv, ClientInOrder, TypeOK, BusTypeOK
  <2>2. low \in Int /\ low < Len(log)
    BY <1>2, <2>1, LastIdProperties
  <2> HIDE DEF low
  <2>3. InOrder(queue'[c], low, log')
    <3>1. CASE c \in subscribers
      <4>1. queue'[c] = KeepLast(Append(queue[c], e), QueueMax)
        BY <3>1 DEF Emit, Publish, Pushed, e
      <4>2. InOrder(KeepLast(Append(queue[c], e), QueueMax), low, Append(log, k))
        BY <1>2, <1>3, <2>1, <2>2, InOrderPush
      <4> QED BY <1>1, <4>1, <4>2
    <3>2. CASE c \notin subscribers
      <4>1. queue'[c] = queue[c]
        BY <3>2 DEF Emit, Publish
      <4> QED BY <1>1, <1>3, <2>1, <2>2, <4>1, InOrderGrow
    <3> QED BY <3>1, <3>2
  <2>4. InOrder(replay'[c], low, log')
    BY <1>1, <1>3, <2>1, <2>2, InOrderGrow DEF connVars
  <2>5. \A i \in 1 .. Len(got'[c]) : got'[c][i] < Len(log')
    <3>1. \A i \in 1 .. Len(got[c]) : got[c][i] \in Nat
      BY SMTT(30), <2>1
    <3> QED BY SMTT(30), <1>2, <1>3, <2>1, <3>1 DEF connVars
  <2>6. /\ conn'[c] # "live" => queue'[c] = <<>> /\ c \notin subscribers'
        /\ conn'[c] # "replay" => replay'[c] = <<>>
    BY <2>1 DEF connVars, Emit, Publish
  <2>7. low = LastId(got'[c])
    BY DEF connVars, low
  <2> QED BY <2>3, <2>4, <2>5, <2>6, <2>7 DEF ClientInOrder
<1> QED BY <1>4, <1>5, <1>6, <1>7 DEF OrderInv

\* A step that leaves the bus, the connections and the log alone.
LEMMA QuietInOrder ==
  ASSUME TypeOK, OrderInv, UNCHANGED <<busVars, connVars, log>>,
         task' \notin Over => task \notin Over,
         task \in Over \cup {"end"} => task' \in Over \cup {"end"},
         cleaner' = "waiting" => task' = "done"
  PROVE  OrderInv'
<1>1. \A c \in Clients : ClientInOrder(c)'
  BY DEF OrderInv, ClientInOrder, busVars, connVars
<1> QED BY <1>1 DEF OrderInv, busVars, connVars

LEMMA TaskInOrder ==
  ASSUME TypeOK, OrderInv, TaskNext
  PROVE  OrderInv'
<1> USE DEF At, Go, RunOn, InPublish, EnterFinally, Over
<1>1. CASE GraphChunk \/ TokenUsage \/ GraphFails \/ Saved
  BY <1>1, EmitInOrder DEF GraphChunk, TokenUsage, GraphFails, Saved, Kinds
<1>2. CASE PublishEnd
  BY <1>2, EmitInOrder DEF PublishEnd, Kinds
<1>3. CASE StartTask \/ JournalReady \/ NextChunk \/ GraphDone \/ ErrorPublished
           \/ Flushed \/ FinalizerDone \/ CancelInTry \/ CancelInHandler
  <2>1. /\ task \notin Over \cup {"end"} /\ task' \notin Over
        /\ UNCHANGED <<busVars, connVars, log, cleaner>>
    BY <1>3 DEF StartTask, JournalReady, NextChunk, GraphDone, ErrorPublished, Flushed,
                FinalizerDone, CancelInTry, CancelInHandler
  <2>2. cleaner' # "waiting"
    BY <2>1 DEF OrderInv
  <2> QED BY <2>1, <2>2, QuietInOrder
<1>4. CASE TaskReturns
  BY <1>4, QuietInOrder DEF TaskReturns
<1>5. CASE CancelOutsideTry
  <2>1. /\ task \notin Over /\ task' = "done"
        /\ UNCHANGED <<busVars, connVars, log, cleaner>>
    BY <1>5 DEF CancelOutsideTry
  <2> QED BY <2>1, QuietInOrder
<1> QED BY <1>1, <1>2, <1>3, <1>4, <1>5 DEF TaskNext

\* The connection of one client moves; the run and the log do not.
LEMMA OneClientInOrder ==
  ASSUME TypeOK, OrderInv, NEW c \in Clients, ClientInOrder(c)',
         UNCHANGED <<task, cleaner, buffer, counter, log>>,
         \A d \in Clients \ {c} :
            /\ queue'[d] = queue[d] /\ replay'[d] = replay[d] /\ got'[d] = got[d]
            /\ conn'[d] = conn[d]
            /\ d \in subscribers' => d \in subscribers
  PROVE  OrderInv'
<1>1. ASSUME NEW d \in Clients \ {c}
      PROVE  ClientInOrder(d)'
  <2>1. /\ queue'[d] = queue[d] /\ replay'[d] = replay[d] /\ got'[d] = got[d]
        /\ conn'[d] = conn[d]
        /\ d \in subscribers' => d \in subscribers
    OBVIOUS
  <2> QED BY <2>1 DEF OrderInv, ClientInOrder
<1> QED BY <1>1 DEF OrderInv

\* The client takes the head of a sequence that is in order.
LEMMA ReceiveInOrder ==
  ASSUME TypeOK, OrderInv, NEW c \in Clients, NEW s \in Seq(Events), s # <<>>,
         InOrder(s, LastId(got[c]), log), NEW state, Receive(c, Head(s), state),
         UNCHANGED log
  PROVE  /\ Tail(s) \in Seq(Events)
         /\ InOrder(Tail(s), LastId(got'[c]), log')
         /\ InOrder(<<>>, LastId(got'[c]), log')
         /\ \A i \in 1 .. Len(got'[c]) : got'[c][i] < Len(log')
<1>1. got[c] \in Seq(Nat) /\ log \in Seq(Kinds) /\ LastId(got[c]) \in Int
  BY LastIdProperties DEF TypeOK
<1>2. /\ Head(s) \in Events /\ Tail(s) \in Seq(Events)
      /\ Head(s).id < Len(log) /\ InOrder(Tail(s), Head(s).id, log)
  BY <1>1, InOrderTail
<1>3. Head(s).id \in Nat
  BY <1>2 DEF Events
<1>4. got'[c] = Append(got[c], Head(s).id)
  BY DEF Receive, TypeOK
<1>5. LastId(got'[c]) = Head(s).id
  BY <1>1, <1>3, <1>4, LastIdProperties
<1>6. \A i \in 1 .. Len(got'[c]) : got'[c][i] < Len(log)
  BY <1>1, <1>2, <1>3, <1>4, AppendProperties DEF OrderInv, ClientInOrder
<1> QED BY <1>2, <1>5, <1>6, InOrderEmpty

LEMMA ConsumerInOrder ==
  ASSUME TypeOK, OrderInv, NEW c \in Clients, ConsumerNext(c)
  PROVE  OrderInv'
<1>1. /\ queue[c] \in Seq(Events) /\ replay[c] \in Seq(Events) /\ got[c] \in Seq(Nat)
      /\ ClientInOrder(c) /\ LastId(got[c]) \in Int
  BY LastIdProperties DEF TypeOK, BusTypeOK, OrderInv
<1>2. ASSUME GoLive(c), UNCHANGED <<taskVars, replay, log>>, replay[c] = <<>>, queue[c] = <<>>
      PROVE  OrderInv'
  <2>1. ClientInOrder(c)'
    BY <1>1, <1>2 DEF ClientInOrder, GoLive, Subscribe, TypeOK
  <2>2. UNCHANGED <<task, cleaner, buffer, counter, log>>
    BY <1>2 DEF GoLive, Subscribe, taskVars
  <2>3. \A d \in Clients \ {c} :
           /\ queue'[d] = queue[d] /\ replay'[d] = replay[d] /\ got'[d] = got[d]
           /\ conn'[d] = conn[d]
           /\ d \in subscribers' => d \in subscribers
    BY <1>2 DEF GoLive, Subscribe, TypeOK
  <2> QED BY <2>1, <2>2, <2>3, OneClientInOrder
<1>3. ASSUME Snapshot(c)
      PROVE  OrderInv'
  <2> DEFINE events == BufferedAfter(LastId(got[c]))
  <2>1. events \in Seq(Events) /\ InOrder(events, LastId(got[c]), log)
    BY <1>1, InOrderReplay DEF OrderInv, TypeOK, BusTypeOK
  <2>2. conn[c] = "open" /\ replay[c] = <<>> /\ queue[c] = <<>> /\ c \notin subscribers
    BY <1>1, <1>3 DEF Snapshot, ClientInOrder
  <2>3. CASE events = <<>>
    BY <1>2, <1>3, <2>2, <2>3 DEF Snapshot
  <2>4. CASE events # <<>>
    <3> HIDE DEF events
    <3>1. /\ Receive(c, Head(events), "replay")
          /\ replay' = [replay EXCEPT ![c] =
                           IF Head(events).kind = "end" THEN <<>> ELSE Tail(events)]
          /\ UNCHANGED <<busVars, joined>> /\ UNCHANGED <<taskVars, log>>
      BY <1>3, <2>4 DEF Snapshot, events
    <3>2. /\ InOrder(Tail(events), LastId(got'[c]), log')
          /\ InOrder(<<>>, LastId(got'[c]), log')
          /\ \A i \in 1 .. Len(got'[c]) : got'[c][i] < Len(log')
      BY <2>1, <2>4, <3>1, ReceiveInOrder
    <3>3. /\ queue'[c] = <<>> /\ c \notin subscribers'
          /\ conn'[c] = IF Head(events).kind = "end" THEN "ended" ELSE "replay"
          /\ replay'[c] = IF Head(events).kind = "end" THEN <<>> ELSE Tail(events)
      BY <2>2, <3>1 DEF Receive, busVars, TypeOK
    <3>4. ClientInOrder(c)'
      BY <3>2, <3>3 DEF ClientInOrder
    <3>5. UNCHANGED <<task, cleaner, buffer, counter, log>>
      BY <3>1 DEF busVars, taskVars
    <3>6. \A d \in Clients \ {c} :
             /\ queue'[d] = queue[d] /\ replay'[d] = replay[d] /\ got'[d] = got[d]
             /\ conn'[d] = conn[d]
             /\ d \in subscribers' => d \in subscribers
      BY <3>1 DEF Receive, busVars, TypeOK
    <3> QED BY <3>4, <3>5, <3>6, OneClientInOrder
  <2> QED BY <2>3, <2>4
<1>4. ASSUME Replay(c)
      PROVE  OrderInv'
  <2>1. /\ conn[c] = "replay" /\ replay[c] # <<>> /\ queue[c] = <<>> /\ c \notin subscribers
        /\ Receive(c, Head(replay[c]), "replay") /\ UNCHANGED <<busVars, taskVars, log>>
    BY <1>1, <1>4 DEF Replay, ClientInOrder
  <2>2. /\ InOrder(Tail(replay[c]), LastId(got'[c]), log')
        /\ InOrder(<<>>, LastId(got'[c]), log')
        /\ \A i \in 1 .. Len(got'[c]) : got'[c][i] < Len(log')
    BY <1>1, <2>1, ReceiveInOrder DEF ClientInOrder
  <2>3. /\ queue'[c] = <<>> /\ c \notin subscribers'
        /\ conn'[c] = IF Head(replay[c]).kind = "end" THEN "ended" ELSE "replay"
        /\ replay'[c] = IF Head(replay[c]).kind = "end" THEN <<>> ELSE Tail(replay[c])
    BY <1>4, <2>1 DEF Replay, Receive, busVars, TypeOK
  <2>4. ClientInOrder(c)'
    BY <2>2, <2>3 DEF ClientInOrder
  <2>5. UNCHANGED <<task, cleaner, buffer, counter, log>>
    BY <2>1 DEF busVars, taskVars
  <2>6. \A d \in Clients \ {c} :
           /\ queue'[d] = queue[d] /\ replay'[d] = replay[d] /\ got'[d] = got[d]
           /\ conn'[d] = conn[d]
           /\ d \in subscribers' => d \in subscribers
    BY <1>4, <2>1 DEF Replay, Receive, busVars, TypeOK
  <2> QED BY <2>4, <2>5, <2>6, OneClientInOrder
<1>5. ASSUME JoinLive(c)
      PROVE  OrderInv'
  <2>1. replay[c] = <<>> /\ queue[c] = <<>>
    BY <1>1, <1>5 DEF JoinLive, ClientInOrder
  <2> QED BY <1>2, <1>5, <2>1 DEF JoinLive
<1>6. ASSUME Deliver(c)
      PROVE  OrderInv'
  <2> DEFINE final == Head(queue[c]).kind = "end"
  <2>1. /\ conn[c] = "live" /\ queue[c] # <<>> /\ replay[c] = <<>>
        /\ Receive(c, Head(queue[c]), "live") /\ UNCHANGED <<taskVars, replay, log>>
    BY <1>1, <1>6 DEF Deliver, ClientInOrder
  <2>2. /\ InOrder(Tail(queue[c]), LastId(got'[c]), log')
        /\ InOrder(<<>>, LastId(got'[c]), log')
        /\ \A i \in 1 .. Len(got'[c]) : got'[c][i] < Len(log')
    BY <1>1, <2>1, ReceiveInOrder DEF ClientInOrder
  <2>3. /\ conn'[c] = IF final THEN "ended" ELSE "live"
        /\ replay'[c] = <<>>
    BY <2>1 DEF Receive, TypeOK
  <2>4. /\ final => queue'[c] = <<>> /\ c \notin subscribers'
        /\ ~final => queue'[c] = Tail(queue[c])
        /\ UNCHANGED <<buffer, counter>>
        /\ \A d \in Clients \ {c} :
              queue'[d] = queue[d] /\ (d \in subscribers' => d \in subscribers)
    <3>1. CASE final
      BY <1>6, <3>1 DEF Deliver, StopLive, Unsubscribe, TypeOK, BusTypeOK
    <3>2. CASE ~final
      BY <1>6, <3>2 DEF Deliver, Take, TypeOK, BusTypeOK
    <3> QED BY <3>1, <3>2
  <2>5. ClientInOrder(c)'
    BY <2>2, <2>3, <2>4 DEF ClientInOrder
  <2>6. UNCHANGED <<task, cleaner, buffer, counter, log>>
    BY <2>1, <2>4 DEF taskVars
  <2>7. \A d \in Clients \ {c} :
           /\ queue'[d] = queue[d] /\ replay'[d] = replay[d] /\ got'[d] = got[d]
           /\ conn'[d] = conn[d]
           /\ d \in subscribers' => d \in subscribers
    BY <2>1, <2>4 DEF Receive, TypeOK
  <2> QED BY <2>5, <2>6, <2>7, OneClientInOrder
<1>7. ASSUME Expire(c)
      PROVE  OrderInv'
  <2>1. ClientInOrder(c)'
    BY <1>1, <1>7 DEF ClientInOrder, Expire, StopLive, Unsubscribe, TypeOK, BusTypeOK
  <2>2. UNCHANGED <<task, cleaner, buffer, counter, log>>
    BY <1>7 DEF Expire, StopLive, Unsubscribe
  <2>3. \A d \in Clients \ {c} :
           /\ queue'[d] = queue[d] /\ replay'[d] = replay[d] /\ got'[d] = got[d]
           /\ conn'[d] = conn[d]
           /\ d \in subscribers' => d \in subscribers
    BY <1>7 DEF Expire, StopLive, Unsubscribe, TypeOK, BusTypeOK
  <2> QED BY <2>1, <2>2, <2>3, OneClientInOrder
<1> QED BY <1>3, <1>4, <1>5, <1>6, <1>7 DEF ConsumerNext

\* An idle connection is opened, closed or redirected by an endpoint.
LEMMA EndpointInOrder ==
  ASSUME TypeOK, OrderInv, NEW c \in Clients,
         conn[c] \notin Watching, conn'[c] \notin {"live", "replay"},
         got' = got \/ got' = [got EXCEPT ![c] = <<>>],
         \A d \in Clients \ {c} : conn'[d] = conn[d],
         UNCHANGED <<busVars, replay, log, cleaner>>,
         task \in Over => task' \in Over,
         task = "end" => task' = "end",
         cleaner = "waiting" => task' = task,
         task' \notin Over => task \notin Over
  PROVE  OrderInv'
<1>1. /\ queue[c] = <<>> /\ replay[c] = <<>> /\ c \notin subscribers
      /\ got[c] \in Seq(Nat)
  BY DEF OrderInv, ClientInOrder, Watching, TypeOK
<1>2. ClientInOrder(c)'
  <2>1. \A i \in 1 .. Len(got'[c]) : got'[c][i] < Len(log')
    <3>1. CASE got' = got
      BY <3>1 DEF OrderInv, ClientInOrder
    <3>2. CASE got' = [got EXCEPT ![c] = <<>>]
      BY <3>2 DEF TypeOK
    <3> QED BY <3>1, <3>2
  <2>2. queue'[c] = <<>> /\ replay'[c] = <<>> /\ c \notin subscribers'
    BY <1>1 DEF busVars
  <2> QED BY <2>1, <2>2, InOrderEmpty DEF ClientInOrder
<1>3. ASSUME NEW d \in Clients \ {c}
      PROVE  ClientInOrder(d)'
  <2>1. /\ queue'[d] = queue[d] /\ replay'[d] = replay[d] /\ got'[d] = got[d]
        /\ conn'[d] = conn[d] /\ subscribers' = subscribers
    BY DEF busVars, TypeOK
  <2> QED BY <2>1 DEF OrderInv, ClientInOrder
<1> QED BY <1>2, <1>3 DEF OrderInv, busVars

LEMMA OtherInOrder ==
  ASSUME TypeOK, OrderInv,
         \/ CancelRun \/ Cleanup \/ Restart
         \/ \E c \in Clients : \/ StreamRun(c) \/ Launch(c) \/ Reconnect(c)
                              \/ JoinThread(c) \/ Disconnect(c)
  PROVE  OrderInv'
<1>1. CASE CancelRun
  BY <1>1, QuietInOrder DEF CancelRun, OrderInv
<1>2. CASE Cleanup
  <2>1. task = "done" /\ task' = task /\ cleaner' # "waiting"
    BY <1>2 DEF Cleanup, OrderInv
  <2>2. \A c \in Clients : ClientInOrder(c)'
    BY <1>2 DEF Cleanup, DropRun, connVars, OrderInv, ClientInOrder
  <2> QED BY <1>2, <2>1, <2>2, InOrderEmpty DEF Cleanup, DropRun, OrderInv, Over
<1>3. CASE Restart
  <2>1. \A c \in Clients : ClientInOrder(c)'
    BY <1>3, InOrderEmpty DEF Restart, OrderInv, ClientInOrder, Watching, TypeOK
  <2> QED BY <1>3, <2>1, InOrderEmpty DEF Restart, OrderInv, Over
<1>4. ASSUME NEW c \in Clients, StreamRun(c)
      PROVE  OrderInv'
  <2>1. cleaner # "waiting" /\ task = "none" /\ task' \in {"preparing", "created"}
    BY <1>4 DEF StreamRun, OrderInv
  <2>2. /\ conn[c] = "idle" /\ conn'[c] \in {"posting", "open"}
        /\ \A d \in Clients \ {c} : conn'[d] = conn[d]
        /\ UNCHANGED <<busVars, replay, log, cleaner, got>>
    BY <1>4 DEF StreamRun, TypeOK
  <2> QED BY <2>1, <2>2, EndpointInOrder DEF Watching, Over
<1>5. ASSUME NEW c \in Clients, Launch(c)
      PROVE  OrderInv'
  <2>1. cleaner # "waiting" /\ task = "preparing" /\ task' = "created"
    BY <1>5 DEF Launch, OrderInv
  <2>2. /\ conn[c] = "posting" /\ conn'[c] = "open"
        /\ \A d \in Clients \ {c} : conn'[d] = conn[d]
        /\ UNCHANGED <<busVars, replay, log, cleaner, got>>
    BY <1>5 DEF Launch, TypeOK
  <2> QED BY <2>1, <2>2, EndpointInOrder DEF Watching, Over
<1>6. ASSUME NEW c \in Clients, Reconnect(c)
      PROVE  OrderInv'
  <2>1. /\ conn[c] \notin Watching /\ conn'[c] \in {"open", "checkpoint"}
        /\ \A d \in Clients \ {c} : conn'[d] = conn[d]
        /\ got' = got \/ got' = [got EXCEPT ![c] = <<>>]
        /\ UNCHANGED <<busVars, replay, log, cleaner, task>>
    BY <1>6 DEF Reconnect, TypeOK
  <2> QED BY <2>1, EndpointInOrder
<1>7. ASSUME NEW c \in Clients, JoinThread(c)
      PROVE  OrderInv'
  <2>1. /\ conn[c] \notin Watching /\ conn'[c] = "open"
        /\ \A d \in Clients \ {c} : conn'[d] = conn[d]
        /\ got' = [got EXCEPT ![c] = <<>>]
        /\ UNCHANGED <<busVars, replay, log, cleaner, task>>
    BY <1>7 DEF JoinThread, taskVars, TypeOK
  <2> QED BY <2>1, EndpointInOrder
<1>8. ASSUME NEW c \in Clients, Disconnect(c)
      PROVE  OrderInv'
  <2>1. /\ queue'[c] = <<>> /\ replay'[c] = <<>> /\ conn'[c] = "idle"
        /\ c \notin subscribers' /\ got' = got /\ log' = log
    BY <1>8 DEF Disconnect, StopLive, Unsubscribe, TypeOK, BusTypeOK
  <2>2. ClientInOrder(c)'
    BY <2>1, InOrderEmpty DEF OrderInv, ClientInOrder
  <2>3. UNCHANGED <<task, cleaner, buffer, counter, log>>
    BY <1>8 DEF Disconnect, StopLive, Unsubscribe, taskVars
  <2>4. \A d \in Clients \ {c} :
           /\ queue'[d] = queue[d] /\ replay'[d] = replay[d] /\ got'[d] = got[d]
           /\ conn'[d] = conn[d]
           /\ d \in subscribers' => d \in subscribers
    BY <1>8 DEF Disconnect, StopLive, Unsubscribe, TypeOK, BusTypeOK
  <2> QED BY <2>2, <2>3, <2>4, OneClientInOrder
<1> QED BY <1>1, <1>2, <1>3, <1>4, <1>5, <1>6, <1>7, <1>8

\* Replays, queues and the buffer hold events of the run's log in log order,
\* ahead of what their client holds; a connection has one of replay and queue.
THEOREM OrderInvariant == Spec => []OrderInv
<1>1. TypeOK /\ OrderInv /\ [Next]_vars => OrderInv'
  <2> SUFFICES ASSUME TypeOK, OrderInv, [Next]_vars PROVE OrderInv'
    OBVIOUS
  <2>1. CASE Next
    BY <2>1, TaskInOrder, ConsumerInOrder, OtherInOrder DEF Next
  <2>2. CASE UNCHANGED vars
    BY <2>2, QuietInOrder DEF vars, taskVars, OrderInv
  <2> QED BY <2>1, <2>2
<1> QED BY <1>1, InitInOrder, SafelyTyped, PTL DEF Spec

\* A registered queue always has a live connection behind it.
THEOREM NoOrphans == Spec => []NoOrphanQueue
<1>1. TypeOK /\ OrderInv => NoOrphanQueue
  BY DEF TypeOK, BusTypeOK, OrderInv, ClientInOrder, NoOrphanQueue
<1> QED BY <1>1, SafelyTyped, OrderInvariant, PTL

-----------------------------------------------------------------------------
(* RunStream implements OrderedStream. *)

\* The abstract mode of the clients.
Modes == [c \in Clients |-> Mode(c)]

LEMMA ModeOf ==
  ASSUME NEW c \in Clients, TypeOK
  PROVE  /\ conn[c] \in Watching => Mode(c) = "on"
         /\ conn[c] = "ended" => Mode(c) = "ended"
         /\ conn[c] \notin Watching => Mode(c) # "on"
         /\ conn[c] \notin Watching \cup {"ended"} => Mode(c) = "off"
BY DEF Mode, Watching

\* A client on the stream takes the head of a sequence that is in order.
LEMMA ReceiveRefines ==
  ASSUME TypeOK, TypeOK', OrderInv, NEW c \in Clients, NEW s \in Seq(Events), s # <<>>,
         InOrder(s, LastId(got[c]), log), NEW state \in {"replay", "live"},
         conn[c] \in Watching, Receive(c, Head(s), state), UNCHANGED log
  PROVE  Abstract!Receive(c)
<1> DEFINE e == Head(s)
           i == e.id + 1
<1>1. got[c] \in Seq(Nat) /\ log \in Seq(Kinds) /\ LastId(got[c]) \in Int
  BY LastIdProperties DEF TypeOK
<1>2. /\ e \in Events /\ e.id > LastId(got[c]) /\ e.id < Len(log)
      /\ e.kind = log[e.id + 1]
  BY <1>1, InOrderTail
<1>3. e.id \in Nat
  BY <1>2 DEF Events
<1> HIDE DEF e
<1>4. i \in DOMAIN log /\ i = e.id + 1
  BY <1>1, <1>2, <1>3
<1> DEFINE old == got[c]
           new == Append(old, e.id)
<1>5. Abstract!Extends(new, old) /\ Abstract!LastId(new) + 1 = i
  <2>1. /\ old \in Seq(Nat) /\ e.id \in Nat /\ e.id + 1 \in DOMAIN log
        /\ old # <<>> => old[Len(old)] < e.id
    BY <1>1, <1>2, <1>3, <1>4 DEF LastId
  <2> HIDE DEF old
  <2>2. /\ new \in Seq(Nat) /\ Len(new) = Len(old) + 1 /\ new # <<>> /\ new[Len(old) + 1] = e.id
        /\ Len(old) \in Nat /\ \A j \in 1 .. Len(old) : new[j] = old[j]
    BY <2>1
  <2> HIDE DEF new
  <2>3. ASSUME NEW j \in (Len(old) + 1) .. Len(new)
        PROVE  new[j] + 1 \in DOMAIN log /\ (j > 1 => new[j - 1] < new[j])
    <3>1. j = Len(old) + 1
      BY <2>2
    <3>2. CASE old = <<>>
      BY <2>1, <2>2, <3>1, <3>2
    <3>3. CASE old # <<>>
      <4>1. Len(old) \in 1 .. Len(old) /\ j - 1 = Len(old)
        BY <2>1, <3>1, <3>3
      <4>2. new[j - 1] = old[Len(old)]
        BY <2>2, <4>1
      <4> QED BY <2>1, <2>2, <3>1, <3>3, <4>2
    <3> QED BY <3>2, <3>3
  <2>4. Abstract!Extends(new, old)
    BY <2>2, <2>3 DEF Abstract!Extends
  <2>5. Abstract!LastId(new) = e.id
    BY <2>2 DEF Abstract!LastId
  <2> QED BY <1>4, <2>4, <2>5
<1>6. /\ got'[c] = new /\ got' = [got EXCEPT ![c] = new]
  BY DEF Receive, TypeOK, e
<1>7. Mode(c) = "on"
  BY ModeOf
<1>8. ASSUME NEW d \in Clients
      PROVE  Mode(d)' = IF d = c THEN (IF log[i] = "end" THEN "ended" ELSE "on") ELSE Mode(d)
  <2>1. CASE d = c
    <3>1. conn'[c] = IF log[i] = "end" THEN "ended" ELSE state
      BY <1>2 DEF Receive, TypeOK, e
    <3> QED BY <2>1, <3>1 DEF Mode, Watching
  <2>2. CASE d # c
    <3>1. conn'[d] = conn[d]
      BY <2>2 DEF Receive, TypeOK
    <3> QED BY <2>2, <3>1 DEF Mode
  <2> QED BY <2>1, <2>2
<1>9. Modes' = [Modes EXCEPT ![c] = IF log[i] = "end" THEN "ended" ELSE "on"]
  BY <1>8 DEF Modes
<1>10. Modes[c] = "on"
  BY <1>7 DEF Modes
<1> HIDE DEF i, old, new
<1>11. /\ Abstract!Extends(got'[c], got[c]) /\ got' = [got EXCEPT ![c] = got'[c]]
       /\ Abstract!LastId(got'[c]) + 1 = i
  BY <1>5, <1>6 DEF old
<1> QED BY <1>9, <1>10, <1>11 DEF Abstract!Receive, Modes

\* A client opens a stream, with or without a Last-Event-ID.
LEMMA OpenRefines ==
  ASSUME TypeOK, TypeOK', NEW c \in Clients, conn[c] \notin Watching, conn'[c] = "open",
         \A d \in Clients \ {c} : conn'[d] = conn[d],
         got' = got \/ got' = [got EXCEPT ![c] = <<>>], UNCHANGED log
  PROVE  Abstract!Open(c)
<1>1. Modes[c] # "on"
  BY ModeOf DEF Modes
<1>2. Modes' = [Modes EXCEPT ![c] = "on"]
  <2>1. ASSUME NEW d \in Clients
        PROVE  Mode(d)' = IF d = c THEN "on" ELSE Mode(d)
    BY DEF Mode, Watching
  <2> QED BY <2>1 DEF Modes
<1> QED BY <1>1, <1>2 DEF Abstract!Open, Modes

\* Connections end without the end event, or never were on the stream.
LEMMA LeaveRefines ==
  ASSUME TypeOK, NEW cs \in SUBSET Clients,
         \A c \in cs : conn'[c] \notin Watching \cup {"ended"},
         \A d \in Clients \ cs : conn'[d] = conn[d],
         UNCHANGED <<got, log>>
  PROVE  Abstract!Leave(cs)
<1>1. ASSUME NEW c \in Clients
      PROVE  Mode(c)' = IF c \in cs THEN "off" ELSE Mode(c)
  BY DEF Mode, Watching
<1> QED BY <1>1 DEF Abstract!Leave

\* A step that no client can see.
LEMMA StutterRefines ==
  ASSUME \A c \in Clients : Mode(c)' = Mode(c), UNCHANGED <<got, log>>
  PROVE  UNCHANGED Abstract!abstractVars
BY DEF Abstract!abstractVars

LEMMA TaskRefines ==
  ASSUME TypeOK, OrderInv, TaskNext
  PROVE  Abstract!Next \/ UNCHANGED Abstract!abstractVars
<1>1. UNCHANGED connVars
  BY DEF TaskNext, StartTask, JournalReady, GraphChunk, TokenUsage, GraphFails, Saved,
         PublishEnd, NextChunk, GraphDone, ErrorPublished, Flushed, FinalizerDone,
         TaskReturns, CancelInTry, CancelInHandler, CancelOutsideTry
<1>2. \A c \in Clients : Mode(c)' = Mode(c)
  BY <1>1 DEF connVars, Mode
<1>3. UNCHANGED got
  BY <1>1 DEF connVars
<1>4. CASE GraphChunk \/ TokenUsage \/ GraphFails \/ Saved \/ PublishEnd
  <2>1. /\ task \notin Over \cup {"end"}
        /\ \E k \in {"data", "end"} : log' = Append(log, k)
    BY <1>4 DEF GraphChunk, TokenUsage, GraphFails, Saved, PublishEnd, At, Over, Emit
  <2>2. ~Abstract!Closed
    <3>1. SUFFICES ASSUME Abstract!Closed PROVE FALSE
      OBVIOUS
    <3>2. log # <<>> /\ log[Len(log)] = "end" /\ log \in Seq(Kinds)
      BY <3>1 DEF Abstract!Closed, TypeOK
    <3>3. Len(log) \in 1 .. Len(log)
      BY <3>2
    <3> QED BY <2>1, <3>2, <3>3 DEF OrderInv
  <2>3. UNCHANGED Modes
    BY <1>2 DEF Modes
  <2> QED BY <1>3, <2>1, <2>2, <2>3 DEF Abstract!Next, Abstract!Write, Modes
<1>5. CASE ~(GraphChunk \/ TokenUsage \/ GraphFails \/ Saved \/ PublishEnd)
  <2>1. UNCHANGED log
    BY <1>5 DEF TaskNext, StartTask, JournalReady, NextChunk, GraphDone, ErrorPublished,
                Flushed, FinalizerDone, TaskReturns, CancelInTry, CancelInHandler,
                CancelOutsideTry
  <2> QED BY <1>2, <1>3, <2>1, StutterRefines
<1> QED BY <1>4, <1>5

LEMMA ConsumerRefines ==
  ASSUME TypeOK, TypeOK', OrderInv, NEW c \in Clients, ConsumerNext(c)
  PROVE  Abstract!Next \/ UNCHANGED Abstract!abstractVars
<1>1. /\ queue[c] \in Seq(Events) /\ replay[c] \in Seq(Events)
      /\ ClientInOrder(c) /\ LastId(got[c]) \in Int
  BY LastIdProperties DEF TypeOK, BusTypeOK, OrderInv
<1>2. Abstract!Receive(c) => Abstract!Next
  BY DEF Abstract!Next
<1>3. ASSUME GoLive(c), conn[c] \in Watching, UNCHANGED log
      PROVE  UNCHANGED Abstract!abstractVars
  <2>1. \A d \in Clients : Mode(d)' = Mode(d)
    BY <1>3 DEF GoLive, Mode, Watching, TypeOK
  <2> QED BY <1>3, <2>1, StutterRefines DEF GoLive
<1>4. CASE Snapshot(c)
  <2> DEFINE events == BufferedAfter(LastId(got[c]))
  <2>1. events \in Seq(Events) /\ InOrder(events, LastId(got[c]), log)
    BY <1>1, InOrderReplay DEF OrderInv, TypeOK, BusTypeOK
  <2>2. conn[c] \in Watching
    BY <1>4 DEF Snapshot, Watching
  <2>3. CASE events = <<>>
    BY <1>3, <1>4, <2>2, <2>3 DEF Snapshot
  <2>4. CASE events # <<>>
    <3> HIDE DEF events
    <3>1. Receive(c, Head(events), "replay") /\ UNCHANGED log
      BY <1>4, <2>4 DEF Snapshot, events
    <3> QED BY <1>2, <2>1, <2>2, <2>4, <3>1, ReceiveRefines
  <2> QED BY <2>3, <2>4
<1>5. CASE Replay(c)
  <2>1. /\ conn[c] \in Watching /\ replay[c] # <<>>
        /\ Receive(c, Head(replay[c]), "replay") /\ UNCHANGED log
    BY <1>5 DEF Replay, Watching
  <2> QED BY <1>1, <1>2, <2>1, ReceiveRefines DEF ClientInOrder
<1>6. CASE JoinLive(c)
  BY <1>3, <1>6 DEF JoinLive, Watching
<1>7. CASE Deliver(c)
  <2>1. /\ conn[c] \in Watching /\ queue[c] # <<>>
        /\ Receive(c, Head(queue[c]), "live") /\ UNCHANGED log
    BY <1>7 DEF Deliver, Watching
  <2> QED BY <1>1, <1>2, <2>1, ReceiveRefines DEF ClientInOrder
<1>8. CASE Expire(c)
  <2>1. /\ conn'[c] = "expired" /\ UNCHANGED <<got, log>>
        /\ \A d \in Clients \ {c} : conn'[d] = conn[d]
    BY <1>8 DEF Expire, TypeOK
  <2>2. Abstract!Leave({c})
    BY <2>1, LeaveRefines DEF Watching
  <2> QED BY <2>2 DEF Abstract!Next
<1> QED BY <1>4, <1>5, <1>6, <1>7, <1>8 DEF ConsumerNext

LEMMA OtherRefines ==
  ASSUME TypeOK, TypeOK',
         \/ CancelRun \/ Cleanup \/ Restart
         \/ \E c \in Clients : \/ StreamRun(c) \/ Launch(c) \/ Reconnect(c)
                              \/ JoinThread(c) \/ Disconnect(c)
  PROVE  Abstract!Next \/ UNCHANGED Abstract!abstractVars
<1>1. \A c \in Clients : Abstract!Open(c) => Abstract!Next
  BY DEF Abstract!Next
<1>2. \A cs \in SUBSET Clients : Abstract!Leave(cs) => Abstract!Next
  BY DEF Abstract!Next
<1>3. CASE CancelRun \/ Cleanup
  <2>1. UNCHANGED <<conn, got, log>>
    BY <1>3 DEF CancelRun, Cleanup, connVars
  <2>2. \A c \in Clients : Mode(c)' = Mode(c)
    BY <2>1 DEF Mode
  <2> QED BY <2>1, <2>2, StutterRefines
<1>4. CASE Restart
  <2> DEFINE cs == {c \in Clients : conn[c] \in Watching \cup {"posting"}}
  <2>1. /\ \A c \in cs : conn'[c] = "idle"
        /\ \A d \in Clients \ cs : conn'[d] = conn[d]
        /\ UNCHANGED <<got, log>>
    BY <1>4 DEF Restart
  <2>2. Abstract!Leave(cs)
    BY <2>1, LeaveRefines DEF Watching
  <2> QED BY <1>2, <2>2
<1>5. ASSUME NEW c \in Clients, StreamRun(c) \/ Launch(c) \/ JoinThread(c) \/ Reconnect(c)
      PROVE  Abstract!Next \/ UNCHANGED Abstract!abstractVars
  <2>1. /\ conn[c] \notin Watching /\ UNCHANGED log
        /\ \A d \in Clients \ {c} : conn'[d] = conn[d]
        /\ got' = got \/ got' = [got EXCEPT ![c] = <<>>]
        /\ \/ conn'[c] = "open"
           \/ conn'[c] \in {"posting", "checkpoint"} /\ got' = got
    BY <1>5 DEF StreamRun, Launch, JoinThread, Reconnect, Watching, TypeOK
  <2>2. CASE conn'[c] = "open"
    BY <1>1, <2>1, <2>2, OpenRefines
  <2>3. CASE conn'[c] \in {"posting", "checkpoint"} /\ got' = got
    <3>1. Abstract!Leave({c})
      BY <2>1, <2>3, LeaveRefines DEF Watching
    <3> QED BY <1>2, <3>1
  <2> QED BY <2>1, <2>2, <2>3
<1>6. ASSUME NEW c \in Clients, Disconnect(c)
      PROVE  Abstract!Next \/ UNCHANGED Abstract!abstractVars
  <2>1. /\ conn'[c] = "idle" /\ UNCHANGED <<got, log>>
        /\ \A d \in Clients \ {c} : conn'[d] = conn[d]
    BY <1>6 DEF Disconnect, TypeOK
  <2>2. Abstract!Leave({c})
    BY <2>1, LeaveRefines DEF Watching
  <2> QED BY <1>2, <2>2
<1> QED BY <1>3, <1>4, <1>5, <1>6

\* Every run's stream, through any number of connections, cancels, overflows,
\* cleanups and restarts, is an OrderedStream.
THEOREM Refinement == Spec => StreamsAreOrdered
<1>1. Init => Abstract!Init
  BY DEF Init, Abstract!Init, Mode, Watching
<1>2. TypeOK /\ TypeOK' /\ OrderInv /\ [Next]_vars => [Abstract!Next]_(Abstract!abstractVars)
  <2> SUFFICES ASSUME TypeOK, TypeOK', OrderInv, [Next]_vars
               PROVE  Abstract!Next \/ UNCHANGED Abstract!abstractVars
    OBVIOUS
  <2>1. CASE Next
    BY <2>1, TaskRefines, ConsumerRefines, OtherRefines DEF Next
  <2>2. CASE UNCHANGED vars
    <3>1. UNCHANGED <<conn, got, log>>
      BY <2>2 DEF vars, connVars
    <3>2. \A c \in Clients : Mode(c)' = Mode(c)
      BY <3>1 DEF Mode
    <3> QED BY <3>1, <3>2, StutterRefines
  <2> QED BY <2>1, <2>2
<1> QED BY <1>1, <1>2, SafelyTyped, OrderInvariant, PTL DEF Spec, Abstract!Spec, StreamsAreOrdered

-----------------------------------------------------------------------------
(* The status of a run that is over. *)

\* A cancel that is under way has written its status, which nothing but the
\* task's own end writes over; and once the graph is left, the status is final.
StatusInv ==
    /\ cancelled => status = "cancelled" /\ task # "none"
    /\ task \in {"error", "flush", "save", "summary", "finish", "end", "done"} =>
          status \in {"success", "error", "cancelled"}

LEMMA StatusInductive == TypeOK /\ StatusInv /\ [Next]_vars => StatusInv'
<1> SUFFICES ASSUME TypeOK, StatusInv, [Next]_vars PROVE StatusInv'
  OBVIOUS
<1> USE DEF StatusInv, At, Go, RunOn, InPublish, EnterFinally
<1>1. CASE StartTask \/ JournalReady \/ NextChunk
  BY <1>1 DEF StartTask, JournalReady, NextChunk
<1>2. CASE GraphChunk \/ TokenUsage \/ GraphFails \/ Saved \/ PublishEnd
  BY <1>2 DEF GraphChunk, TokenUsage, GraphFails, Saved, PublishEnd
<1>3. CASE GraphDone \/ ErrorPublished
  BY <1>3 DEF GraphDone, ErrorPublished
<1>4. CASE Flushed \/ FinalizerDone \/ TaskReturns
  BY <1>4 DEF Flushed, FinalizerDone, TaskReturns
<1>5. CASE CancelInTry \/ CancelInHandler \/ CancelOutsideTry
  BY <1>5 DEF CancelInTry, CancelInHandler, CancelOutsideTry
<1>6. CASE CancelRun \/ Cleanup \/ Restart
  BY <1>6 DEF CancelRun, Cleanup, Restart
<1>7. CASE \E c \in Clients : StreamRun(c) \/ Launch(c)
  BY <1>7 DEF StreamRun, Launch
<1>8. CASE \E c \in Clients : Reconnect(c) \/ JoinThread(c) \/ Disconnect(c) \/ ConsumerNext(c)
  <2>1. UNCHANGED <<task, cancelled, status>>
    BY <1>8 DEF Reconnect, JoinThread, Disconnect, ConsumerNext, Snapshot, Replay, JoinLive,
                Deliver, Expire, taskVars
  <2> QED BY <2>1
<1>9. CASE UNCHANGED vars
  BY <1>9 DEF vars, taskVars
<1> QED
  BY <1>1, <1>2, <1>3, <1>4, <1>5, <1>6, <1>7, <1>8, <1>9 DEF Next, TaskNext

\* A run whose task is over is listed with a final status, whenever the cancel
\* reached it and whatever failed.
THEOREM StatusesAreFinal == Spec => []DoneIsTerminal
<1>1. Init => StatusInv
  BY DEF Init, StatusInv
<1>2. StatusInv => DoneIsTerminal
  BY DEF StatusInv, DoneIsTerminal
<1> QED BY <1>1, <1>2, StatusInductive, SafelyTyped, PTL DEF Spec

-----------------------------------------------------------------------------
(* The buffer and the queues hold the newest events. *)

\* The ids of s are the last Len(s) before n.
NewestBefore(s, n) == \A i \in DOMAIN s : s[i].id = n - Len(s) + i - 1

\* Dropping from the old end keeps the newest.
LEMMA PushKeepsNewest ==
  ASSUME NEW s \in Seq(Events), NEW n \in Nat, NEW e \in Events, e.id = n,
         NewestBefore(s, n), NEW m \in Nat \ {0}
  PROVE  /\ NewestBefore(KeepLast(Append(s, e), m), n + 1)
         /\ Len(KeepLast(Append(s, e), m)) = IF Len(s) + 1 <= m THEN Len(s) + 1 ELSE m
<1> DEFINE t == Append(s, e)
           r == KeepLast(t, m)
<1>1. /\ t \in Seq(Events) /\ Len(t) = Len(s) + 1 /\ Len(s) \in Nat
      /\ \A i \in 1 .. Len(s) : t[i] = s[i]
      /\ t[Len(s) + 1] = e
  BY AppendProperties
<1>2. \A i \in 1 .. Len(t) : t[i].id = n - Len(s) + i - 1
  BY <1>1 DEF NewestBefore
<1> HIDE DEF t
<1>3. /\ r \in Seq(Events)
      /\ Len(r) = IF Len(t) <= m THEN Len(t) ELSE m
      /\ \A i \in 1 .. Len(r) : r[i] = t[i + Len(t) - Len(r)]
  BY <1>1, KeepLastIsSuffix
<1> HIDE DEF r
<1>4. Len(r) \in Nat /\ Len(r) <= Len(t) /\ DOMAIN r = 1 .. Len(r)
  BY <1>1, <1>3
<1>5. ASSUME NEW i \in 1 .. Len(r)
      PROVE  r[i].id = n + 1 - Len(r) + i - 1
  <2>1. i + Len(t) - Len(r) \in 1 .. Len(t)
    BY <1>1, <1>4
  <2>2. r[i].id = n - Len(s) + (i + Len(t) - Len(r)) - 1
    BY <1>2, <1>3, <2>1
  <2> QED BY <1>1, <1>4, <2>2
<1>6. NewestBefore(r, n + 1)
  BY <1>4, <1>5 DEF NewestBefore
<1>7. Len(r) = IF Len(s) + 1 <= m THEN Len(s) + 1 ELSE m
  BY <1>1, <1>3
<1> QED BY <1>6, <1>7 DEF r, t

\* A queue that gives its oldest event away has the newest still.
LEMMA TailKeepsNewest ==
  ASSUME NEW s \in Seq(Events), s # <<>>, NEW n \in Nat, NewestBefore(s, n)
  PROVE  NewestBefore(Tail(s), n)
<1>1. /\ Len(s) \in Nat \ {0} /\ Len(Tail(s)) = Len(s) - 1
      /\ DOMAIN Tail(s) = 1 .. Len(s) - 1
      /\ \A i \in 1 .. Len(s) - 1 : Tail(s)[i] = s[i + 1]
  BY HeadTailProperties
<1>2. ASSUME NEW i \in 1 .. Len(s) - 1
      PROVE  Tail(s)[i].id = n - (Len(s) - 1) + i - 1
  <2>1. i + 1 \in DOMAIN s
    BY <1>1
  <2>2. s[i + 1].id = n - Len(s) + (i + 1) - 1
    BY <2>1 DEF NewestBefore
  <2> QED BY <1>1, <2>2
<1> QED BY <1>1, <1>2 DEF NewestBefore

BufferIsNewest ==
    /\ Len(buffer) = IF counter < BufferMax THEN counter ELSE BufferMax
    /\ NewestBefore(buffer, counter)

LEMMA LogSuffixIs ==
  LogSuffix <=> BufferIsNewest /\ \A c \in subscribers : NewestBefore(queue[c], counter)
BY DEF LogSuffix, BufferIsNewest, NewestBefore

LEMMA PublishKeepsNewest ==
  ASSUME TypeOK, LogSuffix, NEW k \in Kinds, Publish(k)
  PROVE  LogSuffix'
<1> DEFINE e == NextEvent(k)
<1>1. e \in Events /\ e.id = counter /\ counter' = counter + 1 /\ counter \in Nat
  BY DEF Publish, NextEvent, Events, TypeOK, BusTypeOK
<1>2. buffer \in Seq(Events) /\ BufferIsNewest
  BY LogSuffixIs DEF TypeOK, BusTypeOK
<1> HIDE DEF e
<1>3. BufferIsNewest'
  <2>1. buffer' = KeepLast(Append(buffer, e), BufferMax)
    BY DEF Publish, e
  <2>2. /\ NewestBefore(buffer', counter + 1)
        /\ Len(buffer') = IF Len(buffer) + 1 <= BufferMax THEN Len(buffer) + 1 ELSE BufferMax
    BY <1>1, <1>2, <2>1, PushKeepsNewest, BusAssumption DEF BufferIsNewest
  <2>3. Len(buffer') = IF counter + 1 < BufferMax THEN counter + 1 ELSE BufferMax
    BY <1>1, <1>2, <2>2, BusAssumption DEF BufferIsNewest
  <2> QED BY <1>1, <2>2, <2>3 DEF BufferIsNewest
<1>4. ASSUME NEW c \in subscribers'
      PROVE  NewestBefore(queue'[c], counter')
  <2>1. c \in subscribers /\ c \in Clients /\ queue[c] \in Seq(Events)
    BY DEF Publish, TypeOK, BusTypeOK
  <2>2. queue'[c] = KeepLast(Append(queue[c], e), QueueMax)
    BY <2>1 DEF Publish, Pushed, e
  <2>3. NewestBefore(queue[c], counter)
    BY <2>1, LogSuffixIs
  <2> QED BY <1>1, <2>1, <2>2, <2>3, PushKeepsNewest, BusAssumption
<1>5. LogSuffix' <=> BufferIsNewest' /\ \A c \in subscribers' : NewestBefore(queue'[c], counter')
  BY DEF LogSuffix, BufferIsNewest, NewestBefore
<1> QED BY <1>3, <1>4, <1>5

\* What happens to a queue when nothing is published: it stays, it is emptied, or
\* its oldest event is taken.
QueuesShrink ==
    \A c \in subscribers' :
       \/ c \in subscribers /\ queue'[c] = queue[c]
       \/ queue'[c] = <<>>
       \/ c \in subscribers /\ queue[c] # <<>> /\ queue'[c] = Tail(queue[c])

\* Subscriptions come and go, and a subscriber takes from its queue.
LEMMA QueuesKeepNewest ==
  ASSUME TypeOK, LogSuffix, UNCHANGED <<buffer, counter>>, QueuesShrink
  PROVE  LogSuffix'
<1> USE DEF QueuesShrink
<1>1. ASSUME NEW c \in subscribers'
      PROVE  NewestBefore(queue'[c], counter)
  <2>1. CASE queue'[c] = <<>>
    BY <2>1 DEF NewestBefore
  <2>2. CASE c \in subscribers /\ queue'[c] = queue[c]
    BY <2>2, LogSuffixIs
  <2>3. CASE c \in subscribers /\ queue[c] # <<>> /\ queue'[c] = Tail(queue[c])
    <3>1. queue[c] \in Seq(Events) /\ counter \in Nat /\ NewestBefore(queue[c], counter)
      BY <2>3, LogSuffixIs DEF TypeOK, BusTypeOK
    <3> QED BY <2>3, <3>1, TailKeepsNewest
  <2> QED BY <2>1, <2>2, <2>3
<1>2. BufferIsNewest
  BY LogSuffixIs
<1> QED BY <1>1, <1>2 DEF LogSuffix, BufferIsNewest, NewestBefore

LEMMA SuffixInductive == TypeOK /\ OrderInv /\ LogSuffix /\ [Next]_vars => LogSuffix'
<1> SUFFICES ASSUME TypeOK, OrderInv, LogSuffix, [Next]_vars PROVE LogSuffix'
  OBVIOUS
<1>1. CASE GraphChunk \/ TokenUsage \/ GraphFails \/ Saved \/ PublishEnd
  BY <1>1, PublishKeepsNewest DEF GraphChunk, TokenUsage, GraphFails, Saved, PublishEnd, Emit, Kinds
<1>2. CASE UNCHANGED busVars
  <2>1. UNCHANGED <<buffer, counter>> /\ QueuesShrink
    BY <1>2 DEF busVars, QueuesShrink
  <2> QED BY <2>1, QueuesKeepNewest
<1>3. CASE Cleanup \/ Restart
  <2>1. buffer' = <<>> /\ counter' = 0 /\ subscribers' = {}
    BY <1>3 DEF Cleanup, Restart, DropRun
  <2> QED BY <2>1, BusAssumption DEF LogSuffix
<1>4. ASSUME NEW c \in Clients, GoLive(c), queue[c] = <<>>
      PROVE  LogSuffix'
  <2>1. UNCHANGED <<buffer, counter>> /\ QueuesShrink
    BY <1>4 DEF GoLive, Subscribe, QueuesShrink
  <2> QED BY <2>1, QueuesKeepNewest
<1>5. ASSUME NEW c \in Clients, StopLive(c)
      PROVE  LogSuffix'
  <2>1. UNCHANGED <<buffer, counter>> /\ QueuesShrink
    BY <1>5 DEF StopLive, Unsubscribe, TypeOK, BusTypeOK, QueuesShrink
  <2> QED BY <2>1, QueuesKeepNewest
<1>6. ASSUME NEW c \in Clients, Take(c)
      PROVE  LogSuffix'
  <2>1. UNCHANGED <<buffer, counter>> /\ QueuesShrink
    BY <1>6 DEF Take, TypeOK, BusTypeOK, QueuesShrink
  <2> QED BY <2>1, QueuesKeepNewest
<1>7. ASSUME NEW c \in Clients, ConsumerNext(c)
      PROVE  LogSuffix'
  <2>1. conn[c] # "live" => queue[c] = <<>>
    BY DEF OrderInv, ClientInOrder
  <2> QED
    BY <1>2, <1>4, <1>5, <1>6, <1>7, <2>1
    DEF ConsumerNext, Snapshot, Replay, JoinLive, Deliver, Expire
<1>8. CASE \E c \in Clients : Disconnect(c)
  BY <1>5, <1>8 DEF Disconnect
<1>9. CASE UNCHANGED vars
  BY <1>2, <1>9 DEF vars
<1> QED
  BY <1>1, <1>2, <1>3, <1>7, <1>8, <1>9
  DEF Next, TaskNext, StartTask, JournalReady, NextChunk, GraphDone, ErrorPublished, Flushed,
      FinalizerDone, TaskReturns, CancelInTry, CancelInHandler, CancelOutsideTry, CancelRun,
      StreamRun, Launch, Reconnect, JoinThread

\* Whatever the buffer and a queue drop is dropped from the old end: they hold
\* the newest events without a hole (EventBus.publish).
THEOREM BufferAndQueuesAreNewest == Spec => []LogSuffix
<1>1. Init => LogSuffix
  BY BusAssumption DEF Init, BusInit, LogSuffix
<1> QED BY <1>1, SuffixInductive, SafelyTyped, OrderInvariant, PTL DEF Spec

-----------------------------------------------------------------------------
(* What a live connection is still owed. *)

\* Before the task is created nobody watches; while it goes on it is registered.
Early ==
    /\ task \in NotYet => buffer = <<>> /\ ~handle /\ \A c \in Clients : conn[c] \notin Watching
    /\ task \notin NotYet \cup Over => handle

\* How many events are no longer, or never were, in the queue of c.
Before(c) == Len(log) - Len(queue[c])

\* A live connection has in its queue the end of the log, from where it subscribed or from
\* where its client stands unless the queue is full, and the end event until it is received.
LiveInv(c) ==
    conn[c] = "live" =>
        /\ task \notin Over => c \in subscribers
        /\ NewestBefore(queue[c], Len(log))
        /\ joined[c] <= Before(c)
        /\ Len(queue[c]) < QueueMax => joined[c] = Before(c) \/ Before(c) - 1 <= LastId(got[c])
        /\ Abstract!Closed /\ queue[c] = <<>> => joined[c] = Len(log)

LiveConnections == \A c \in Clients : LiveInv(c)

\* What a live connection has is untouched.
LEMMA LiveUntouched ==
  ASSUME NEW c \in Clients, LiveInv(c), conn'[c] = "live" => conn[c] = "live",
         conn'[c] = "live" =>
            /\ task' \notin Over => task \notin Over /\ (c \in subscribers => c \in subscribers')
            /\ queue'[c] = queue[c] /\ got'[c] = got[c] /\ joined'[c] = joined[c],
         log' = log
  PROVE  LiveInv(c)'
BY DEF LiveInv, Before, NewestBefore, Abstract!Closed

\* Every live connection gets what is published.
LEMMA EmitReachesLive ==
  ASSUME TypeOK, OrderInv, LiveConnections, NEW k \in Kinds, Emit(k),
         task \notin Over, task' \notin Over, UNCHANGED connVars
  PROVE  LiveConnections'
<1> SUFFICES ASSUME NEW c \in Clients, conn'[c] = "live" PROVE LiveInv(c)'
  BY DEF LiveConnections, LiveInv
<1> DEFINE q == queue[c]
           e == NextEvent(k)
           r == KeepLast(Append(q, e), QueueMax)
           n == Len(log)
           g == LastId(got[c])
           j == joined[c]
<1>1. /\ conn[c] = "live" /\ c \in subscribers /\ got'[c] = got[c] /\ joined'[c] = joined[c]
      /\ NewestBefore(q, n) /\ j <= n - Len(q)
      /\ Len(q) < QueueMax => j = n - Len(q) \/ n - Len(q) - 1 <= g
  BY DEF LiveConnections, LiveInv, Before, connVars
<1>2. q \in Seq(Events) /\ Len(q) \in Nat /\ Len(q) <= QueueMax /\ n \in Nat /\ QueueMax \in Nat \ {0} /\ log \in Seq(Kinds)
      /\ g \in Int /\ j \in Nat
  BY BusAssumption, LastIdProperties DEF TypeOK, BusTypeOK
<1>3. e \in Events /\ e.id = n
  BY <1>2 DEF NextEvent, Events, OrderInv
<1>4. subscribers' = subscribers /\ queue'[c] = r /\ log' = Append(log, k)
  BY <1>1 DEF Emit, Publish, Pushed, TypeOK, BusTypeOK
<1>5. NewestBefore(r, n + 1) /\ Len(r) = IF Len(q) + 1 <= QueueMax THEN Len(q) + 1 ELSE QueueMax
  <2> HIDE DEF q, e, n
  <2> QED BY <1>1, <1>2, <1>3, PushKeepsNewest
<1>6. Len(log') = n + 1
  BY <1>2, <1>4, AppendProperties
<1> DEFINE l == Len(q)
           m == Len(r)
<1>7. /\ l \in Nat /\ n \in Nat /\ QueueMax \in Nat \ {0} /\ l <= QueueMax /\ g \in Int /\ j \in Nat
      /\ m = (IF l + 1 <= QueueMax THEN l + 1 ELSE QueueMax)
      /\ j <= n - l /\ (l < QueueMax => j = n - l \/ n - l - 1 <= g)
  BY <1>1, <1>2, <1>5
<1> HIDE DEF q, e, r, n, g, j, l, m
<1>8. /\ j <= n + 1 - m /\ (m < QueueMax => j = n + 1 - m \/ n + 1 - m - 1 <= g)
      /\ m # 0
  BY <1>7
<1>9. queue'[c] # <<>>
  BY <1>4, <1>8 DEF m
<1>10. /\ Len(queue'[c]) = m /\ LastId(got'[c]) = g /\ joined'[c] = j
  BY <1>1, <1>4 DEF m, g, j
<1>12. Before(c)' = n + 1 - m
  <2>1. n \in Int /\ m \in Int
    BY <1>7
  <2>2. Len(log') - Len(queue'[c]) = n + 1 - m
    BY <1>6, <1>10, <2>1
  <2> QED BY <2>2 DEF Before
<1>11. NewestBefore(queue'[c], Len(log'))
  BY <1>4, <1>5, <1>6
<1>13. /\ joined'[c] <= Before(c)'
       /\ Len(queue'[c]) < QueueMax => joined'[c] = Before(c)' \/ Before(c)' - 1 <= LastId(got'[c])
  <2> DEFINE b == n + 1 - m
  <2>1. Before(c)' = b
    BY <1>12
  <2>2. j <= b /\ (m < QueueMax => j = b \/ b - 1 <= g)
    BY <1>7, <1>8
  <2> HIDE DEF b
  <2> QED BY <1>10, <2>1, <2>2
<1>14. c \in subscribers'
  BY <1>1, <1>4
<1> QED BY <1>9, <1>11, <1>13, <1>14 DEF LiveInv

\* The task goes on without an event.
LEMMA QuietLive ==
  ASSUME LiveConnections, UNCHANGED <<queue, conn, got, joined, log>>,
         task' \notin Over => task \notin Over /\ subscribers' = subscribers
  PROVE  LiveConnections'
BY LiveUntouched DEF LiveConnections

\* A connection subscribes.
LEMMA GoLiveLive ==
  ASSUME TypeOK, OrderInv, NEW c \in Clients, conn[c] # "live", GoLive(c), log' = log
  PROVE  LiveInv(c)'
<1>1. queue[c] = <<>> /\ Len(log) \in Nat
  BY DEF OrderInv, ClientInOrder, TypeOK
<1>2. queue'[c] = <<>> /\ joined'[c] = Len(log) /\ c \in subscribers'
  BY <1>1 DEF GoLive, Subscribe, TypeOK, BusTypeOK
<1>3. Before(c)' = Len(log) /\ Len(log') = Len(log)
  BY <1>1, <1>2 DEF Before
<1>4. NewestBefore(queue'[c], Len(log'))
  BY <1>2 DEF NewestBefore
<1>5. joined'[c] <= Before(c)'
  BY <1>1, <1>2, <1>3
<1> QED BY <1>2, <1>3, <1>4, <1>5 DEF LiveInv

\* The first event of a queue: it lies right behind what is before the queue.
LEMMA HeadOfQueue ==
  ASSUME TypeOK, OrderInv, NEW c \in Clients, LiveInv(c), conn[c] = "live", queue[c] # <<>>
  PROVE  /\ Head(queue[c]).id = Before(c) /\ Before(c) \in Nat
         /\ Head(queue[c]) = queue[c][1] /\ Len(queue[c]) \in Nat \ {0} /\ Len(log) \in Nat
         /\ Head(queue[c]).kind = log[Before(c) + 1]
<1>1. queue[c] \in Seq(Events) /\ Len(queue[c]) \in Nat \ {0} /\ Len(log) \in Nat /\ Head(queue[c]) = queue[c][1]
      /\ 1 \in DOMAIN queue[c]
  BY HeadTailProperties DEF TypeOK, BusTypeOK
<1>2. queue[c][1].id = Len(log) - Len(queue[c]) + 1 - 1
  BY <1>1 DEF LiveInv, NewestBefore
<1>3. queue[c][1].id \in Nat /\ queue[c][1].kind = log[queue[c][1].id + 1]
  <2>1. queue[c][1] \in Events
    BY <1>1, ElementOfSeq
  <2>2. InOrder(queue[c], LastId(got[c]), log)
    BY DEF OrderInv, ClientInOrder
  <2> QED BY <1>1, <2>1, <2>2 DEF Events, InOrder
<1>4. Before(c) = queue[c][1].id
  BY <1>1, <1>2 DEF Before
<1> QED BY <1>1, <1>3, <1>4

\* A client takes the first event of its queue.
LEMMA DeliverLive ==
  ASSUME TypeOK, OrderInv, NEW c \in Clients, LiveInv(c), Deliver(c)
  PROVE  /\ LastId(got'[c]) = Before(c) /\ LiveInv(c)'
<1> DEFINE e == Head(queue[c])
           q == queue[c]
           g == got'[c]
<1>1. /\ conn[c] = "live" /\ q # <<>> /\ Receive(c, e, "live") /\ log' = log /\ UNCHANGED taskVars
  BY DEF Deliver
<1>2. e.id = Before(c) /\ Before(c) \in Nat /\ Len(q) \in Nat \ {0} /\ Len(log) \in Nat /\ e.kind = log[Before(c) + 1]
  BY <1>1, HeadOfQueue
<1>3. q \in Seq(Events) /\ got[c] \in Seq(Nat) /\ Len(q) <= QueueMax /\ QueueMax \in Nat
  BY BusAssumption DEF TypeOK, BusTypeOK
<1>4. g = Append(got[c], e.id) /\ conn'[c] = IF e.kind = "end" THEN "ended" ELSE "live"
  BY <1>1 DEF Receive, TypeOK
<1>5. LastId(g) = Before(c)
  BY <1>2, <1>3, <1>4, LastIdProperties
<1>6. CASE e.kind = "end"
  BY <1>4, <1>5, <1>6 DEF LiveInv
<1>7. CASE e.kind # "end"
  <2>1. queue'[c] = Tail(q) /\ subscribers' = subscribers /\ joined'[c] = joined[c]
    BY <1>7 DEF Deliver, Take, TypeOK, BusTypeOK
  <2>2. Len(Tail(q)) = Len(q) - 1
    BY <1>1, <1>3, HeadTailProperties
  <2>3. NewestBefore(Tail(q), Len(log))
    BY <1>1, <1>2, <1>3, TailKeepsNewest DEF LiveInv
  <2> DEFINE n == Len(log)
             l == Len(q)
             j == joined[c]
  <2>4. j \in Nat /\ n \in Nat /\ l \in Nat \ {0} /\ j <= n - l /\ l <= QueueMax /\ QueueMax \in Nat
    BY <1>1, <1>2, <1>3 DEF LiveInv, Before, TypeOK
  <2>5. Before(c)' = n - (l - 1) /\ Before(c) = n - l /\ Len(queue'[c]) = l - 1
    BY <1>1, <2>1, <2>2 DEF Before
  <2>6. Abstract!Closed => l # 1
    <3> SUFFICES ASSUME Abstract!Closed, l = 1 PROVE FALSE
      OBVIOUS
    <3>1. Before(c) + 1 = Len(log)
      BY <1>2, <2>5
    <3>2. log[Len(log)] = "end"
      BY DEF Abstract!Closed
    <3> QED BY <1>2, <1>7, <3>1, <3>2
  <2>7. Tail(q) = <<>> => l = 1
    <3> SUFFICES ASSUME Tail(q) = <<>> PROVE l = 1
      OBVIOUS
    <3>1. Len(Tail(q)) = 0
      BY <1>1, <1>3, EmptySeq
    <3> QED BY <2>2, <2>4, <3>1
  <2> HIDE DEF n, l, j, g, q, e
  <2>8. j <= n - (l - 1) /\ n - (l - 1) - 1 <= n - l
    BY <2>4
  <2>9. Before(c)' - 1 <= LastId(got'[c]) /\ joined'[c] <= Before(c)'
    BY <1>5, <2>1, <2>5, <2>8 DEF g, j
  <2>10. NewestBefore(queue'[c], Len(log'))
    BY <1>1, <2>1, <2>3
  <2>11. ~(Abstract!Closed' /\ queue'[c] = <<>>)
    BY <1>1, <2>1, <2>6, <2>7 DEF Abstract!Closed
  <2>12. task' \notin Over => c \in subscribers'
    BY <1>1, <2>1 DEF LiveInv, taskVars
  <2> QED BY <1>5, <2>9, <2>10, <2>11, <2>12 DEF LiveInv, g
<1> QED BY <1>5, <1>6, <1>7

LEMMA LiveInductive == TypeOK /\ OrderInv /\ LiveConnections /\ [Next]_vars => LiveConnections'
<1> SUFFICES ASSUME TypeOK, OrderInv, LiveConnections, [Next]_vars PROVE LiveConnections'
  OBVIOUS
<1> USE DEF Over
<1>1. CASE GraphChunk \/ TokenUsage \/ GraphFails \/ Saved \/ PublishEnd
  BY <1>1, EmitReachesLive
  DEF GraphChunk, TokenUsage, GraphFails, Saved, PublishEnd, At, InPublish, Kinds
<1>2. CASE \/ StartTask \/ JournalReady \/ NextChunk \/ GraphDone \/ ErrorPublished \/ Flushed
           \/ FinalizerDone \/ TaskReturns \/ CancelInTry \/ CancelInHandler \/ CancelOutsideTry
  <2>1. UNCHANGED <<queue, conn, got, joined, log, subscribers>> /\ task \notin Over
    BY <1>2
    DEF StartTask, JournalReady, NextChunk, GraphDone, ErrorPublished, Flushed, FinalizerDone,
        TaskReturns, CancelInTry, CancelInHandler, CancelOutsideTry, At, busVars, connVars
  <2> QED BY <2>1, QuietLive
<1>3. CASE CancelRun \/ UNCHANGED vars
  <2>1. UNCHANGED <<queue, conn, got, joined, log, subscribers, task>>
    BY <1>3 DEF CancelRun, vars, busVars, taskVars, connVars
  <2> QED BY <2>1, QuietLive
<1>4. CASE Cleanup
  <2>1. UNCHANGED <<queue, conn, got, joined, log>> /\ task' = "done"
    BY <1>4 DEF Cleanup, DropRun, connVars, OrderInv
  <2> QED BY <2>1, QuietLive
<1>5. CASE Restart
  BY <1>5 DEF Restart, LiveConnections, LiveInv, Watching
<1>6. ASSUME NEW c \in Clients, StreamRun(c) \/ Launch(c) \/ Reconnect(c) \/ JoinThread(c)
      PROVE  LiveConnections'
  <2>1. /\ UNCHANGED <<queue, subscribers, joined, log>>
        /\ task' \notin Over => task \notin Over
        /\ conn'[c] # "live"
        /\ \A d \in Clients \ {c} : conn'[d] = conn[d] /\ got'[d] = got[d]
    <3>1. CASE StreamRun(c)
      BY <3>1 DEF StreamRun, busVars, TypeOK
    <3>2. CASE Launch(c)
      BY <3>2 DEF Launch, busVars, TypeOK
    <3>3. CASE Reconnect(c)
      BY <3>3 DEF Reconnect, busVars, TypeOK
    <3>4. CASE JoinThread(c)
      BY <3>4 DEF JoinThread, busVars, taskVars, TypeOK
    <3> QED BY <1>6, <3>1, <3>2, <3>3, <3>4
  <2>2. ASSUME NEW d \in Clients \ {c} PROVE LiveInv(d)'
    <3>1. LiveInv(d) /\ conn'[d] = conn[d] /\ queue'[d] = queue[d] /\ got'[d] = got[d] /\ joined'[d] = joined[d]
      BY <2>1 DEF LiveConnections
    <3> QED BY <2>1, <3>1, LiveUntouched
  <2>3. LiveInv(c)'
    BY <2>1 DEF LiveInv
  <2> QED BY <2>2, <2>3 DEF LiveConnections
<1>7. ASSUME NEW c \in Clients, ConsumerNext(c) \/ Disconnect(c)
      PROVE  LiveConnections'
  <2>1. /\ log' = log /\ task' = task
        /\ \A d \in Clients \ {c} :
              /\ conn'[d] = conn[d] /\ got'[d] = got[d] /\ joined'[d] = joined[d] /\ queue'[d] = queue[d]
              /\ d \in subscribers => d \in subscribers'
    <3> USE DEF taskVars, busVars, TypeOK, BusTypeOK, Receive, GoLive, Subscribe, StopLive, Unsubscribe, Take
    <3>1. CASE Snapshot(c)
      BY <3>1 DEF Snapshot
    <3>2. CASE Replay(c)
      BY <3>2 DEF Replay
    <3>3. CASE JoinLive(c)
      BY <3>3 DEF JoinLive
    <3>4. CASE Deliver(c)
      BY <3>4 DEF Deliver
    <3>5. CASE Expire(c)
      BY <3>5 DEF Expire
    <3>6. CASE Disconnect(c)
      BY <3>6 DEF Disconnect
    <3> QED BY <1>7, <3>1, <3>2, <3>3, <3>4, <3>5, <3>6 DEF ConsumerNext
  <2>2. ASSUME NEW d \in Clients \ {c} PROVE LiveInv(d)'
    BY <2>1, LiveUntouched DEF LiveConnections
  <2>3. LiveInv(c)'
    <3>1. CASE Deliver(c)
      BY <3>1, DeliverLive DEF LiveConnections
    <3>2. CASE Expire(c) \/ Disconnect(c)
      BY <3>2 DEF Expire, Disconnect, LiveInv, TypeOK
    <3>3. CASE JoinLive(c)
      BY <2>1, <3>3, GoLiveLive DEF JoinLive
    <3>4. CASE Snapshot(c)
      <4>1. CASE GoLive(c)
        BY <2>1, <3>4, <4>1, GoLiveLive DEF Snapshot
      <4>2. CASE ~GoLive(c)
        <5>1. conn'[c] # "live"
          BY <3>4, <4>2 DEF Snapshot, Receive, TypeOK
        <5> QED BY <5>1 DEF LiveInv
      <4> QED BY <4>1, <4>2
    <3>5. CASE Replay(c)
      <4>1. conn'[c] # "live"
        BY <3>5 DEF Replay, Receive, TypeOK
      <4> QED BY <4>1 DEF LiveInv
    <3> QED BY <1>7, <3>1, <3>2, <3>3, <3>4, <3>5 DEF ConsumerNext
  <2> QED BY <2>2, <2>3 DEF LiveConnections
<1> QED BY <1>1, <1>2, <1>3, <1>4, <1>5, <1>6, <1>7 DEF Next, TaskNext

LEMMA EarlyInductive == TypeOK /\ Early /\ [Next]_vars => Early'
<1> SUFFICES ASSUME TypeOK, Early, [Next]_vars PROVE Early'
  OBVIOUS
<1> USE DEF Early, NotYet, Over
<1>1. CASE GraphChunk \/ TokenUsage \/ GraphFails \/ Saved \/ PublishEnd
  BY <1>1 DEF GraphChunk, TokenUsage, GraphFails, Saved, PublishEnd, At, InPublish
<1>2. CASE \/ StartTask \/ JournalReady \/ NextChunk \/ GraphDone \/ ErrorPublished \/ Flushed
           \/ FinalizerDone \/ TaskReturns \/ CancelInTry \/ CancelInHandler \/ CancelOutsideTry
  BY <1>2
  DEF StartTask, JournalReady, NextChunk, GraphDone, ErrorPublished, Flushed, FinalizerDone,
      TaskReturns, CancelInTry, CancelInHandler, CancelOutsideTry, At, Go, RunOn, EnterFinally
<1>3. CASE CancelRun \/ UNCHANGED vars
  BY <1>3 DEF CancelRun, vars, busVars, taskVars, connVars
<1>4. CASE Cleanup
  BY <1>4 DEF Cleanup, DropRun, connVars
<1>5. CASE Restart
  BY <1>5 DEF Restart
<1>6. ASSUME NEW c \in Clients, StreamRun(c) \/ Launch(c) \/ Reconnect(c) \/ JoinThread(c)
      PROVE  Early'
  <2>1. CASE StreamRun(c)
    BY <2>1 DEF StreamRun, busVars, TypeOK, Watching
  <2>2. CASE Launch(c)
    BY <2>2 DEF Launch, busVars
  <2>3. CASE Reconnect(c)
    BY <2>3 DEF Reconnect, IsRunning, busVars, TypeOK, Watching
  <2>4. CASE JoinThread(c)
    BY <2>4 DEF JoinThread, IsRunning, busVars, taskVars
  <2> QED BY <1>6, <2>1, <2>2, <2>3, <2>4
<1>7. ASSUME NEW c \in Clients, ConsumerNext(c) \/ Disconnect(c)
      PROVE  Early'
  <2>1. conn[c] \in Watching /\ task' = task
    BY <1>7
    DEF ConsumerNext, Snapshot, Replay, JoinLive, Deliver, Expire, Disconnect, taskVars, Watching
  <2>2. task \notin NotYet
    BY <2>1
  <2>3. handle' = handle \/ (~IsRunning /\ ~handle')
    BY <1>7 DEF ConsumerNext, Snapshot, Replay, JoinLive, Deliver, Expire, Disconnect, taskVars
  <2> QED BY <2>1, <2>2, <2>3 DEF IsRunning
<1> QED BY <1>1, <1>2, <1>3, <1>4, <1>5, <1>6, <1>7 DEF Next, TaskNext

LEMMA LiveInitially == Init => Early /\ LiveConnections
BY DEF Init, BusInit, Early, LiveConnections, LiveInv, NotYet, Over, Watching

\* What a live client receives is the first event of its queue.
LEMMA LiveReceives ==
  ASSUME TypeOK, OrderInv, LiveConnections, [Next]_vars, NEW c \in Clients, conn[c] = "live", got'[c] # got[c]
  PROVE  queue[c] # <<>> /\ LastId(got'[c]) = Before(c)
<1>1. CASE Deliver(c)
  BY <1>1, DeliverLive DEF Deliver, LiveConnections
<1>2. CASE got' = got
  BY <1>2
<1>3. ASSUME NEW d \in Clients, ConsumerNext(d) \/ Reconnect(d) \/ JoinThread(d), ~Deliver(c)
      PROVE  got'[c] = got[c]
  <2>1. CASE d # c
    BY <1>3, <2>1
    DEF ConsumerNext, Snapshot, Replay, JoinLive, Deliver, Expire, Reconnect, JoinThread, GoLive, Receive, TypeOK
  <2>2. CASE d = c
    BY <1>3, <2>2
    DEF ConsumerNext, Snapshot, Replay, JoinLive, Expire, Reconnect, JoinThread, Watching
  <2> QED BY <2>1, <2>2
<1>4. CASE \/ TaskNext \/ CancelRun \/ Cleanup \/ Restart \/ UNCHANGED vars
           \/ \E d \in Clients : StreamRun(d) \/ Launch(d) \/ Disconnect(d)
  <2>1. TaskNext => got' = got
    BY DEF TaskNext, StartTask, JournalReady, GraphChunk, TokenUsage, GraphFails, Saved,
           PublishEnd, NextChunk, GraphDone, ErrorPublished, Flushed, FinalizerDone,
           TaskReturns, CancelInTry, CancelInHandler, CancelOutsideTry, connVars
  <2>2. got' = got
    BY <1>4, <2>1 DEF CancelRun, Cleanup, Restart, StreamRun, Launch, Disconnect, vars, connVars
  <2> QED BY <2>2
<1> QED BY <1>1, <1>3, <1>4 DEF Next

\* A subscribed connection misses an event published since only when its queue is full
\* (runs.py: _sse_consumer, event_bus.py: publish).
THEOREM OnlyOverflowMakesHoles == Spec => HolesOnlyByOverflow
<1> DEFINE NoOtherHoles == \A c \in Clients :
          conn[c] = "live" /\ got'[c] # got[c]
          => \A i \in joined[c] + 1 .. Len(log) :
                LastId(got[c]) < i - 1 /\ i - 1 < LastId(got'[c])
                => Len(queue[c]) = QueueMax
<1>1. TypeOK /\ OrderInv /\ LiveConnections /\ [Next]_vars => [NoOtherHoles]_vars
  <2> SUFFICES ASSUME TypeOK, OrderInv, LiveConnections, [Next]_vars, NEW c \in Clients, conn[c] = "live",
                      got'[c] # got[c], NEW i \in joined[c] + 1 .. Len(log),
                      LastId(got[c]) < i - 1, i - 1 < LastId(got'[c]), Len(queue[c]) # QueueMax
               PROVE  FALSE
    OBVIOUS
  <2>1. LastId(got'[c]) = Before(c)
    BY LiveReceives
  <2>2. /\ joined[c] <= Before(c)
        /\ Len(queue[c]) < QueueMax => joined[c] = Before(c) \/ Before(c) - 1 <= LastId(got[c])
    BY DEF LiveConnections, LiveInv
  <2>3. Len(queue[c]) \in Nat /\ Len(queue[c]) <= QueueMax /\ QueueMax \in Nat /\ joined[c] \in Nat /\ Len(log) \in Nat
        /\ LastId(got[c]) \in Int
    BY BusAssumption, LastIdProperties DEF TypeOK, BusTypeOK
  <2>4. Before(c) \in Int
    BY <2>3 DEF Before
  <2>5. i - 1 \in Int /\ joined[c] <= i - 1
    BY <2>3
  <2> QED BY <2>1, <2>2, <2>3, <2>4, <2>5
<1> QED BY <1>1, LiveInitially, LiveInductive, SafelyTyped, OrderInvariant, PTL DEF Spec, HolesOnlyByOverflow

\* The timeout drops no client of a run that goes on, and none that is owed the end event.
THEOREM TimeoutsWaitForTheEnd == Spec => ExpiresOnlyAfterRun
<1> DEFINE InTime == \A c \in Clients :
          conn[c] = "live" /\ conn'[c] = "expired"
          => /\ task \in Over
             /\ Abstract!Closed => joined[c] = Len(log)
<1>1. TypeOK /\ Early /\ LiveConnections /\ [Next]_vars => [InTime]_vars
  <2> SUFFICES ASSUME TypeOK, Early, LiveConnections, [Next]_vars, NEW c \in Clients,
                      conn[c] = "live", conn'[c] = "expired"
               PROVE  task \in Over /\ (Abstract!Closed => joined[c] = Len(log))
    OBVIOUS
  <2>1. Expire(c)
    <3>1. ASSUME NEW d \in Clients, ConsumerNext(d) \/ Disconnect(d), d # c PROVE conn'[c] = conn[c]
      BY <3>1
      DEF ConsumerNext, Snapshot, Replay, JoinLive, Deliver, Expire, Disconnect, GoLive, Receive, TypeOK
    <3>2. ASSUME ConsumerNext(c) \/ Disconnect(c), ~Expire(c) PROVE conn'[c] # "expired"
      BY <3>2
      DEF ConsumerNext, Snapshot, Replay, JoinLive, Deliver, Disconnect, GoLive, Receive, TypeOK
    <3>3. ASSUME NEW d \in Clients, StreamRun(d) \/ Launch(d) \/ Reconnect(d) \/ JoinThread(d)
          PROVE  conn'[c] # "expired"
      BY <3>3 DEF StreamRun, Launch, Reconnect, JoinThread, TypeOK
    <3>4. TaskNext => conn' = conn
      BY DEF TaskNext, StartTask, JournalReady, GraphChunk, TokenUsage, GraphFails, Saved,
             PublishEnd, NextChunk, GraphDone, ErrorPublished, Flushed, FinalizerDone,
             TaskReturns, CancelInTry, CancelInHandler, CancelOutsideTry, connVars
    <3>5. CancelRun \/ Cleanup \/ UNCHANGED vars => conn' = conn
      BY DEF CancelRun, Cleanup, vars, connVars
    <3>6. Restart => conn'[c] # "expired"
      BY DEF Restart, Watching
    <3> QED BY <3>1, <3>2, <3>3, <3>4, <3>5, <3>6 DEF Next
  <2>2. task \notin NotYet
    BY DEF Early, Watching
  <2>3. task \in Over
    BY <2>1, <2>2 DEF Expire, IsRunning, Early, Over
  <2> QED BY <2>1, <2>3 DEF Expire, LiveConnections, LiveInv
<1>2. TypeOK /\ OrderInv /\ Early /\ LiveConnections /\ [Next]_vars => Early' /\ LiveConnections'
  BY EarlyInductive, LiveInductive
<1> QED BY <1>1, <1>2, LiveInitially, SafelyTyped, OrderInvariant, PTL DEF Spec, ExpiresOnlyAfterRun
=============================================================================

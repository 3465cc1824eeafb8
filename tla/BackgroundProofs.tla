-------------------------- MODULE BackgroundProofs --------------------------
(***************************************************************************)
(* What goes on behind the turns: the journal of a run, the queue of       *)
(* memory updates and the sandbox containers, for any number of events,    *)
(* conversations, processes, threads and containers, and any thresholds.   *)
(* At the end, the components of MCBackground, together.                   *)
(***************************************************************************)
EXTENDS MCBackground, SharedProofs, Lemmas

-----------------------------------------------------------------------------
(***************************************************************************)
(* The journal. The invariant says where events can be: Steps relates the  *)
(* swap of the buffer, the flush task and the finally block, so that no    *)
(* batch is overwritten; EventsApart says that an event is in one place,   *)
(* and in a place and in a row only if a put_batch failed after its        *)
(* commit.                                                                 *)
(***************************************************************************)

Steps ==
    /\ swap = "no" => seen = 0
    /\ swap = "take" => finish = "running" /\ inFlight = <<>>
    /\ swap = "return" => finish \in {"running", "gather", "put"}
    /\ swap = "cut" => finish = "look" /\ seen <= FlushThreshold
    /\ seen <= Len(buffered)
    /\ finish \notin {"running", "gather"} => inFlight = <<>>
    /\ finish # "put" => batch = <<>>

EventsApart ==
    /\ Distinct(buffered) /\ Distinct(inFlight) /\ Distinct(batch)
    /\ ToSet(buffered) \cap ToSet(inFlight) = {}
    /\ ToSet(buffered) \cap ToSet(batch) = {}
    /\ Held \subseteq 1 .. emitted /\ stored \subseteq 1 .. emitted
    /\ Held \cap stored \subseteq mishap["late"]

DueIsStored == 1 .. due \subseteq stored \cup Gone

Counting ==
    /\ IsFiniteSet(counted) /\ IsFiniteSet(reported) /\ IsFiniteSet(answered)
    /\ tokens = Cardinality(counted) + Cardinality(reported)
    /\ tokens = buckets["lead_agent"] + buckets["subagent"] + buckets["middleware"]
    /\ messages = Cardinality(answered)

JournalInv == JournalTypeOK /\ Steps /\ EventsApart /\ EventsAccounted /\ DueIsStored /\ Counting
-----------------------------------------------------------------------------
(* Batches, as sets of events. *)

\* The events of an empty batch.
LEMMA NoEvents == ToSet(<<>>) = {} /\ Distinct(<<>>) /\ <<>> \in Batches /\ Len(<<>>) = 0
  BY DEF ToSet, Distinct, Batches

\* What an append adds.
LEMMA Appending ==
  ASSUME NEW s \in Batches, NEW e \in 1 .. MaxEvents, Distinct(s), e \notin ToSet(s)
  PROVE  /\ Append(s, e) \in Batches /\ Len(Append(s, e)) = Len(s) + 1
         /\ ToSet(Append(s, e)) = ToSet(s) \cup {e}
         /\ Distinct(Append(s, e))
<1> DEFINE t == Append(s, e)
<1>1. /\ t \in Seq(1 .. MaxEvents) /\ Len(t) = Len(s) + 1
      /\ \A i \in 1 .. Len(s) : t[i] = s[i]
      /\ t[Len(s) + 1] = e /\ Len(s) \in Nat
  BY DEF Batches
<1>2. DOMAIN t = 1 .. (Len(s) + 1) /\ DOMAIN s = 1 .. Len(s)
  BY <1>1 DEF Batches
<1> HIDE DEF t
<1>3. ToSet(t) = ToSet(s) \cup {e}
  BY <1>1, <1>2 DEF ToSet
<1>4. Distinct(t)
  BY <1>1, <1>2 DEF ToSet, Distinct
<1> QED
  BY <1>1, <1>3, <1>4 DEF t, Batches

\* What putting one batch before another makes of them.
LEMMA Joining ==
  ASSUME NEW s \in Batches, NEW t \in Batches, Distinct(s), Distinct(t),
         ToSet(s) \cap ToSet(t) = {}
  PROVE  /\ s \o t \in Batches
         /\ ToSet(s \o t) = ToSet(s) \cup ToSet(t)
         /\ Distinct(s \o t)
<1> DEFINE u == s \o t  m == Len(s)  n == Len(t)
<1>1. /\ u \in Seq(1 .. MaxEvents) /\ Len(u) = m + n /\ m \in Nat /\ n \in Nat
      /\ \A i \in 1 .. m : u[i] = s[i]
      /\ \A i \in (m + 1) .. (m + n) : u[i] = t[i - m]
  BY DEF Batches
<1>2. DOMAIN u = 1 .. (m + n) /\ DOMAIN s = 1 .. m /\ DOMAIN t = 1 .. n
  BY <1>1 DEF Batches
<1>3. \A k \in 1 .. n : u[m + k] = t[k] /\ m + k \in 1 .. (m + n)
  BY <1>1
<1>4. \A i \in 1 .. (m + n) : i \in 1 .. m \/ i - m \in 1 .. n
  BY <1>1
<1> HIDE DEF u, m, n
<1>5. ToSet(u) = ToSet(s) \cup ToSet(t)
  <2>1. ASSUME NEW x \in ToSet(u) PROVE x \in ToSet(s) \cup ToSet(t)
    BY <1>1, <1>2, <1>4 DEF ToSet
  <2>2. ASSUME NEW x \in ToSet(s) PROVE x \in ToSet(u)
    BY <1>1, <1>2 DEF ToSet
  <2>3. ASSUME NEW x \in ToSet(t) PROVE x \in ToSet(u)
    BY <1>2, <1>3 DEF ToSet
  <2> QED BY <2>1, <2>2, <2>3
<1>6. ASSUME NEW i \in 1 .. (m + n), NEW j \in 1 .. (m + n), u[i] = u[j] PROVE i = j
  <2>1. CASE i <= m /\ j <= m
    BY SMTT(30), <2>1, <1>1, <1>2, <1>6 DEF Distinct
  <2>2. CASE i > m /\ j > m
    <3>1. i - m \in 1 .. n /\ j - m \in 1 .. n /\ t[i - m] = t[j - m]
      BY <2>2, <1>1, <1>6
    <3> QED BY <3>1, <1>2, <1>1 DEF Distinct
  <2>3. CASE i <= m /\ j > m
    <3>1. s[i] \in ToSet(s) /\ t[j - m] \in ToSet(t) /\ s[i] = t[j - m]
      BY <2>3, <1>1, <1>2, <1>6 DEF ToSet
    <3> QED BY <3>1
  <2>4. CASE i > m /\ j <= m
    <3>1. s[j] \in ToSet(s) /\ t[i - m] \in ToSet(t) /\ s[j] = t[i - m]
      BY <2>4, <1>1, <1>2, <1>6 DEF ToSet
    <3> QED BY <3>1
  <2> QED BY <1>1, <2>1, <2>2, <2>3, <2>4
<1> QED
  BY <1>1, <1>2, <1>5, <1>6 DEF u, Distinct, Batches

LineTo(u, n) == SubSeq(u, 1, n)
LineFrom(u, n) == SubSeq(u, n + 1, Len(u))

\* Equal at every place.
LEMMA SameBatch ==
  ASSUME NEW s \in Batches, NEW t \in Batches, Len(s) = Len(t), \A i \in 1 .. Len(s) : s[i] = t[i]
  PROVE  s = t
BY SeqEqual DEF Batches

\* The pieces of a line that is one batch before another.
LEMMA InLine ==
  ASSUME NEW h \in Batches, NEW b \in Batches
  PROVE  /\ h \o b \in Batches /\ Len(h \o b) = Len(h) + Len(b)
         /\ Len(h) \in Nat /\ Len(b) \in Nat
         /\ \A i \in 1 .. Len(h) : (h \o b)[i] = h[i]
         /\ \A i \in 1 .. Len(b) : (h \o b)[Len(h) + i] = b[i]
<1>1. h \in Seq(1 .. MaxEvents) /\ b \in Seq(1 .. MaxEvents)
  BY DEF Batches
<1> DEFINE u == h \o b  m == Len(h)  k == Len(b)
<1>2. /\ u \in Seq(1 .. MaxEvents) /\ Len(u) = m + k /\ m \in Nat /\ k \in Nat
      /\ \A i \in 1 .. m + k : u[i] = IF i <= m THEN h[i] ELSE b[i - m]
  BY <1>1, ConcatProperties, LenProperties
<1> HIDE DEF u, m, k
<1>3. ASSUME NEW i \in 1 .. m PROVE u[i] = h[i]
  BY <1>2
<1>4. ASSUME NEW i \in 1 .. k PROVE u[m + i] = b[i]
  <2>1. m + i \in 1 .. m + k /\ m + i > m /\ (m + i) - m = i
    BY <1>2
  <2> QED BY <1>2, <2>1
<1> QED
  BY <1>2, <1>3, <1>4 DEF u, m, k, Batches

\* The two pieces of a batch that is cut.
LEMMA PiecesOf ==
  ASSUME NEW s \in Batches, NEW n \in 0 .. Len(s)
  PROVE  /\ LineTo(s, n) \in Batches /\ Len(LineTo(s, n)) = n
         /\ \A i \in 1 .. n : LineTo(s, n)[i] = s[i]
         /\ LineFrom(s, n) \in Batches /\ Len(LineFrom(s, n)) = Len(s) - n
         /\ \A i \in 1 .. Len(s) - n : LineFrom(s, n)[i] = s[n + i]
<1> DEFINE m == Len(s)  a == LineTo(s, n)  b == LineFrom(s, n)
<1>1. s \in Seq(1 .. MaxEvents) /\ m \in Nat /\ n \in 0 .. m
  BY DEF Batches
<1>2. ASSUME NEW i \in Int, 1 <= i, i <= m PROVE s[i] \in 1 .. MaxEvents
  <2>1. i \in 1 .. Len(s)
    BY <1>1, <1>2
  <2> QED BY <1>1, <2>1, ElementOfSeq
<1>3. a \in Seq(1 .. MaxEvents) /\ Len(a) = n /\ \A i \in 1 .. n : a[i] = s[i]
  <2>1. 1 \in Int /\ n \in Int /\ \A i \in 1 .. n : s[i] \in 1 .. MaxEvents
    <3> HIDE DEF m
    <3> QED BY <1>1, <1>2
  <2>2. /\ a \in Seq(1 .. MaxEvents)
        /\ Len(a) = IF 1 <= n THEN n - 1 + 1 ELSE 0
        /\ \A i \in 1 .. (n - 1 + 1) : a[i] = s[1 + i - 1]
    BY <1>1, <2>1, SubSeqProperties DEF LineTo
  <2> HIDE DEF a, m
  <2> QED BY <1>1, <2>2
<1>4. /\ b \in Seq(1 .. MaxEvents) /\ Len(b) = m - n
      /\ \A i \in 1 .. (m - n) : b[i] = s[n + i]
  <2>1. n + 1 \in Int /\ m \in Int /\ \A i \in (n + 1) .. m : s[i] \in 1 .. MaxEvents
    <3> HIDE DEF m
    <3> QED BY <1>1, <1>2
  <2>2. /\ b \in Seq(1 .. MaxEvents)
        /\ Len(b) = IF n + 1 <= m THEN m - (n + 1) + 1 ELSE 0
        /\ \A i \in 1 .. (m - (n + 1) + 1) : b[i] = s[(n + 1) + i - 1]
    BY <1>1, <2>1, SubSeqProperties DEF LineFrom
  <2> HIDE DEF b, m
  <2> QED BY <1>1, <2>2
<1> QED
  BY <1>3, <1>4 DEF a, b, m, Batches

\* Together they are the batch.
LEMMA CutLine ==
  ASSUME NEW s \in Batches, NEW n \in 0 .. Len(s)
  PROVE  LineTo(s, n) \o LineFrom(s, n) = s
<1> DEFINE l == Len(s)  a == LineTo(s, n)  c == LineFrom(s, n)  w == a \o c
<1>1. l \in Nat /\ n \in 0 .. l
  BY DEF Batches
<1>2. /\ a \in Batches /\ Len(a) = n /\ \A i \in 1 .. n : a[i] = s[i]
      /\ c \in Batches /\ Len(c) = l - n /\ \A i \in 1 .. l - n : c[i] = s[n + i]
  BY PiecesOf
<1>3. /\ w \in Batches /\ Len(w) = Len(a) + Len(c)
      /\ \A i \in 1 .. Len(a) : w[i] = a[i]
      /\ \A i \in 1 .. Len(c) : w[Len(a) + i] = c[i]
  BY <1>2, InLine
<1> HIDE DEF l, a, c, w
<1>4. Len(w) = l
  BY <1>1, <1>2, <1>3
<1>5. ASSUME NEW i \in 1 .. l PROVE w[i] = s[i]
  <2>1. CASE i <= n
    <3>1. i \in 1 .. n
      BY <1>1, <2>1
    <3> QED BY <3>1, <1>2, <1>3
  <2>2. CASE i > n
    <3>1. i - n \in 1 .. l - n /\ n + (i - n) = i
      BY <1>1, <2>2
    <3> QED BY <3>1, <1>2, <1>3
  <2> QED BY <2>1, <2>2, <1>1
<1>6. w = s
  BY <1>3, <1>4, <1>5, SameBatch DEF l
<1> QED
  BY <1>6 DEF a, c, w

\* The head of a line, and what is left without it.
LEMMA HeadOfLine ==
  ASSUME NEW h \in Batches, NEW b \in Batches, NEW u, u = h \o b
  PROVE  LineTo(u, Len(h)) = h /\ LineFrom(u, Len(h)) = b /\ Len(h) \in 0 .. Len(u)
<1> DEFINE m == Len(h)  k == Len(b)  a == LineTo(u, m)  v == LineFrom(u, m)
<1>1. /\ u \in Batches /\ Len(u) = m + k /\ m \in Nat /\ k \in Nat
      /\ \A i \in 1 .. m : u[i] = h[i]
      /\ \A i \in 1 .. k : u[m + i] = b[i]
  BY InLine
<1>2. m \in 0 .. Len(u) /\ Len(u) - m = k
  <2> HIDE DEF m, k
  <2> QED BY <1>1
<1>3. /\ a \in Batches /\ Len(a) = m /\ \A i \in 1 .. m : a[i] = u[i]
      /\ v \in Batches /\ Len(v) = Len(u) - m /\ \A i \in 1 .. Len(u) - m : v[i] = u[m + i]
  <2> HIDE DEF m, k
  <2> QED BY <1>1, <1>2, PiecesOf
<1> HIDE DEF a, v
<1>4. a = h /\ v = b
  BY <1>1, <1>2, <1>3, SameBatch
<1> QED
  BY <1>2, <1>4 DEF a, v

\* An event at the end of the second batch is at the end of the line.
LEMMA PutInLine ==
  ASSUME NEW h \in Batches, NEW b \in Batches, NEW e \in 1 .. MaxEvents
  PROVE  h \o Append(b, e) = Append(h \o b, e)
<1>1. h \in Seq(1 .. MaxEvents) /\ b \in Seq(1 .. MaxEvents)
  BY DEF Batches
<1> QED
  BY <1>1

\* What cutting a batch in two makes of it.
LEMMA Cutting ==
  ASSUME NEW s \in Batches, NEW n \in 0 .. Len(s), Distinct(s)
  PROVE  LET a == SubSeq(s, 1, n)  b == SubSeq(s, n + 1, Len(s)) IN
         /\ a \in Batches /\ b \in Batches /\ Len(a) = n
         /\ ToSet(a) \cup ToSet(b) = ToSet(s) /\ ToSet(a) \cap ToSet(b) = {}
         /\ Distinct(a) /\ Distinct(b)
<1> DEFINE a == SubSeq(s, 1, n)  b == SubSeq(s, n + 1, Len(s))  m == Len(s)
<1>1. /\ a \in Seq(1 .. MaxEvents) /\ b \in Seq(1 .. MaxEvents)
      /\ Len(a) = n /\ Len(b) = m - n /\ m \in Nat /\ n \in 0 .. m
      /\ \A i \in 1 .. n : a[i] = s[i]
      /\ \A i \in 1 .. (m - n) : b[i] = s[n + i]
  <2>1. m \in Nat /\ n \in 0 .. m
    BY DEF Batches
  <2>2. a = LineTo(s, n) /\ b = LineFrom(s, n)
    BY DEF LineTo, LineFrom
  <2> HIDE DEF a, b
  <2> QED BY <2>1, <2>2, PiecesOf DEF Batches
<1>2. DOMAIN a = 1 .. n /\ DOMAIN b = 1 .. (m - n) /\ DOMAIN s = 1 .. m
  BY <1>1 DEF Batches
<1> HIDE DEF a, b, m
<1>3. ASSUME NEW x \in ToSet(s) PROVE x \in ToSet(a) \cup ToSet(b)
  <2>1. PICK i \in 1 .. m : x = s[i]
    BY <1>2, <1>3 DEF ToSet
  <2>2. CASE i <= n
    <3>1. i \in 1 .. n /\ a[i] = x
      BY <2>1, <2>2, <1>1
    <3> QED BY <3>1, <1>2 DEF ToSet
  <2>3. CASE i > n
    <3>1. i - n \in 1 .. (m - n) /\ b[i - n] = x
      BY <2>1, <2>3, <1>1
    <3> QED BY <3>1, <1>2 DEF ToSet
  <2> QED BY <2>2, <2>3, <1>1
<1>4. ASSUME NEW x \in ToSet(a) PROVE x \in ToSet(s) /\ x \notin ToSet(b)
  <2>1. PICK i \in 1 .. n : x = s[i]
    BY <1>1, <1>2, <1>4 DEF ToSet
  <2>2. i \in 1 .. m
    BY <1>1
  <2>3. ASSUME NEW j \in 1 .. (m - n) PROVE b[j] # x
    <3>1. n + j \in 1 .. m /\ n + j # i
      BY <1>1
    <3> QED BY <3>1, <2>1, <2>2, <1>1, <1>2 DEF Distinct
  <2> QED BY <2>1, <2>2, <2>3, <1>2 DEF ToSet
<1>5. ASSUME NEW x \in ToSet(b) PROVE x \in ToSet(s)
  <2>1. PICK j \in 1 .. (m - n) : x = s[n + j]
    BY <1>1, <1>2, <1>5 DEF ToSet
  <2>2. n + j \in 1 .. m
    BY <1>1
  <2> QED BY <2>1, <2>2, <1>2 DEF ToSet
<1>6. Distinct(a)
  <2>1. \A i \in 1 .. n : i \in 1 .. m
    BY <1>1
  <2> QED BY <2>1, <1>1, <1>2 DEF Distinct
<1>7. Distinct(b)
  <2>1. SUFFICES ASSUME NEW i \in 1 .. (m - n), NEW j \in 1 .. (m - n), b[i] = b[j]
                 PROVE  i = j
    BY <1>2 DEF Distinct
  <2>2. n + i \in 1 .. m /\ n + j \in 1 .. m /\ s[n + i] = s[n + j]
    BY <1>1, <2>1
  <2>3. n + i = n + j
    BY <2>2, <1>2 DEF Distinct
  <2> QED BY <2>3, <1>1
<1> QED
  BY <1>1, <1>3, <1>4, <1>5, <1>6, <1>7 DEF a, b, m, Batches
-----------------------------------------------------------------------------
(* The steps. *)

\* A journal starts empty.
LEMMA JournalInitially == JournalInit => JournalInv
<1> SUFFICES ASSUME JournalInit PROVE JournalInv
  OBVIOUS
<1>1. JournalTypeOK
  <2>1. emitted \in 0 .. MaxEvents /\ due \in 0 .. MaxEvents /\ seen \in Nat
    BY JournalAssumption DEF JournalInit
  <2>2. /\ buffered \in Batches /\ inFlight \in Batches
        /\ batch \in Batches /\ Len(batch) <= FlushThreshold
    BY NoEvents, JournalAssumption DEF JournalInit
  <2> QED BY <2>1, <2>2 DEF JournalInit, JournalTypeOK
<1>2. Steps /\ DueIsStored
  BY NoEvents DEF JournalInit, Steps, DueIsStored
<1>3. EventsApart /\ EventsAccounted
  BY NoEvents DEF JournalInit, EventsApart, EventsAccounted, Held, Mishaps
<1>4. Counting
  BY FS_EmptySet DEF JournalInit, Counting, Callers
<1> QED
  BY <1>1, <1>2, <1>3, <1>4 DEF JournalInv

\* Where the journal puts events does not touch what it counts, nor the other way
\* round.
Places == JournalTypeOK /\ Steps /\ EventsApart /\ EventsAccounted /\ DueIsStored

placeVars == <<bufferVars, finishVars, saved>>
CountTypes ==
    /\ counted \in SUBSET LlmRuns /\ reported \in SUBSET LlmRuns
    /\ answered \in SUBSET LlmRuns
    /\ buckets \in [Callers -> Nat]
    /\ tokens \in Nat /\ messages \in Nat

\* An event that a callback puts is new, and waits in the buffer.
LEMMA PutKeeps ==
  ASSUME JournalInv, CountTypes',
         \/ PutInThread
         \/ \E always \in BOOLEAN : PutOnLoop(always)
  PROVE  Places'
<1> DEFINE e == emitted + 1
           Swapped == \/ UNCHANGED <<swap, seen>>
                      \/ /\ swap = "no" /\ swap' = "take" /\ seen' = Len(buffered) + 1
                         /\ finish = "running" /\ inFlight = <<>>
<1>1. /\ emitted' = e /\ buffered' = Append(buffered, e) /\ e \in 1 .. MaxEvents
      /\ UNCHANGED <<inFlight, storeVars, mishap, finishVars, saved>>
      /\ Swapped
  <2>1. emitted \in 0 .. MaxEvents /\ MaxEvents \in Nat
    BY JournalAssumption DEF JournalInv, JournalTypeOK
  <2>2. PutEvent => /\ emitted' = e /\ buffered' = Append(buffered, e)
                    /\ e \in 1 .. MaxEvents
    BY <2>1 DEF PutEvent
  <2>3. CASE PutInThread
    BY <2>2, <2>3 DEF PutInThread
  <2>4. ASSUME NEW always \in BOOLEAN, PutOnLoop(always)
        PROVE  /\ PutEvent /\ Swapped
               /\ UNCHANGED <<inFlight, storeVars, mishap, finishVars, saved>>
    BY <2>4 DEF PutOnLoop, MayFlush
  <2> QED BY <2>2, <2>3, <2>4
<1>2. e \notin Held \cup stored /\ e \notin ToSet(buffered)
  BY DEF JournalInv, EventsApart, JournalTypeOK, Held
<1>3. /\ buffered' \in Batches /\ Len(buffered') = Len(buffered) + 1
      /\ ToSet(buffered') = ToSet(buffered) \cup {e} /\ Distinct(buffered')
  BY <1>1, <1>2, Appending DEF JournalInv, EventsApart, JournalTypeOK
<1>4. Len(buffered) \in Nat
  BY DEF JournalInv, JournalTypeOK, Batches
<1>5. JournalTypeOK'
  BY <1>1, <1>3, <1>4 DEF JournalInv, JournalTypeOK, CountTypes, storeVars, finishVars
<1>6. Steps'
  BY <1>1, <1>3, <1>4 DEF JournalInv, Steps, JournalTypeOK, finishVars
<1>7. Held' = Held \cup {e}
  BY <1>1, <1>3 DEF Held, finishVars
<1>8. EventsApart'
  <2>1. /\ Distinct(inFlight') /\ Distinct(batch')
        /\ ToSet(buffered') \cap ToSet(inFlight') = {}
        /\ ToSet(buffered') \cap ToSet(batch') = {}
    BY <1>1, <1>2, <1>3 DEF JournalInv, EventsApart, Held, finishVars
  <2>2. /\ Held' \subseteq 1 .. emitted' /\ stored' \subseteq 1 .. emitted'
    BY <1>1, <1>7 DEF JournalInv, EventsApart, storeVars, JournalTypeOK
  <2>3. Held' \cap stored' \subseteq mishap'["late"]
    BY <1>1, <1>2, <1>7 DEF JournalInv, EventsApart, storeVars
  <2> QED BY <1>3, <2>1, <2>2, <2>3 DEF EventsApart
<1>9. EventsAccounted'
  <2>1. 1 .. emitted' = (1 .. emitted) \cup {e}
    BY <1>1 DEF JournalInv, JournalTypeOK
  <2> QED BY <1>1, <1>7, <2>1 DEF JournalInv, EventsAccounted, Gone, storeVars
<1>10. DueIsStored'
  BY <1>1 DEF JournalInv, DueIsStored, Gone, storeVars, finishVars
<1> QED
  BY <1>5, <1>6, <1>8, <1>9, <1>10 DEF Places

\* The flush task gets what was copied; what came in since is lost.
LEMMA ClearBufferKeeps ==
  ASSUME JournalInv, ClearBuffer
  PROVE  Places'
<1>1. /\ swap = "take" /\ swap' = "no" /\ seen' = 0
      /\ inFlight = <<>> /\ inFlight' = Copied /\ buffered' = <<>>
      /\ mishap' = [mishap EXCEPT !["raced"] = @ \cup Raced]
      /\ finish = "running" /\ batch = <<>>
      /\ UNCHANGED <<emitted, stored, doubled, finish, batch, due, tokenVars, saved>>
  BY DEF ClearBuffer, JournalInv, Steps, storeVars, finishVars
<1>2. /\ Copied \in Batches /\ Distinct(Copied)
      /\ ToSet(Copied) \cup Raced = ToSet(buffered)
  <2>1. seen \in 0 .. Len(buffered)
    BY DEF JournalInv, Steps, JournalTypeOK, Batches
  <2> QED BY <2>1, Cutting DEF Copied, Raced, JournalInv, JournalTypeOK, EventsApart
<1>3. /\ mishap' \in [Mishaps -> SUBSET (1 .. MaxEvents)]
      /\ Gone' = Gone \cup Raced /\ mishap'["late"] = mishap["late"]
  <2>1. Raced \subseteq 1 .. emitted /\ emitted \in 0 .. MaxEvents /\ MaxEvents \in Nat
    BY <1>2, JournalAssumption DEF JournalInv, EventsApart, Held, JournalTypeOK
  <2>2. Raced \subseteq 1 .. MaxEvents
    BY <2>1
  <2> QED BY <1>1, <2>2 DEF JournalInv, JournalTypeOK, Mishaps, Gone
<1>4. Held' = ToSet(Copied) /\ Held = ToSet(buffered)
  BY <1>1, NoEvents DEF Held
<1>5. JournalTypeOK'
  BY <1>1, <1>2, <1>3, NoEvents DEF JournalInv, JournalTypeOK, tokenVars
<1>6. Steps'
  BY <1>1, NoEvents DEF JournalInv, Steps
<1>7. EventsApart'
  BY <1>1, <1>2, <1>3, <1>4, NoEvents DEF JournalInv, EventsApart
<1>8. EventsAccounted' /\ DueIsStored'
  BY <1>1, <1>2, <1>3, <1>4 DEF JournalInv, EventsAccounted, DueIsStored
<1> QED
  BY <1>5, <1>6, <1>7, <1>8 DEF Places

\* A batch that failed goes back in front of what the second operation copied.
LEMMA ReturnBatchKeeps ==
  ASSUME JournalInv, ReturnBatch
  PROVE  Places'
<1> DEFINE onTask == finish \in {"running", "gather"}
           back == IF onTask THEN inFlight ELSE batch
<1>1. /\ swap = "return" /\ swap' = "no" /\ seen' = 0
      /\ buffered' = back \o Copied
      /\ inFlight' = <<>> /\ batch' = <<>>
      /\ Held = ToSet(buffered) \cup ToSet(back)
      /\ mishap' = [mishap EXCEPT !["raced"] = @ \cup Raced]
      /\ finish' \in {finish, "over"} /\ (finish' # "over" => onTask /\ finish' = finish)
      /\ UNCHANGED <<emitted, stored, doubled, due, tokenVars, saved>>
  <2>1. CASE onTask
    <3>1. batch = <<>>
      BY <2>1 DEF JournalInv, Steps
    <3> QED BY <2>1, <3>1, NoEvents DEF ReturnBatch, PutBack, Held, storeVars
  <2>2. CASE ~onTask
    <3>1. inFlight = <<>>
      BY <2>2 DEF JournalInv, Steps
    <3> QED BY <2>2, <3>1, NoEvents DEF ReturnBatch, PutBack, Held, storeVars
  <2> QED BY <2>1, <2>2
<1>2. /\ Copied \in Batches /\ Distinct(Copied)
      /\ ToSet(Copied) \cup Raced = ToSet(buffered)
  <2>1. seen \in 0 .. Len(buffered)
    BY DEF JournalInv, Steps, JournalTypeOK, Batches
  <2> QED BY <2>1, Cutting DEF Copied, Raced, JournalInv, JournalTypeOK, EventsApart
<1>3. /\ mishap' \in [Mishaps -> SUBSET (1 .. MaxEvents)]
      /\ Gone' = Gone \cup Raced /\ mishap'["late"] = mishap["late"]
  <2>1. Raced \subseteq 1 .. emitted /\ emitted \in 0 .. MaxEvents /\ MaxEvents \in Nat
    BY <1>2, JournalAssumption DEF JournalInv, EventsApart, Held, JournalTypeOK
  <2>2. Raced \subseteq 1 .. MaxEvents
    BY <2>1
  <2> QED BY <1>1, <2>2 DEF JournalInv, JournalTypeOK, Mishaps, Gone
<1>4. /\ buffered' \in Batches /\ Distinct(buffered')
      /\ ToSet(buffered') = ToSet(back) \cup ToSet(Copied)
  <2>1. back \in Batches /\ Distinct(back) /\ ToSet(back) \cap ToSet(buffered) = {}
    BY DEF JournalInv, EventsApart, JournalTypeOK
  <2>2. ToSet(back) \cap ToSet(Copied) = {}
    BY <2>1, <1>2
  <2> HIDE DEF back
  <2> QED BY <1>1, <1>2, <2>1, <2>2, Joining
<1> HIDE DEF back
<1>5. Held' = ToSet(back) \cup ToSet(Copied)
  BY <1>1, <1>4, NoEvents DEF Held
<1>6. JournalTypeOK'
  BY <1>1, <1>3, <1>4, NoEvents, JournalAssumption DEF JournalInv, JournalTypeOK, tokenVars
<1>7. Steps'
  BY <1>1, <1>4, NoEvents DEF JournalInv, Steps, Batches
<1>8. EventsApart'
  BY <1>1, <1>2, <1>3, <1>4, <1>5, NoEvents DEF JournalInv, EventsApart
<1>9. EventsAccounted' /\ DueIsStored'
  BY <1>1, <1>2, <1>3, <1>5 DEF JournalInv, EventsAccounted, DueIsStored
<1> QED
  BY <1>6, <1>7, <1>8, <1>9 DEF Places

\* What holds of the rows, and of the mishaps, in any state.
LEMMA RowFacts ==
  ASSUME JournalInv
  PROVE  /\ stored \subseteq 1 .. emitted /\ 1 .. emitted \subseteq 1 .. MaxEvents
         /\ stored \subseteq 1 .. MaxEvents /\ doubled \subseteq 1 .. MaxEvents
         /\ mishap \in [Mishaps -> SUBSET (1 .. MaxEvents)]
         /\ doubled \subseteq mishap["late"]
<1>1. emitted \in 0 .. MaxEvents /\ MaxEvents \in Nat
  BY JournalAssumption DEF JournalInv, JournalTypeOK
<1> QED
  BY <1>1 DEF JournalInv, EventsApart, JournalTypeOK, EventsAccounted

\* A batch gets its rows: new rows but for events that are known to be late.
LEMMA Storing ==
  ASSUME NEW b \in Batches, ToSet(b) \subseteq 1 .. emitted, JournalInv,
         ToSet(b) \cap stored \subseteq mishap["late"], Store(b)
  PROVE  /\ stored' = stored \cup ToSet(b)
         /\ stored' \subseteq 1 .. emitted /\ stored' \subseteq 1 .. MaxEvents
         /\ doubled' \subseteq 1 .. MaxEvents /\ doubled' \subseteq mishap["late"]
  BY RowFacts DEF Store

\* A put_batch that fails: what got rows all the same is known to be late.
LEMMA Failing ==
  ASSUME NEW b \in Batches, ToSet(b) \subseteq 1 .. emitted, JournalInv,
         ToSet(b) \cap stored \subseteq mishap["late"], FailedPut(b)
  PROVE  /\ stored \subseteq stored' /\ stored' \subseteq stored \cup ToSet(b)
         /\ stored' \subseteq 1 .. emitted /\ stored' \subseteq 1 .. MaxEvents
         /\ doubled' \subseteq 1 .. MaxEvents /\ doubled' \subseteq mishap'["late"]
         /\ mishap' \in [Mishaps -> SUBSET (1 .. MaxEvents)]
         /\ Gone' = Gone /\ mishap["late"] \subseteq mishap'["late"]
         /\ ToSet(b) \cap stored' \subseteq mishap'["late"]
<1>1. CASE Store(b) /\ mishap' = [mishap EXCEPT !["late"] = @ \cup ToSet(b)]
  <2>1. ToSet(b) \subseteq 1 .. MaxEvents
    BY RowFacts
  <2>2. /\ mishap'["late"] = mishap["late"] \cup ToSet(b)
        /\ mishap' \in [Mishaps -> SUBSET (1 .. MaxEvents)] /\ Gone' = Gone
    BY <1>1, <2>1, RowFacts DEF Mishaps, Gone
  <2> QED BY <1>1, <2>1, <2>2, Storing
<1>2. CASE UNCHANGED <<storeVars, mishap>>
  BY <1>2, RowFacts DEF storeVars, Gone
<1> QED
  BY <1>1, <1>2 DEF FailedPut

\* The flush task: its batch gets rows, or is about to go back.
LEMMA FlushTaskKeeps ==
  ASSUME JournalInv, FlushTaskDone \/ FlushTaskFails
  PROVE  Places'
<1>1. /\ inFlight # <<>> /\ swap = "no" /\ seen = 0 /\ batch = <<>>
      /\ finish \in {"running", "gather"}
      /\ UNCHANGED <<emitted, buffered, finish, batch, due, tokenVars, saved>>
  BY DEF FlushTaskDone, FlushTaskFails, JournalInv, Steps, finishVars
<1>2. /\ inFlight \in Batches /\ ToSet(inFlight) \subseteq 1 .. emitted
      /\ ToSet(inFlight) \cap stored \subseteq mishap["late"]
      /\ Held = ToSet(buffered) \cup ToSet(inFlight)
  BY <1>1, NoEvents DEF JournalInv, JournalTypeOK, EventsApart, Held
<1>3. Len(buffered) \in Nat
  BY DEF JournalInv, JournalTypeOK, Batches
<1>4. CASE FlushTaskDone
  <2>1. /\ Store(inFlight) /\ inFlight' = <<>> /\ UNCHANGED <<swap, seen, mishap>>
    BY <1>4 DEF FlushTaskDone
  <2>2. /\ stored \subseteq stored' /\ stored' \subseteq 1 .. emitted
        /\ stored' \in SUBSET (1 .. MaxEvents) /\ doubled' \in SUBSET (1 .. MaxEvents)
        /\ stored' = stored \cup ToSet(inFlight)
        /\ Gone' = Gone /\ doubled' \subseteq mishap'["late"]
    BY <1>2, <2>1, Storing, RowFacts DEF Gone
  <2>3. Held' = ToSet(buffered)
    BY <1>1, <2>1, NoEvents DEF Held
  <2>4. JournalTypeOK'
    BY <1>1, <2>1, <2>2, NoEvents DEF JournalInv, JournalTypeOK, tokenVars
  <2>5. Steps'
    BY <1>1, <2>1 DEF JournalInv, Steps
  <2>6. EventsApart'
    BY <1>1, <1>2, <2>1, <2>2, <2>3, NoEvents DEF JournalInv, EventsApart
  <2>7. EventsAccounted' /\ DueIsStored'
    BY <1>1, <1>2, <2>1, <2>2, <2>3 DEF JournalInv, EventsAccounted, DueIsStored
  <2> QED BY <2>4, <2>5, <2>6, <2>7 DEF Places
<1>5. CASE FlushTaskFails
  <2>1. FailedPut(inFlight) /\ swap' = "return" /\ seen' = Len(buffered) /\ UNCHANGED inFlight
    BY <1>5 DEF FlushTaskFails
  <2>2. /\ stored \subseteq stored' /\ stored' \subseteq 1 .. emitted
        /\ stored' \in SUBSET (1 .. MaxEvents) /\ doubled' \in SUBSET (1 .. MaxEvents)
        /\ stored' \subseteq stored \cup ToSet(inFlight)
        /\ mishap' \in [Mishaps -> SUBSET (1 .. MaxEvents)]
        /\ Gone' = Gone /\ mishap["late"] \subseteq mishap'["late"]
        /\ doubled' \subseteq mishap'["late"]
        /\ ToSet(inFlight) \cap stored' \subseteq mishap'["late"]
    BY <1>2, <2>1, Failing
  <2>3. Held' = Held
    BY <1>1, <2>1 DEF Held
  <2>4. JournalTypeOK'
    BY <1>1, <1>3, <2>1, <2>2 DEF JournalInv, JournalTypeOK, tokenVars
  <2>5. Steps'
    BY <1>1, <1>3, <2>1 DEF JournalInv, Steps
  <2>6. EventsApart'
    BY <1>1, <1>2, <2>1, <2>2, <2>3 DEF JournalInv, EventsApart
  <2>7. EventsAccounted' /\ DueIsStored'
    BY <1>1, <2>2, <2>3 DEF JournalInv, EventsAccounted, DueIsStored
  <2> QED BY <2>4, <2>5, <2>6, <2>7 DEF Places
<1> QED
  BY <1>4, <1>5

\* flush() copies a batch.
LEMMA TakeBatchKeeps ==
  ASSUME JournalInv, TakeBatch
  PROVE  Places'
<1>1. /\ finish = "look" /\ swap' = "cut" /\ seen' = InBatch
      /\ UNCHANGED <<emitted, buffered, inFlight, stored, doubled, mishap, finish, batch, due,
                     tokenVars, saved>>
  BY DEF TakeBatch, storeVars, finishVars
<1>2. InBatch \in Nat /\ InBatch <= Len(buffered) /\ InBatch <= FlushThreshold
  BY JournalAssumption DEF JournalInv, JournalTypeOK, Batches, InBatch
<1>3. Held' = Held /\ Gone' = Gone
  BY <1>1 DEF Held, Gone
<1>4. JournalTypeOK' /\ Steps'
  BY <1>1, <1>2 DEF JournalInv, JournalTypeOK, Steps, tokenVars
<1>5. EventsApart' /\ EventsAccounted' /\ DueIsStored'
  BY <1>1, <1>3 DEF JournalInv, EventsApart, EventsAccounted, DueIsStored
<1> QED
  BY <1>4, <1>5 DEF Places

\* A batch off the buffer: what was copied, what has come in since and goes with it,
\* and what is left.
LEMMA BatchOff ==
  ASSUME JournalInv, swap = "cut"
  PROVE  /\ InBatch \in 0 .. Len(buffered) /\ seen \in 0 .. InBatch /\ InBatch \in Nat
         /\ Copied \in Batches /\ Len(Copied) = seen /\ Distinct(Copied)
         /\ LineFrom(buffered, InBatch) \in Batches /\ Distinct(LineFrom(buffered, InBatch))
         /\ ToSet(Copied) \cup ToSet(SubSeq(buffered, seen + 1, InBatch))
                \cup ToSet(LineFrom(buffered, InBatch)) = ToSet(buffered)
         /\ ToSet(Copied) \cap ToSet(LineFrom(buffered, InBatch)) = {}
         /\ LineFrom(LineTo(buffered, InBatch), seen) = SubSeq(buffered, seen + 1, InBatch)
         /\ LineTo(LineTo(buffered, InBatch), seen) = Copied
<1> DEFINE n == InBatch  u == LineTo(buffered, n)  behind == LineFrom(buffered, n)
           raced == SubSeq(buffered, seen + 1, n)
<1>1. /\ n \in 0 .. Len(buffered) /\ seen \in 0 .. n /\ n \in Nat /\ seen \in 0 .. Len(buffered)
      /\ buffered \in Batches /\ Distinct(buffered)
  BY JournalAssumption
     DEF JournalInv, JournalTypeOK, Steps, EventsApart, Batches, InBatch
<1> HIDE DEF n
<1>2. /\ u \in Batches /\ behind \in Batches /\ Len(u) = n
      /\ ToSet(u) \cup ToSet(behind) = ToSet(buffered) /\ ToSet(u) \cap ToSet(behind) = {}
      /\ Distinct(u) /\ Distinct(behind)
  BY <1>1, Cutting DEF LineTo, LineFrom
<1>3. \A i \in 1 .. n : u[i] = buffered[i]
  BY <1>1, PiecesOf
<1> HIDE DEF u, behind
<1>4. /\ LineTo(u, seen) \in Batches /\ Len(LineTo(u, seen)) = seen
      /\ ToSet(LineTo(u, seen)) \cup ToSet(LineFrom(u, seen)) = ToSet(u)
      /\ Distinct(LineTo(u, seen))
  BY <1>1, <1>2, Cutting DEF LineTo, LineFrom
<1>5. LineTo(u, seen) = Copied
  <2>1. /\ Copied \in Batches /\ Len(Copied) = seen /\ \A i \in 1 .. seen : Copied[i] = buffered[i]
    BY <1>1, PiecesOf DEF Copied, LineTo
  <2>2. \A i \in 1 .. seen : LineTo(u, seen)[i] = u[i]
    BY <1>1, <1>2, PiecesOf
  <2>3. \A i \in 1 .. seen : i \in 1 .. n
    BY <1>1
  <2> QED BY <1>3, <1>4, <2>1, <2>2, <2>3, SameBatch
<1>6. LineFrom(u, seen) = raced
  <2> DEFINE a == LineFrom(u, seen)  m == n - seen
  <2>1. a \in Batches /\ Len(a) = m /\ \A i \in 1 .. m : a[i] = u[seen + i]
    BY <1>1, <1>2, PiecesOf
  <2>2. ASSUME NEW i \in Int, seen + 1 <= i, i <= n PROVE buffered[i] \in 1 .. MaxEvents
    <3>1. i \in 1 .. Len(buffered) /\ buffered \in Seq(1 .. MaxEvents)
      BY <1>1, <2>2 DEF Batches
    <3> QED BY <3>1, ElementOfSeq
  <2>3. /\ raced \in Seq(1 .. MaxEvents)
        /\ Len(raced) = IF seen + 1 <= n THEN n - (seen + 1) + 1 ELSE 0
        /\ \A i \in 1 .. (n - (seen + 1) + 1) : raced[i] = buffered[(seen + 1) + i - 1]
    <3>1. seen + 1 \in Int /\ n \in Int /\ \A i \in (seen + 1) .. n : buffered[i] \in 1 .. MaxEvents
      BY <1>1, <2>2
    <3> QED BY <1>1, <3>1, SubSeqProperties DEF Batches
  <2> HIDE DEF a, raced
  <2>4. Len(raced) = m /\ \A i \in 1 .. m : raced[i] = buffered[seen + i] /\ seen + i \in 1 .. n
    BY <1>1, <2>3
  <2>5. raced \in Batches
    BY <2>3 DEF Batches
  <2> HIDE DEF m
  <2> QED BY <1>3, <2>1, <2>4, <2>5, SameBatch DEF a
<1> HIDE DEF raced
<1>7. ToSet(Copied) \cup ToSet(raced) = ToSet(u)
  BY <1>4, <1>5, <1>6
<1> QED
  BY <1>1, <1>2, <1>4, <1>5, <1>6, <1>7 DEF n, u, behind, raced

\* flush() deletes its batch from the buffer, and what came in between with it.
LEMMA DeleteBatchKeeps ==
  ASSUME JournalInv, DeleteBatch
  PROVE  Places'
<1> DEFINE raced == ToSet(SubSeq(buffered, seen + 1, InBatch))  behind == LineFrom(buffered, InBatch)
<1>1. /\ swap = "cut" /\ swap' = "no" /\ seen' = 0 /\ finish = "look" /\ finish' = "put"
      /\ inFlight = <<>> /\ batch = <<>> /\ batch' = Copied /\ buffered' = behind
      /\ seen <= FlushThreshold
      /\ mishap' = [mishap EXCEPT !["raced"] = @ \cup raced]
      /\ UNCHANGED <<emitted, inFlight, stored, doubled, due, tokenVars, saved>>
  BY DEF DeleteBatch, JournalInv, Steps, storeVars, LineFrom
<1>2. /\ Copied \in Batches /\ Len(Copied) = seen /\ Distinct(Copied)
      /\ behind \in Batches /\ Distinct(behind)
      /\ ToSet(Copied) \cup raced \cup ToSet(behind) = ToSet(buffered)
      /\ ToSet(Copied) \cap ToSet(behind) = {}
  BY <1>1, BatchOff
<1>3. Len(behind) \in Nat
  BY <1>2 DEF Batches
<1> HIDE DEF raced, behind
<1>4. /\ mishap' \in [Mishaps -> SUBSET (1 .. MaxEvents)]
      /\ Gone' = Gone \cup raced /\ mishap'["late"] = mishap["late"]
  <2>1. raced \subseteq 1 .. emitted /\ emitted \in 0 .. MaxEvents /\ MaxEvents \in Nat
    BY <1>2, JournalAssumption DEF JournalInv, EventsApart, Held, JournalTypeOK
  <2>2. raced \subseteq 1 .. MaxEvents
    BY <2>1
  <2> QED BY <1>1, <2>2 DEF JournalInv, JournalTypeOK, Mishaps, Gone
<1>5. Held' = ToSet(Copied) \cup ToSet(behind) /\ Held = ToSet(buffered)
  BY <1>1, NoEvents DEF Held
<1>6. JournalTypeOK'
  BY <1>1, <1>2, <1>4 DEF JournalInv, JournalTypeOK, tokenVars
<1>7. Steps'
  BY <1>1, <1>3 DEF JournalInv, Steps
<1>8. EventsApart'
  BY <1>1, <1>2, <1>4, <1>5, NoEvents DEF JournalInv, EventsApart
<1>9. EventsAccounted' /\ DueIsStored'
  BY <1>1, <1>2, <1>4, <1>5 DEF JournalInv, EventsAccounted, DueIsStored
<1> QED
  BY <1>6, <1>7, <1>8, <1>9 DEF Places

\* flush() stores its batch and looks again, or the batch is about to go back.
LEMMA BatchKeeps ==
  ASSUME JournalInv, BatchStored \/ BatchFails
  PROVE  Places'
<1>1. /\ finish = "put" /\ swap = "no" /\ seen = 0 /\ inFlight = <<>>
      /\ UNCHANGED <<emitted, buffered, inFlight, due, tokenVars, saved>>
  BY DEF BatchStored, BatchFails, JournalInv, Steps, finishVars
<1>2. /\ batch \in Batches /\ ToSet(batch) \subseteq 1 .. emitted
      /\ ToSet(batch) \cap stored \subseteq mishap["late"]
      /\ Held = ToSet(buffered) \cup ToSet(batch)
  BY <1>1, NoEvents DEF JournalInv, JournalTypeOK, EventsApart, Held
<1>3. Len(buffered) \in Nat
  BY DEF JournalInv, JournalTypeOK, Batches
<1>4. CASE BatchStored
  <2>1. Store(batch) /\ batch' = <<>> /\ finish' = "look" /\ UNCHANGED <<swap, seen, mishap>>
    BY <1>4 DEF BatchStored
  <2>2. /\ stored' = stored \cup ToSet(batch)
        /\ stored' \subseteq 1 .. emitted /\ stored' \subseteq 1 .. MaxEvents
        /\ doubled' \subseteq 1 .. MaxEvents /\ doubled' \subseteq mishap'["late"]
        /\ Gone' = Gone
    BY <1>2, <2>1, Storing DEF Gone
  <2>3. Held' = ToSet(buffered)
    BY <1>1, <2>1, NoEvents DEF Held
  <2>4. JournalTypeOK'
    BY <1>1, <2>1, <2>2, NoEvents, JournalAssumption DEF JournalInv, JournalTypeOK, tokenVars
  <2>5. Steps'
    BY <1>1, <2>1 DEF JournalInv, Steps
  <2>6. EventsApart'
    BY <1>1, <1>2, <2>1, <2>2, <2>3, NoEvents DEF JournalInv, EventsApart
  <2>7. EventsAccounted' /\ DueIsStored'
    BY <1>1, <1>2, <2>1, <2>2, <2>3 DEF JournalInv, EventsAccounted, DueIsStored
  <2> QED BY <2>4, <2>5, <2>6, <2>7 DEF Places
<1>5. CASE BatchFails
  <2>1. FailedPut(batch) /\ swap' = "return" /\ seen' = Len(buffered) /\ UNCHANGED <<finish, batch>>
    BY <1>5 DEF BatchFails, finishVars
  <2>2. /\ stored \subseteq stored' /\ stored' \subseteq stored \cup ToSet(batch)
        /\ stored' \subseteq 1 .. emitted /\ stored' \subseteq 1 .. MaxEvents
        /\ doubled' \subseteq 1 .. MaxEvents /\ doubled' \subseteq mishap'["late"]
        /\ mishap' \in [Mishaps -> SUBSET (1 .. MaxEvents)]
        /\ Gone' = Gone /\ mishap["late"] \subseteq mishap'["late"]
        /\ ToSet(batch) \cap stored' \subseteq mishap'["late"]
    BY <1>2, <2>1, Failing
  <2>3. Held' = Held
    BY <1>1, <2>1 DEF Held
  <2>4. JournalTypeOK'
    BY <1>1, <1>3, <2>1, <2>2 DEF JournalInv, JournalTypeOK, tokenVars
  <2>5. Steps'
    BY <1>1, <1>3, <2>1 DEF JournalInv, Steps
  <2>6. EventsApart'
    BY <1>1, <1>2, <2>1, <2>2, <2>3 DEF JournalInv, EventsApart
  <2>7. EventsAccounted' /\ DueIsStored'
    BY <1>1, <2>2, <2>3 DEF JournalInv, EventsAccounted, DueIsStored
  <2> QED BY <2>4, <2>5, <2>6, <2>7 DEF Places
<1> QED
  BY <1>4, <1>5

\* The finally block moves on.
LEMMA MovesOnKeeps ==
  ASSUME JournalInv, Finalize \/ Gathered \/ Flushed \/ SaveCompletion
  PROVE  Places'
<1>1. /\ UNCHANGED <<emitted, buffered, swap, seen, inFlight, stored, doubled, mishap, batch>>
      /\ CountTypes'
  BY DEF Finalize, Gathered, Flushed, SaveCompletion, bufferVars, storeVars, tokenVars,
         JournalInv, JournalTypeOK, CountTypes
<1>2. /\ saved' \in BOOLEAN
      /\ \/ finish = "running" /\ finish' = "gather" /\ swap = "no" /\ due' = due
         \/ finish = "gather" /\ finish' = "look" /\ inFlight = <<>> /\ swap = "no" /\ due' = due
         \/ finish = "look" /\ finish' = "save" /\ buffered = <<>> /\ swap = "no" /\ due' = emitted
         \/ finish = "save" /\ finish' = "over" /\ due' = due
  BY DEF Finalize, Gathered, Flushed, SaveCompletion, LoopFree, JournalInv, JournalTypeOK
<1>3. JournalTypeOK'
  BY <1>1, <1>2 DEF JournalInv, JournalTypeOK, CountTypes
<1>4. Steps'
  BY <1>1, <1>2 DEF JournalInv, Steps
<1>5. Held' = Held /\ Gone' = Gone
  BY <1>1 DEF Held, Gone
<1>6. EventsApart' /\ EventsAccounted'
  BY <1>1, <1>5 DEF JournalInv, EventsApart, EventsAccounted
<1>7. DueIsStored'
  <2>1. CASE due' = due
    BY <1>1, <1>5, <2>1 DEF JournalInv, DueIsStored
  <2>2. CASE finish = "look" /\ buffered = <<>> /\ due' = emitted
    <3>1. Held = {}
      BY <2>2, NoEvents DEF JournalInv, Steps, Held
    <3> QED BY <1>1, <1>5, <2>2, <3>1 DEF JournalInv, EventsAccounted, DueIsStored
  <2> QED BY <1>2, <2>1, <2>2
<1> QED
  BY <1>3, <1>4, <1>6, <1>7 DEF Places

\* A cancel leaves no batch behind: it is stored, or lost.
LEMMA CancelFinishKeeps ==
  ASSUME JournalInv, CancelFinish
  PROVE  Places'
<1> DEFINE going == IF finish = "put" THEN batch ELSE inFlight
<1>1. /\ swap = "no" /\ inFlight' = <<>> /\ batch' = <<>> /\ finish' = "over"
      /\ \/ Store(going) /\ UNCHANGED mishap
         \/ /\ mishap' = [mishap EXCEPT !["cancelled"] = @ \cup ToSet(going)]
            /\ UNCHANGED storeVars
      /\ UNCHANGED <<emitted, buffered, swap, seen, due, tokenVars>>
      /\ saved' \in BOOLEAN
  BY DEF CancelFinish, JournalInv, JournalTypeOK
<1>2. /\ going \in Batches /\ ToSet(going) \subseteq 1 .. emitted
      /\ ToSet(going) \cap stored \subseteq mishap["late"]
      /\ Held = ToSet(buffered) \cup ToSet(going) /\ ToSet(buffered) \cap ToSet(going) = {}
  <2>1. CASE finish = "put"
    BY <2>1, NoEvents DEF JournalInv, JournalTypeOK, Steps, EventsApart, Held
  <2>2. CASE finish # "put"
    BY <2>2, NoEvents DEF JournalInv, JournalTypeOK, Steps, EventsApart, Held
  <2> QED BY <2>1, <2>2
<1> HIDE DEF going
<1>3. /\ stored \subseteq stored' /\ stored' \subseteq stored \cup ToSet(going)
      /\ stored' \subseteq 1 .. emitted /\ stored' \subseteq 1 .. MaxEvents
      /\ doubled' \subseteq 1 .. MaxEvents /\ doubled' \subseteq mishap'["late"]
      /\ mishap' \in [Mishaps -> SUBSET (1 .. MaxEvents)] /\ mishap'["late"] = mishap["late"]
      /\ Gone \subseteq Gone' /\ ToSet(going) \subseteq stored' \cup Gone'
  <2>1. CASE Store(going) /\ UNCHANGED mishap
    BY <1>2, <2>1, Storing, RowFacts DEF Gone
  <2>2. CASE /\ mishap' = [mishap EXCEPT !["cancelled"] = @ \cup ToSet(going)]
             /\ UNCHANGED storeVars
    <3>1. ToSet(going) \subseteq 1 .. MaxEvents
      BY <1>2, RowFacts
    <3> QED BY <1>2, <2>2, <3>1, RowFacts DEF Gone, storeVars, Mishaps
  <2> QED BY <1>1, <2>1, <2>2
<1>4. Held' = ToSet(buffered)
  BY <1>1, NoEvents DEF Held
<1>5. JournalTypeOK'
  BY <1>1, <1>3, NoEvents, JournalAssumption DEF JournalInv, JournalTypeOK, tokenVars
<1>6. Steps'
  BY <1>1 DEF JournalInv, Steps
<1>7. EventsApart'
  BY <1>1, <1>2, <1>3, <1>4, NoEvents DEF JournalInv, EventsApart
<1>8. EventsAccounted' /\ DueIsStored'
  BY <1>1, <1>2, <1>3, <1>4 DEF JournalInv, EventsAccounted, DueIsStored
<1> QED
  BY <1>5, <1>6, <1>7, <1>8 DEF Places
-----------------------------------------------------------------------------
(* The counters. *)

\* What is added to the total is added to one bucket.
LEMMA AddTokensKeeps ==
  ASSUME JournalInv, NEW c \in Callers, AddTokens(c)
  PROVE  /\ buckets' \in [Callers -> Nat] /\ tokens' \in Nat /\ tokens' = tokens + 1
         /\ tokens' = buckets'["lead_agent"] + buckets'["subagent"] + buckets'["middleware"]
<1>1. /\ buckets \in [Callers -> Nat] /\ tokens \in Nat
      /\ tokens = buckets["lead_agent"] + buckets["subagent"] + buckets["middleware"]
  BY DEF JournalInv, JournalTypeOK, Counting
<1>2. /\ tokens' = tokens + 1 /\ buckets' = [buckets EXCEPT ![c] = @ + 1]
      /\ c \in {"lead_agent", "subagent", "middleware"}
  BY DEF AddTokens, Callers
<1>3. /\ buckets["lead_agent"] \in Nat /\ buckets["subagent"] \in Nat
      /\ buckets["middleware"] \in Nat
  BY <1>1 DEF Callers
<1>4. CASE c = "lead_agent"
  BY <1>1, <1>2, <1>3, <1>4 DEF Callers
<1>5. CASE c = "subagent"
  BY <1>1, <1>2, <1>3, <1>5 DEF Callers
<1>6. CASE c = "middleware"
  BY <1>1, <1>2, <1>3, <1>6 DEF Callers
<1> QED
  BY <1>2, <1>4, <1>5, <1>6

\* on_llm_end counts a call the first time only, tokens and message.
LEMMA LlmEndKeeps ==
  ASSUME JournalInv, NEW r \in LlmRuns, NEW c \in Callers, NEW usage \in BOOLEAN, LlmEnd(r, c, usage)
  PROVE  CountTypes' /\ Counting'
<1>1. /\ counted' \in SUBSET LlmRuns /\ IsFiniteSet(counted')
      /\ reported' = reported /\ reported \in SUBSET LlmRuns /\ IsFiniteSet(reported)
      /\ buckets' \in [Callers -> Nat] /\ tokens' \in Nat
      /\ tokens' = Cardinality(counted') + Cardinality(reported)
      /\ tokens' = buckets'["lead_agent"] + buckets'["subagent"] + buckets'["middleware"]
  <2>1. /\ counted \in SUBSET LlmRuns /\ IsFiniteSet(counted)
        /\ reported \in SUBSET LlmRuns /\ IsFiniteSet(reported) /\ reported' = reported
        /\ tokens = Cardinality(counted) + Cardinality(reported)
    BY DEF LlmEnd, JournalInv, JournalTypeOK, Counting
  <2>2. CASE usage /\ r \notin counted
    <3>1. counted' = counted \cup {r} /\ AddTokens(c)
      BY <2>2 DEF LlmEnd
    <3>2. IsFiniteSet(counted') /\ Cardinality(counted') = Cardinality(counted) + 1
      BY <2>1, <2>2, <3>1, FS_AddElement
    <3>3. Cardinality(counted) \in Nat /\ Cardinality(reported) \in Nat
      BY <2>1, FS_CardinalityType
    <3>4. tokens' = Cardinality(counted') + Cardinality(reported)
      BY <2>1, <3>1, <3>2, <3>3, AddTokensKeeps
    <3> QED BY <2>1, <3>1, <3>2, <3>4, AddTokensKeeps
  <2>3. CASE ~(usage /\ r \notin counted)
    BY <2>1, <2>3 DEF LlmEnd, JournalInv, JournalTypeOK, Counting
  <2> QED BY <2>2, <2>3
<1>2. /\ answered' \in SUBSET LlmRuns /\ IsFiniteSet(answered')
      /\ messages' \in Nat /\ messages' = Cardinality(answered')
  <2>1. /\ answered \in SUBSET LlmRuns /\ IsFiniteSet(answered)
        /\ messages \in Nat /\ messages = Cardinality(answered)
    BY DEF JournalInv, JournalTypeOK, Counting
  <2>2. /\ answered' = answered \cup {r}
        /\ messages' = IF r \in answered THEN messages ELSE messages + 1
    BY DEF LlmEnd
  <2>3. /\ IsFiniteSet(answered')
        /\ Cardinality(answered') = IF r \in answered THEN Cardinality(answered)
                                    ELSE Cardinality(answered) + 1
    BY <2>1, <2>2, FS_AddElement
  <2> QED BY <2>1, <2>2, <2>3
<1> QED
  BY <1>1, <1>2 DEF CountTypes, Counting

\* Callbacks that put an event, with and without counting.
LEMMA CallbackKeeps ==
  ASSUME JournalInv, Response \/ OtherEvent
  PROVE  JournalInv'
<1>1. CASE Response
  <2>1. PICK r \in LlmRuns, c \in Callers, usage \in BOOLEAN :
               LlmEnd(r, c, usage) /\ (PutInThread \/ PutOnLoop(FALSE))
    BY <1>1 DEF Response
  <2>2. CountTypes' /\ Counting'
    BY <2>1, LlmEndKeeps
  <2>3. Places'
    BY <2>1, <2>2, PutKeeps
  <2> QED BY <2>2, <2>3 DEF JournalInv, Places
<1>2. CASE OtherEvent
  <2>1. UNCHANGED tokenVars /\ (PutInThread \/ \E always \in BOOLEAN : PutOnLoop(always))
    BY <1>2 DEF OtherEvent
  <2>2. CountTypes' /\ Counting'
    BY <2>1 DEF tokenVars, JournalInv, JournalTypeOK, CountTypes, Counting
  <2>3. Places'
    BY <2>1, <2>2, PutKeeps
  <2> QED BY <2>2, <2>3 DEF JournalInv, Places
<1> QED
  BY <1>1, <1>2

\* Usage reported from outside counts once for each source.
LEMMA ExternalKeeps ==
  ASSUME JournalInv, NEW r \in LlmRuns, NEW c \in Callers, ExternalUsage(r, c)
  PROVE  JournalInv'
<1>1. /\ r \notin reported /\ reported' = reported \cup {r} /\ AddTokens(c)
      /\ UNCHANGED <<counted, answered, messages, emitted, buffered, swap, seen, inFlight, stored,
                     doubled, mishap, finish, batch, due, saved>>
  BY DEF ExternalUsage, bufferVars, storeVars, finishVars
<1>2. /\ counted \in SUBSET LlmRuns /\ IsFiniteSet(counted)
      /\ reported \in SUBSET LlmRuns /\ IsFiniteSet(reported)
      /\ tokens = Cardinality(counted) + Cardinality(reported)
  BY DEF JournalInv, JournalTypeOK, Counting
<1>3. IsFiniteSet(reported') /\ Cardinality(reported') = Cardinality(reported) + 1
  BY <1>1, <1>2, FS_AddElement
<1>4. Cardinality(counted) \in Nat /\ Cardinality(reported) \in Nat
  BY <1>2, FS_CardinalityType
<1>5. tokens' = Cardinality(counted) + Cardinality(reported')
  BY <1>1, <1>2, <1>3, <1>4, AddTokensKeeps
<1>6. /\ buckets' \in [Callers -> Nat] /\ tokens' \in Nat
      /\ tokens' = buckets'["lead_agent"] + buckets'["subagent"] + buckets'["middleware"]
  BY <1>1, AddTokensKeeps
<1>7. JournalTypeOK' /\ Counting'
  BY <1>1, <1>2, <1>3, <1>5, <1>6 DEF JournalInv, JournalTypeOK, Counting
<1>8. Steps' /\ EventsApart' /\ EventsAccounted' /\ DueIsStored'
  BY <1>1 DEF JournalInv, Steps, EventsApart, EventsAccounted, DueIsStored, Held, Gone
<1> QED
  BY <1>7, <1>8 DEF JournalInv

\* Every step of callbacks, flushes and the end of the run keeps the invariant.
LEMMA JournalKeeps == JournalInv /\ [JournalNext]_journalVars => JournalInv'
<1> SUFFICES ASSUME JournalInv, [JournalNext]_journalVars PROVE JournalInv'
  OBVIOUS
<1>1. CASE Response \/ OtherEvent
  BY <1>1, CallbackKeeps
<1>2. ASSUME NEW r \in LlmRuns, NEW c \in Callers, ExternalUsage(r, c) PROVE JournalInv'
  BY <1>2, ExternalKeeps
<1>3. ASSUME UNCHANGED tokenVars, Places' PROVE JournalInv'
  BY <1>3 DEF tokenVars, JournalInv, Places, Counting
<1>4. CASE ClearBuffer
  BY <1>3, <1>4, ClearBufferKeeps DEF ClearBuffer, tokenVars
<1>5. CASE ReturnBatch
  BY <1>3, <1>5, ReturnBatchKeeps DEF ReturnBatch, tokenVars
<1>6. CASE FlushTaskDone \/ FlushTaskFails
  BY <1>3, <1>6, FlushTaskKeeps DEF FlushTaskDone, FlushTaskFails, tokenVars
<1>7. CASE TakeBatch \/ DeleteBatch
  BY <1>3, <1>7, TakeBatchKeeps, DeleteBatchKeeps DEF TakeBatch, DeleteBatch, tokenVars
<1>8. CASE BatchStored \/ BatchFails
  BY <1>3, <1>8, BatchKeeps DEF BatchStored, BatchFails, tokenVars
<1>9. CASE Finalize \/ Gathered \/ Flushed \/ SaveCompletion
  BY <1>3, <1>9, MovesOnKeeps DEF Finalize, Gathered, Flushed, SaveCompletion, tokenVars
<1>10. CASE CancelFinish
  BY <1>3, <1>10, CancelFinishKeeps DEF CancelFinish, tokenVars
<1>11. CASE UNCHANGED journalVars
  <2>1. /\ UNCHANGED <<emitted, buffered, swap, seen, inFlight, stored, doubled, mishap>>
        /\ UNCHANGED <<finish, batch, due, saved>>
        /\ UNCHANGED <<counted, reported, answered, buckets, tokens, messages>>
    BY <1>11 DEF journalVars, bufferVars, storeVars, finishVars, tokenVars
  <2>2. JournalTypeOK' /\ Counting'
    BY <2>1 DEF JournalInv, JournalTypeOK, Counting
  <2>3. Steps' /\ EventsApart' /\ EventsAccounted' /\ DueIsStored'
    BY <2>1 DEF JournalInv, Steps, EventsApart, EventsAccounted, DueIsStored, Held, Gone
  <2> QED BY <2>2, <2>3 DEF JournalInv
<1> QED
  BY <1>1, <1>2, <1>4, <1>5, <1>6, <1>7, <1>8, <1>9, <1>10, <1>11 DEF JournalNext
-----------------------------------------------------------------------------
\* However often a model call is reported, it counts once, or twice when its callback
\* counted it and it was reported from outside.
THEOREM CallsCountOnce == JournalSpec => []TokensCountedOnce
<1>1. JournalInv => TokensCountedOnce
  <2> SUFFICES ASSUME JournalInv PROVE TokensCountedOnce
    OBVIOUS
  <2>1. /\ IsFiniteSet(counted) /\ IsFiniteSet(reported)
        /\ tokens = Cardinality(counted) + Cardinality(reported)
    BY DEF JournalInv, Counting
  <2> DEFINE a == Cardinality(counted)  b == Cardinality(reported)
             both == Cardinality(counted \cap reported)  any == Cardinality(counted \cup reported)
  <2>2. any = a + b - both
    BY <2>1, FS_Union
  <2>3. a \in Nat /\ b \in Nat /\ both \in Nat
    BY <2>1, FS_CardinalityType, FS_Intersection
  <2> HIDE DEF a, b, both, any
  <2>4. any + both = a + b
    BY <2>2, <2>3
  <2> QED BY <2>1, <2>4 DEF a, b, both, any, JournalInv, Counting, TokensCountedOnce
<1> QED
  BY <1>1, JournalInitially, JournalKeeps, PTL DEF JournalSpec

\* The journal keeps its types; no batch of flush() is over the threshold.
THEOREM JournalTyped == JournalSpec => []JournalTypeOK
<1>1. JournalInv => JournalTypeOK
  BY DEF JournalInv
<1> QED
  BY <1>1, JournalInitially, JournalKeeps, PTL DEF JournalSpec

-----------------------------------------------------------------------------
(***************************************************************************)
(* The journal as an EventLog. What is being stored, by the flush task or  *)
(* by flush(), is at the head of the line and the buffer behind it; what a *)
(* swap loses was appended since and was never on its way.                 *)
(***************************************************************************)

\* What a step leaves alone in the log.
LogFrame == (finish' = "save" <=> finish = "save") /\ UNCHANGED <<due, saved>>

\* A batch at the head of the line gets its rows and leaves.
LEMMA CommitInLog ==
  ASSUME NEW h \in Batches, NEW b \in Batches, Line = h \o b, Line' = b, Store(h),
         UNCHANGED <<emitted, mishap>>, LogFrame
  PROVE  Log!Next
<1>1. /\ LineTo(Line, Len(h)) = h /\ LineFrom(Line, Len(h)) = b
      /\ Len(h) \in 0 .. Len(Line)
  BY HeadOfLine
<1>2. UNCHANGED <<mishap["late"], Gone>>
  BY DEF Gone
<1>3. (finish = "save")' = (finish = "save") /\ UNCHANGED <<due, saved>>
  BY DEF LogFrame
<1>4. Log!Commit(Len(h))
  BY <1>1, <1>2, <1>3 DEF Log!Commit, Log!StoreFirst, Log!FirstOf, Log!In, ToSet, LineTo, LineFrom, Log!WithoutFirst, Log!Behind, Store
<1> QED
  BY <1>1, <1>4 DEF Log!Next

\* It gets them, or not, and stays.
LEMMA FailureInLog ==
  ASSUME NEW h \in Batches, NEW b \in Batches, Line = h \o b, UNCHANGED Line, FailedPut(h),
         mishap \in [Mishaps -> SUBSET (1 .. MaxEvents)], UNCHANGED emitted, LogFrame
  PROVE  Log!Next \/ UNCHANGED Log!logVars
<1>1. LineTo(Line, Len(h)) = h /\ Len(h) \in 0 .. Len(Line)
  BY HeadOfLine
<1>2. (finish = "save")' = (finish = "save") /\ UNCHANGED <<due, saved>>
  BY DEF LogFrame
<1>3. CASE Store(h) /\ mishap' = [mishap EXCEPT !["late"] = @ \cup ToSet(h)]
  <2>1. mishap'["late"] = mishap["late"] \cup ToSet(h) /\ UNCHANGED Gone
    BY <1>3 DEF Mishaps, Gone
  <2>2. Log!CommitUnnoticed(Len(h))
    BY <1>1, <1>2, <1>3, <2>1 DEF Log!CommitUnnoticed, Log!StoreFirst, Log!FirstOf, Log!In, ToSet, LineTo, LineFrom, Store
  <2> QED BY <1>1, <2>2 DEF Log!Next
<1>4. CASE UNCHANGED <<storeVars, mishap>>
  <2>1. UNCHANGED <<stored, doubled, mishap["late"], Gone>>
    BY <1>4 DEF storeVars, Gone
  <2> QED BY <2>1, <1>2 DEF Log!logVars
<1> QED
  BY <1>3, <1>4 DEF FailedPut

\* It leaves without.
LEMMA CancelInLog ==
  ASSUME NEW h \in Batches, NEW b \in Batches, Line = h \o b, Line' = b,
         mishap \in [Mishaps -> SUBSET (1 .. MaxEvents)],
         mishap' = [mishap EXCEPT !["cancelled"] = @ \cup ToSet(h)],
         UNCHANGED <<emitted, storeVars>>, LogFrame
  PROVE  Log!Next
<1>1. /\ LineTo(Line, Len(h)) = h /\ LineFrom(Line, Len(h)) = b
      /\ Len(h) \in 0 .. Len(Line)
  BY HeadOfLine
<1>2. UNCHANGED mishap["late"] /\ Gone' = Gone \cup ToSet(h)
  BY DEF Mishaps, Gone
<1>3. (finish = "save")' = (finish = "save") /\ UNCHANGED <<due, saved, stored, doubled>>
  BY DEF LogFrame, storeVars
<1>4. Log!LoseFirst(Len(h))
  BY <1>1, <1>2, <1>3 DEF Log!LoseFirst, Log!FirstOf, Log!In, ToSet, LineTo, LineFrom, Log!WithoutFirst, Log!Behind
<1> QED
  BY <1>1, <1>4 DEF Log!Next

\* What was appended between the two operations of a swap leaves the line, with what is
\* behind it still there.
LEMMA RaceInLog ==
  ASSUME NEW h \in Batches, NEW b \in Batches, NEW t \in Batches,
         Line = h \o (b \o t), Line' = h \o t,
         mishap \in [Mishaps -> SUBSET (1 .. MaxEvents)],
         mishap' = [mishap EXCEPT !["raced"] = @ \cup ToSet(b)], ToSet(b) \cap stored = {},
         UNCHANGED <<emitted, storeVars>>, LogFrame
  PROVE  Log!Next
<1> DEFINE u == b \o t
<1>1. /\ u \in Batches /\ LineTo(u, Len(b)) = b /\ LineFrom(u, Len(b)) = t
      /\ Len(b) \in 0 .. Len(u)
  BY InLine, HeadOfLine
<1>2. Line = h \o u
  OBVIOUS
<1> HIDE DEF u
<1>3. LineTo(Line, Len(h)) = h /\ LineFrom(Line, Len(h)) = u /\ Len(h) \in 0 .. Len(Line)
  BY <1>1, <1>2, HeadOfLine
<1>4. UNCHANGED mishap["late"] /\ Gone' = Gone \cup ToSet(b)
  BY DEF Mishaps, Gone
<1>5. (finish = "save")' = (finish = "save") /\ UNCHANGED <<due, saved, stored, doubled>>
  BY DEF LogFrame, storeVars
<1>6. Log!Behind(Len(h)) = u
  BY <1>3 DEF Log!Behind, LineFrom
<1>7. SubSeq(u, 1, Len(b)) = b /\ SubSeq(u, Len(b) + 1, Len(u)) = t /\ SubSeq(Line, 1, Len(h)) = h
  BY <1>1, <1>3 DEF LineTo, LineFrom
<1>8. Log!LoseBehind(Len(h), Len(b))
  BY <1>4, <1>5, <1>6, <1>7 DEF Log!LoseBehind, Log!In, ToSet
<1> QED
  BY <1>1, <1>3, <1>6, <1>8 DEF Log!Next

\* When nothing is behind it.
LEMMA EndRaceInLog ==
  ASSUME NEW h \in Batches, NEW b \in Batches, Line = h \o b, Line' = h,
         mishap \in [Mishaps -> SUBSET (1 .. MaxEvents)],
         mishap' = [mishap EXCEPT !["raced"] = @ \cup ToSet(b)], ToSet(b) \cap stored = {},
         UNCHANGED <<emitted, storeVars>>, LogFrame
  PROVE  Log!Next
<1> DEFINE t == <<>>
<1>1. t \in Batches /\ h \o t = h /\ b \o t = b
  BY NoEvents, ConcatEmptySeq DEF Batches
<1> HIDE DEF t
<1> QED
  BY <1>1, RaceInLog

\* An event gets in line.
LEMMA PutInLog ==
  ASSUME NEW h \in Batches, NEW b \in Batches, Line = h \o b,
         emitted + 1 \in 1 .. MaxEvents, Line' = h \o Append(b, emitted + 1),
         emitted' = emitted + 1, UNCHANGED <<storeVars, mishap>>, LogFrame
  PROVE  Log!Next
<1>1. Line' = Append(Line, emitted + 1)
  BY PutInLine
<1>2. UNCHANGED <<mishap["late"], Gone, stored, doubled>>
  BY DEF Gone, storeVars
<1>3. (finish = "save")' = (finish = "save") /\ UNCHANGED <<due, saved>>
  BY DEF LogFrame
<1> QED
  BY <1>1, <1>2, <1>3 DEF Log!Next, Log!Put

\* The log does not see it.
LEMMA StillInLog ==
  ASSUME UNCHANGED <<Line, emitted, storeVars, mishap>>, LogFrame
  PROVE  UNCHANGED Log!logVars
<1>1. UNCHANGED <<mishap["late"], Gone, stored, doubled>>
  BY DEF Gone, storeVars
<1>2. (finish = "save")' = (finish = "save") /\ UNCHANGED <<due, saved>>
  BY DEF LogFrame
<1> QED
  BY <1>1, <1>2 DEF Log!logVars

\* What was appended between the two operations of a swap was never on its way, unless
\* the slice was whole and nothing is lost; and the summary is saved in the last step
\* of a run.
LogFits ==
    /\ swap # "no" /\ (swap = "cut" => seen < FlushThreshold) => Raced \cap stored = {}
    /\ finish # "over" => ~saved

\* One of two parts of the line is always empty.
LEMMA Lines ==
  ASSUME NEW f \in Batches, NEW b \in Batches, NEW r \in Batches
  PROVE  /\ f = <<>> => f \o b \o r = b \o r
         /\ b = <<>> => f \o b \o r = f \o r
<1>1. f \in Seq(1 .. MaxEvents) /\ b \in Seq(1 .. MaxEvents)
  BY DEF Batches
<1>2. f \o <<>> = f /\ <<>> \o b = b
  BY <1>1, ConcatEmptySeq
<1> QED
  BY <1>2

\* The line is what flushes hold, before the buffer.
LEMMA LineIs ==
  ASSUME JournalInv
  PROVE  /\ buffered \in Batches /\ inFlight \in Batches /\ batch \in Batches
         /\ finish \in {"running", "gather"} => Line = inFlight \o buffered
         /\ finish \notin {"running", "gather"} => Line = batch \o buffered
         /\ <<>> \o buffered = buffered
<1>1. /\ buffered \in Batches /\ inFlight \in Batches /\ batch \in Batches
      /\ finish \in {"running", "gather"} => batch = <<>>
      /\ finish \notin {"running", "gather"} => inFlight = <<>>
  BY DEF JournalInv, JournalTypeOK, Steps
<1>2. /\ finish \in {"running", "gather"} => Line = inFlight \o buffered
      /\ finish \notin {"running", "gather"} => Line = batch \o buffered
  BY <1>1, Lines DEF Line
<1>3. <<>> \o buffered = buffered
  BY <1>1, ConcatEmptySeq DEF Batches
<1> QED
  BY <1>1, <1>2, <1>3

\* And so it is after a step.
LEMMA NextLineIs ==
  ASSUME JournalInv'
  PROVE  /\ finish' \in {"running", "gather"} => Line' = inFlight' \o buffered'
         /\ finish' \notin {"running", "gather"} => Line' = batch' \o buffered'
<1>1. /\ buffered' \in Batches /\ inFlight' \in Batches /\ batch' \in Batches
      /\ finish' \in {"running", "gather"} => batch' = <<>>
      /\ finish' \notin {"running", "gather"} => inFlight' = <<>>
  BY DEF JournalInv, JournalTypeOK, Steps
<1> QED
  BY <1>1, Lines DEF Line

\* The swap cuts the buffer where it was first read.
LEMMA SwapCuts ==
  ASSUME JournalInv, NEW h \in Batches, Line = h \o buffered
  PROVE  /\ Copied \in Batches /\ LineFrom(buffered, seen) \in Batches
         /\ h \o Copied \in Batches /\ Line = (h \o Copied) \o LineFrom(buffered, seen)
         /\ Raced = ToSet(LineFrom(buffered, seen))
<1> DEFINE c == LineTo(buffered, seen)  r == LineFrom(buffered, seen)
<1>1. buffered \in Batches /\ seen \in 0 .. Len(buffered)
  BY DEF JournalInv, JournalTypeOK, Steps, Batches
<1>2. c \in Batches /\ r \in Batches /\ c \o r = buffered
  BY <1>1, PiecesOf, CutLine
<1>3. h \in Seq(1 .. MaxEvents) /\ c \in Seq(1 .. MaxEvents) /\ r \in Seq(1 .. MaxEvents)
  BY <1>2 DEF Batches
<1>4. Copied = c /\ Raced = ToSet(r)
  BY DEF Copied, Raced, LineTo, LineFrom
<1> HIDE DEF c, r
<1>5. (h \o c) \o r = h \o (c \o r)
  BY <1>3, ConcatAssociative
<1>6. h \o c \in Batches
  BY <1>2, InLine
<1> QED
  BY <1>2, <1>4, <1>5, <1>6 DEF r

\* A callback.
LEMMA CallbackRefines ==
  ASSUME JournalInv, JournalInv', PutInThread \/ PutOnLoop(TRUE) \/ PutOnLoop(FALSE)
  PROVE  Log!Next
<1>1. /\ emitted + 1 \in 1 .. MaxEvents /\ emitted' = emitted + 1
      /\ buffered' = Append(buffered, emitted + 1)
      /\ UNCHANGED <<inFlight, storeVars, mishap, finish, batch, due, saved>>
  BY JournalAssumption DEF PutInThread, PutOnLoop, PutEvent, finishVars, JournalInv, JournalTypeOK
<1>2. LogFrame
  BY <1>1 DEF LogFrame
<1>3. CASE finish \in {"running", "gather"}
  BY <1>1, <1>2, <1>3, LineIs, NextLineIs, PutInLog
<1>4. CASE finish \notin {"running", "gather"}
  BY <1>1, <1>2, <1>4, LineIs, NextLineIs, PutInLog
<1> QED
  BY <1>3, <1>4

\* The buffer is cleared, or what failed to be stored goes back in front of it.
LEMMA SwapRefines ==
  ASSUME JournalInv, JournalInv', LogFits, ClearBuffer \/ ReturnBatch
  PROVE  Log!Next
<1> DEFINE none == <<>>
<1>1. mishap \in [Mishaps -> SUBSET (1 .. MaxEvents)]
  BY RowFacts
<1>2. /\ swap # "no" /\ Raced \cap stored = {}
      /\ mishap' = [mishap EXCEPT !["raced"] = @ \cup Raced]
      /\ UNCHANGED <<emitted, storeVars, due, saved>>
  BY DEF ClearBuffer, ReturnBatch, LogFits, finishVars
<1>3. CASE ClearBuffer
  <2>1. /\ finish = "running" /\ inFlight = none /\ inFlight' = Copied /\ buffered' = none
        /\ finish' = finish
    BY <1>3 DEF ClearBuffer, finishVars, JournalInv, Steps
  <2>2. Line = none \o buffered /\ none \in Batches /\ Line' = Copied \o none
    BY <2>1, LineIs, NextLineIs
  <2> HIDE DEF none
  <2>3. /\ Copied \in Batches /\ LineFrom(buffered, seen) \in Batches
        /\ Line = (none \o Copied) \o LineFrom(buffered, seen)
        /\ Raced = ToSet(LineFrom(buffered, seen))
    BY <2>2, SwapCuts
  <2>4. none \o Copied = Copied /\ Copied \o none = Copied
    BY <2>3, ConcatEmptySeq DEF Batches, none
  <2>5. LogFrame
    BY <1>2, <2>1 DEF LogFrame
  <2> QED BY <1>1, <1>2, <2>2, <2>3, <2>4, <2>5, EndRaceInLog
<1>4. CASE ReturnBatch
  <2> DEFINE onTask == finish \in {"running", "gather"}
             h == IF onTask THEN inFlight ELSE batch
  <2>1. /\ finish \in {"running", "gather", "put"} /\ buffered' = h \o Copied
        /\ inFlight' = IF onTask THEN none ELSE inFlight
        /\ batch' = IF onTask THEN batch ELSE none
        /\ finish' = IF onTask THEN finish ELSE "over"
    BY <1>4 DEF ReturnBatch, PutBack, JournalInv, Steps
  <2>2. h \in Batches /\ Line = h \o buffered
    BY LineIs
  <2>3. Line' = none \o (h \o Copied)
    BY <2>1, NextLineIs
  <2>4. LogFrame
    BY <1>2, <2>1 DEF LogFrame
  <2> HIDE DEF none, h
  <2>5. /\ h \o Copied \in Batches /\ LineFrom(buffered, seen) \in Batches
        /\ Line = (h \o Copied) \o LineFrom(buffered, seen)
        /\ Raced = ToSet(LineFrom(buffered, seen))
    BY <2>2, SwapCuts
  <2>6. none \o (h \o Copied) = h \o Copied
    BY <2>5, ConcatEmptySeq DEF Batches, none
  <2> QED BY <1>1, <1>2, <2>3, <2>4, <2>5, <2>6, EndRaceInLog
<1> QED
  BY <1>3, <1>4

\* The flush task.
LEMMA FlushTaskRefines ==
  ASSUME JournalInv, JournalInv', FlushTaskDone \/ FlushTaskFails
  PROVE  Log!Next \/ UNCHANGED Log!logVars
<1>1. /\ finish \in {"running", "gather"} /\ UNCHANGED <<emitted, buffered, finish, batch, due, saved>>
  BY DEF FlushTaskDone, FlushTaskFails, JournalInv, Steps, finishVars
<1>2. inFlight \in Batches /\ buffered \in Batches /\ Line = inFlight \o buffered
  BY <1>1, LineIs
<1>3. LogFrame
  BY <1>1 DEF LogFrame
<1>4. CASE FlushTaskDone
  <2>1. Store(inFlight) /\ UNCHANGED mishap /\ inFlight' = <<>>
    BY <1>4 DEF FlushTaskDone
  <2>2. Line' = buffered
    BY <1>1, <2>1, LineIs, NextLineIs
  <2> QED BY <1>1, <1>2, <1>3, <2>1, <2>2, CommitInLog
<1>5. CASE FlushTaskFails
  <2>1. FailedPut(inFlight) /\ UNCHANGED inFlight
    BY <1>5 DEF FlushTaskFails
  <2>2. UNCHANGED Line
    BY <1>1, <2>1 DEF Line
  <2>3. mishap \in [Mishaps -> SUBSET (1 .. MaxEvents)]
    BY RowFacts
  <2> QED BY <1>1, <1>2, <1>3, <2>1, <2>2, <2>3, FailureInLog
<1> QED
  BY <1>4, <1>5

\* flush(): its batches come from the head of the line.
LEMMA BatchRefines ==
  ASSUME JournalInv, JournalInv', LogFits,
         TakeBatch \/ DeleteBatch \/ BatchStored \/ BatchFails
  PROVE  Log!Next \/ UNCHANGED Log!logVars
<1>1. /\ finish \in {"look", "put"} /\ finish' \in {"look", "put"}
      /\ UNCHANGED <<emitted, inFlight, due, saved>>
  BY DEF TakeBatch, DeleteBatch, BatchStored, BatchFails, finishVars, JournalInv, Steps
<1>2. batch \in Batches /\ buffered \in Batches /\ Line = batch \o buffered
  BY <1>1, LineIs
<1>3. LogFrame
  BY <1>1 DEF LogFrame
<1>4. CASE TakeBatch
  <2>1. UNCHANGED <<buffered, batch, finish, storeVars, mishap>>
    BY <1>4 DEF TakeBatch, finishVars
  <2>2. UNCHANGED Line
    BY <1>1, <2>1 DEF Line
  <2> QED BY <1>1, <1>3, <2>1, <2>2, StillInLog
<1>7. CASE DeleteBatch
  <2> DEFINE none == <<>>  n == InBatch  u == LineTo(buffered, n)  behind == LineFrom(buffered, n)
             c == Copied  between == SubSeq(buffered, seen + 1, n)
  <2>1. /\ swap = "cut" /\ finish = "look" /\ batch = none /\ batch' = c /\ buffered' = behind
        /\ mishap' = [mishap EXCEPT !["raced"] = @ \cup ToSet(between)] /\ UNCHANGED storeVars
    BY <1>7 DEF DeleteBatch, LineFrom, JournalInv, Steps
  <2>2. /\ n \in 0 .. Len(buffered) /\ seen \in 0 .. n /\ n \in Nat
        /\ c \in Batches /\ behind \in Batches
        /\ LineFrom(u, seen) = between /\ LineTo(u, seen) = c
    BY <2>1, BatchOff
  <2>3. between \in Batches /\ u \in Batches /\ c \o between = u /\ u \o behind = buffered
    <3> HIDE DEF n, between, c
    <3>1. u \in Batches /\ Len(u) = n /\ u \o behind = buffered
      BY <1>2, <2>2, PiecesOf, CutLine
    <3> HIDE DEF u, behind
    <3> QED BY <2>2, <3>1, PiecesOf, CutLine
  <2>4. ToSet(between) \cap stored = {}
    <3>1. ToSet(between) \subseteq Raced
      <4> HIDE DEF u, behind, n, c, between
      <4>1. SubSeq(buffered, seen + 1, Len(buffered)) = LineFrom(buffered, seen)
        BY DEF LineFrom
      <4>2. buffered = c \o (between \o behind) /\ Len(c) = seen /\ between \o behind \in Batches
        <5>1. c \in Seq(1 .. MaxEvents) /\ between \in Seq(1 .. MaxEvents) /\ behind \in Seq(1 .. MaxEvents)
          BY <2>2, <2>3 DEF Batches
        <5>2. (c \o between) \o behind = c \o (between \o behind)
          BY <5>1, ConcatAssociative
        <5>3. Len(c) = seen
          BY <2>1, BatchOff DEF c
        <5> QED BY <2>2, <2>3, <5>2, <5>3, InLine
      <4>3. LineFrom(buffered, seen) = between \o behind
        <5> DEFINE w == between \o behind
        <5>1. w \in Batches /\ c \in Batches /\ buffered = c \o w
          BY <2>2, <4>2
        <5> HIDE DEF w
        <5>2. LineFrom(buffered, Len(c)) = w
          BY <5>1, HeadOfLine
        <5> QED BY <4>2, <5>2 DEF w
      <4>4. ToSet(between) \subseteq ToSet(between \o behind)
        <5> DEFINE w == between \o behind
        <5>1. Len(w) = Len(between) + Len(behind) /\ \A i \in 1 .. Len(between) : w[i] = between[i]
          BY <2>2, <2>3, InLine
        <5>2. /\ DOMAIN w = 1 .. Len(w) /\ DOMAIN between = 1 .. Len(between)
              /\ Len(between) \in Nat /\ Len(behind) \in Nat
          BY <2>2, <2>3, <4>2 DEF Batches
        <5> HIDE DEF w
        <5>3. \A i \in 1 .. Len(between) : i \in 1 .. Len(w)
          BY <5>1, <5>2
        <5> QED BY <5>1, <5>2, <5>3 DEF ToSet, w
      <4> QED BY <4>1, <4>3, <4>4 DEF Raced
    <3>2. CASE seen = FlushThreshold
      <4>1. n <= FlushThreshold
        BY JournalAssumption, <1>2 DEF InBatch, Batches
      <4>2. Len(between) = 0
        <5>1. Len(u) = n /\ u \in Batches
          BY <1>2, <2>2, PiecesOf
        <5> HIDE DEF u, n, between
        <5>2. Len(u) - seen = 0 /\ seen \in 0 .. Len(u)
          BY <2>2, <3>2, <4>1, <5>1, JournalAssumption
        <5> QED BY <2>2, <5>1, <5>2, PiecesOf
      <4> HIDE DEF between
      <4>3. between = <<>>
        BY <2>3, <4>2, EmptySeq DEF Batches
      <4> QED BY <4>3, NoEvents
    <3>3. CASE seen # FlushThreshold
      <4>1. seen < FlushThreshold
        BY <2>1, <3>3, JournalAssumption DEF JournalInv, JournalTypeOK, Steps
      <4> QED BY <2>1, <3>1, <4>1 DEF LogFits
    <3> QED BY <3>2, <3>3
  <2>5. Line = buffered
    BY <1>2, <2>1, LineIs
  <2>6. Line' = c \o behind
    BY <1>1, <2>1, NextLineIs
  <2>7. mishap \in [Mishaps -> SUBSET (1 .. MaxEvents)]
    BY RowFacts
  <2> HIDE DEF none, n, u, behind, c, between
  <2>8. Line = c \o (between \o behind)
    <3>1. c \in Seq(1 .. MaxEvents) /\ between \in Seq(1 .. MaxEvents) /\ behind \in Seq(1 .. MaxEvents)
      BY <2>2, <2>3 DEF Batches
    <3>2. (c \o between) \o behind = c \o (between \o behind)
      BY <3>1, ConcatAssociative
    <3> QED BY <2>3, <2>5, <3>2
  <2> QED BY <1>1, <1>3, <2>1, <2>2, <2>3, <2>4, <2>6, <2>7, <2>8, RaceInLog
<1>5. CASE BatchStored
  <2>1. Store(batch) /\ UNCHANGED <<mishap, buffered>> /\ batch' = <<>>
    BY <1>5 DEF BatchStored
  <2>2. Line' = buffered
    BY <1>1, <2>1, LineIs, NextLineIs
  <2> QED BY <1>1, <1>2, <1>3, <2>1, <2>2, CommitInLog
<1>6. CASE BatchFails
  <2>1. FailedPut(batch) /\ UNCHANGED <<batch, buffered>>
    BY <1>6 DEF BatchFails, finishVars
  <2>2. UNCHANGED Line
    BY <1>1, <2>1 DEF Line
  <2>3. mishap \in [Mishaps -> SUBSET (1 .. MaxEvents)]
    BY RowFacts
  <2> QED BY <1>1, <1>2, <1>3, <2>1, <2>2, <2>3, FailureInLog
<1> QED
  BY <1>4, <1>5, <1>6, <1>7

\* The end of the run: the summary is for an empty line.
LEMMA EndRefines ==
  ASSUME JournalInv, JournalInv', LogFits, Finalize \/ Gathered \/ Flushed \/ SaveCompletion
  PROVE  Log!Next \/ UNCHANGED Log!logVars
<1>1. UNCHANGED <<emitted, buffered, inFlight, storeVars, mishap, batch>>
  BY DEF Finalize, Gathered, Flushed, SaveCompletion, bufferVars
<1>2. UNCHANGED <<Line, stored, doubled, mishap["late"], Gone>>
  BY <1>1 DEF Line, Gone, storeVars
<1>3. CASE Finalize \/ Gathered
  <2>1. LogFrame
    BY <1>3 DEF LogFrame, Finalize, Gathered
  <2> QED BY <1>1, <1>2, <2>1, StillInLog
<1>4. CASE Flushed
  <2>1. finish = "look" /\ finish' = "save" /\ due' = emitted /\ ~saved /\ UNCHANGED saved /\ buffered = <<>>
    BY <1>4 DEF Flushed, LogFits
  <2>2. Line = <<>>
    BY <2>1, LineIs DEF JournalInv, Steps
  <2>3. ~(finish = "save") /\ (finish = "save")' = TRUE
    BY <2>1
  <2>4. Log!Close
    BY <1>1, <1>2, <2>1, <2>2, <2>3 DEF Log!Close
  <2> QED BY <2>4 DEF Log!Next
<1>5. CASE SaveCompletion
  <2>1. finish = "save" /\ (finish = "save")' = FALSE /\ saved' \in BOOLEAN /\ UNCHANGED due
    BY <1>5 DEF SaveCompletion
  <2>2. Log!Save
    BY <1>1, <1>2, <2>1 DEF Log!Save
  <2> QED BY <2>2 DEF Log!Next
<1> QED
  BY <1>3, <1>4, <1>5

\* A cancel: a batch on its way is stored or lost; nothing is on its way when the
\* summary is.
LEMMA CancelRefines ==
  ASSUME JournalInv, JournalInv', CancelFinish
  PROVE  Log!Next
<1> DEFINE going == IF finish = "put" THEN batch ELSE inFlight
<1>1. /\ inFlight' = <<>> /\ batch' = <<>> /\ finish' = "over"
      /\ \/ Store(going) /\ UNCHANGED mishap
         \/ /\ mishap' = [mishap EXCEPT !["cancelled"] = @ \cup ToSet(going)]
            /\ UNCHANGED storeVars
      /\ UNCHANGED <<emitted, buffered, due>> /\ finish \in {"gather", "put", "save"}
      /\ saved' \in BOOLEAN /\ (finish # "save" => UNCHANGED saved)
  BY DEF CancelFinish, JournalInv, JournalTypeOK
<1>2. going \in Batches /\ buffered \in Batches /\ Line = going \o buffered /\ Line' = buffered
  <2>1. Line' = buffered
    BY <1>1, LineIs, NextLineIs
  <2>2. CASE finish = "gather"
    BY <2>1, <2>2, LineIs
  <2>3. CASE finish = "put"
    BY <2>1, <2>3, LineIs
  <2>4. CASE finish = "save"
    <3>1. inFlight = <<>> /\ batch = <<>>
      BY <2>4 DEF JournalInv, Steps
    <3> QED BY <2>1, <2>4, <3>1, LineIs
  <2> QED BY <1>1, <2>2, <2>3, <2>4
<1>3. mishap \in [Mishaps -> SUBSET (1 .. MaxEvents)]
  BY RowFacts
<1>4. CASE finish # "save"
  <2>1. LogFrame
    BY <1>1, <1>4 DEF LogFrame
  <2> HIDE DEF going
  <2> QED BY <1>1, <1>2, <1>3, <2>1, CommitInLog, CancelInLog
<1>5. CASE finish = "save"
  <2>1. ToSet(going) = {}
    BY <1>5, NoEvents DEF JournalInv, Steps
  <2>2. Line = buffered
    BY <1>5, LineIs DEF JournalInv, Steps
  <2>3. UNCHANGED <<stored, doubled, mishap["late"], Gone>>
    <3>1. CASE Store(going) /\ UNCHANGED mishap
      BY <2>1, <3>1 DEF Store, Gone
    <3>2. CASE /\ mishap' = [mishap EXCEPT !["cancelled"] = @ \cup ToSet(going)]
               /\ UNCHANGED storeVars
      BY <1>3, <2>1, <3>2 DEF storeVars, Gone, Mishaps
    <3> QED BY <1>1, <3>1, <3>2
  <2>4. (finish = "save") /\ (finish = "save")' = FALSE
    BY <1>1, <1>5
  <2>5. Log!Save
    BY <1>1, <1>2, <2>2, <2>3, <2>4 DEF Log!Save
  <2> QED BY <2>5 DEF Log!Next
<1> QED
  BY <1>4, <1>5

\* A step that does not touch the swap, or ends it, or begins it with nothing since.
LEMMA FitsKeep ==
  ASSUME JournalInv, JournalInv', LogFits, [JournalNext]_journalVars
  PROVE  LogFits'
<1> DEFINE Apart == swap # "no" /\ (swap = "cut" => seen < FlushThreshold) => Raced \cap stored = {}
           Late == finish # "over" => ~saved
           r == LineFrom(buffered, seen)
<1>1. Raced = ToSet(r) /\ Raced' = ToSet(r')
  BY DEF Raced, LineFrom
<1>2. ASSUME swap' = "no" PROVE Apart'
  BY <1>2
<1>3. ASSUME UNCHANGED <<swap, seen, buffered, stored>> PROVE Apart'
  BY <1>3 DEF LogFits, Raced
<1>4. buffered \in Batches /\ buffered' \in Batches /\ seen \in 0 .. Len(buffered) /\ emitted \in Nat
  BY JournalAssumption DEF JournalInv, JournalTypeOK, Steps, Batches
<1>5. ASSUME seen' = Len(buffered'), buffered' \in Batches PROVE Apart'
  <2> DEFINE l == Len(buffered')
  <2>1. l \in 0 .. Len(buffered') /\ r' = LineFrom(buffered', l) /\ Len(buffered') - l = 0
    BY <1>5 DEF Batches
  <2> HIDE DEF l
  <2>2. r' \in Batches /\ Len(r') = 0
    BY <1>5, <2>1, PiecesOf
  <2>3. r' = <<>>
    BY <2>2, EmptySeq DEF Batches
  <2> QED BY <1>1, <2>3, NoEvents
<1>6. ASSUME seen' = seen, swap' = swap, buffered' = Append(buffered, emitted + 1),
             UNCHANGED stored, emitted + 1 \in 1 .. MaxEvents
      PROVE Apart'
  <2> DEFINE e == emitted + 1
  <2>1. r \in Batches
    BY <1>4, PiecesOf
  <2>2. r' = Append(r, e)
    <3>1. buffered = LineTo(buffered, seen) \o r /\ LineTo(buffered, seen) \in Batches
          /\ Len(LineTo(buffered, seen)) = seen
      BY <1>4, PiecesOf, CutLine
    <3> DEFINE a == LineTo(buffered, seen)  b == Append(r, e)
    <3>2. buffered = a \o r /\ a \in Batches /\ Len(a) = seen
      BY <3>1
    <3>3. b \in Batches
      BY <1>6, <2>1 DEF Batches
    <3> HIDE DEF a, r, e
    <3>4. a \o b = Append(a \o r, e)
      BY <1>6, <2>1, <3>2, PutInLine DEF e
    <3>5. buffered' = a \o b
      BY <1>6, <3>2, <3>4 DEF e
    <3> HIDE DEF b
    <3>6. LineFrom(buffered', Len(a)) = b
      BY <3>2, <3>3, <3>5, HeadOfLine
    <3>7. r' = LineFrom(buffered', Len(a))
      BY <1>6, <3>2 DEF r
    <3> QED BY <3>6, <3>7 DEF b
  <2>3. ToSet(r') = ToSet(r) \cup {e}
    <3> HIDE DEF r, e
    <3>1. r \in Seq(1 .. MaxEvents) /\ e \in 1 .. MaxEvents
      BY <1>6, <2>1 DEF e, Batches
    <3>2. /\ Len(Append(r, e)) = Len(r) + 1 /\ Len(r) \in Nat
          /\ \A i \in 1 .. Len(r) : Append(r, e)[i] = r[i]
          /\ Append(r, e)[Len(r) + 1] = e /\ Append(r, e) \in Seq(1 .. MaxEvents)
      BY <3>1, AppendProperties, LenProperties
    <3>3. DOMAIN Append(r, e) = 1 .. Len(r) + 1 /\ DOMAIN r = 1 .. Len(r)
      BY <3>1, <3>2
    <3> DEFINE t == Append(r, e)  n == Len(r)
    <3>4. /\ t[n + 1] = e /\ n \in Nat /\ \A i \in 1 .. n : t[i] = r[i]
          /\ DOMAIN t = 1 .. n + 1 /\ DOMAIN r = 1 .. n
      BY <3>2, <3>3
    <3> HIDE DEF t, n
    <3>5. ToSet(t) = ToSet(r) \cup {e}
      <4>1. ASSUME NEW x \in ToSet(t) PROVE x \in ToSet(r) \cup {e}
        <5>1. PICK i \in 1 .. n + 1 : x = t[i]
          BY <3>4, <4>1 DEF ToSet
        <5>2. i = n + 1 \/ i \in 1 .. n
          BY <3>4
        <5> QED BY <3>4, <5>1, <5>2 DEF ToSet
      <4>2. ASSUME NEW x \in ToSet(r) PROVE x \in ToSet(t)
        <5>1. PICK i \in 1 .. n : x = r[i]
          BY <3>4, <4>2 DEF ToSet
        <5>2. i \in 1 .. n + 1
          BY <3>4
        <5> QED BY <3>4, <5>1, <5>2 DEF ToSet
      <4>3. e \in ToSet(t)
        <5>1. n + 1 \in 1 .. n + 1
          BY <3>4
        <5> QED BY <3>4, <5>1 DEF ToSet
      <4> QED BY <4>1, <4>2, <4>3
    <3> QED BY <2>2, <3>5 DEF t
  <2>4. e \notin stored
    BY <1>4 DEF JournalInv, EventsApart
  <2> QED BY <1>1, <1>6, <2>3, <2>4 DEF LogFits
<1>7. ASSUME finish' # "over" => finish # "over" /\ UNCHANGED saved PROVE Late'
  BY <1>7 DEF LogFits
<1>8. CASE PutInThread
  <2>1. Apart'
    BY <1>6, <1>8, JournalAssumption, <1>4
       DEF PutInThread, PutEvent, storeVars, JournalInv, JournalTypeOK
  <2> QED BY <1>7, <1>8, <2>1 DEF PutInThread, finishVars, LogFits
<1>9. ASSUME NEW always \in BOOLEAN, PutOnLoop(always) PROVE LogFits'
  <2>1. Late'
    BY <1>7, <1>9 DEF PutOnLoop, finishVars
  <2>2. CASE swap' = "take" /\ seen' = Len(buffered) + 1
    <3>1. Len(buffered') = Len(buffered) + 1
      <4>1. emitted + 1 \in 1 .. MaxEvents /\ buffered' = Append(buffered, emitted + 1)
        BY <1>4, <1>9, JournalAssumption DEF PutOnLoop, PutEvent
      <4> QED BY <1>4, <4>1 DEF Batches
    <3> QED BY <1>4, <1>5, <2>1, <2>2, <3>1 DEF LogFits
  <2>3. CASE UNCHANGED <<swap, seen>>
    <3>1. Apart'
      BY <1>2, <1>9, <2>3 DEF PutOnLoop
    <3> QED BY <2>1, <3>1 DEF LogFits
  <2> QED BY <1>9, <2>2, <2>3 DEF PutOnLoop
<1>10. CASE Response \/ OtherEvent
  BY <1>8, <1>9, <1>10 DEF Response, OtherEvent
<1>11. ASSUME NEW i \in LlmRuns, NEW c \in Callers, ExternalUsage(i, c) PROVE LogFits'
  BY <1>3, <1>7, <1>11 DEF ExternalUsage, bufferVars, storeVars, finishVars, LogFits
<1>12. CASE ClearBuffer \/ ReturnBatch
  BY <1>2, <1>7, <1>12 DEF ClearBuffer, ReturnBatch, finishVars, LogFits
<1>13. CASE FlushTaskDone \/ BatchStored \/ CancelFinish
  BY <1>2, <1>7, <1>13 DEF FlushTaskDone, BatchStored, CancelFinish, finishVars, LogFits
<1>14. CASE FlushTaskFails \/ BatchFails
  BY <1>4, <1>5, <1>7, <1>14 DEF FlushTaskFails, BatchFails, finishVars, LogFits
<1>15. CASE TakeBatch
  <2>1. Late'
    BY <1>7, <1>15 DEF TakeBatch, finishVars
  <2>2. /\ buffered' = buffered /\ stored' = stored /\ seen' = InBatch /\ swap' = "cut"
        /\ InBatch \in 0 .. Len(buffered)
    BY <1>15, JournalAssumption
       DEF TakeBatch, InBatch, storeVars, JournalInv, JournalTypeOK, Batches
  <2>3. CASE InBatch = FlushThreshold
    <3>1. Apart'
      BY <2>2, <2>3
    <3> QED BY <2>1, <3>1 DEF LogFits
  <2>4. CASE InBatch # FlushThreshold
    <3>1. seen' = Len(buffered')
      BY <2>2, <2>4 DEF InBatch
    <3> QED BY <1>4, <1>5, <2>1, <3>1 DEF LogFits
  <2> QED BY <2>3, <2>4
<1>18. CASE DeleteBatch
  <2>1. finish = "look" /\ finish' = "put" /\ UNCHANGED saved /\ swap' = "no"
    BY <1>18 DEF DeleteBatch, JournalInv, Steps
  <2>2. Late'
    BY <1>7, <2>1
  <2> QED BY <1>2, <2>1, <2>2 DEF LogFits
<1>16. CASE Finalize \/ Gathered \/ Flushed \/ SaveCompletion
  BY <1>3, <1>7, <1>16 DEF Finalize, Gathered, Flushed, SaveCompletion, bufferVars, storeVars, LogFits
<1>17. CASE UNCHANGED journalVars
  BY <1>3, <1>7, <1>17 DEF journalVars, bufferVars, storeVars, finishVars, LogFits
<1> QED
  BY <1>10, <1>11, <1>12, <1>13, <1>14, <1>15, <1>16, <1>17, <1>18 DEF JournalNext

\* Every step of the journal is one of its log, or none.
LEMMA JournalRefines ==
  ASSUME JournalInv, JournalInv', LogFits, [JournalNext]_journalVars
  PROVE  [Log!Next]_(Log!logVars)
<1>1. CASE Response \/ OtherEvent
  <2>1. PutInThread \/ PutOnLoop(TRUE) \/ PutOnLoop(FALSE)
    BY <1>1 DEF Response, OtherEvent
  <2> QED BY <2>1, CallbackRefines
<1>2. ASSUME NEW i \in LlmRuns, NEW c \in Callers, ExternalUsage(i, c)
      PROVE  UNCHANGED Log!logVars
  BY <1>2, StillInLog DEF ExternalUsage, bufferVars, finishVars, Line, LogFrame
<1>3. CASE ClearBuffer \/ ReturnBatch
  BY <1>3, SwapRefines
<1>4. CASE FlushTaskDone \/ FlushTaskFails
  BY <1>4, FlushTaskRefines
<1>5. CASE TakeBatch \/ DeleteBatch \/ BatchStored \/ BatchFails
  BY <1>5, BatchRefines
<1>6. CASE Finalize \/ Gathered \/ Flushed \/ SaveCompletion
  BY <1>6, EndRefines
<1>7. CASE CancelFinish
  BY <1>7, CancelRefines
<1>8. CASE UNCHANGED journalVars
  BY <1>8, StillInLog DEF journalVars, bufferVars, finishVars, Line, LogFrame
<1> QED
  BY <1>1, <1>2, <1>3, <1>4, <1>5, <1>6, <1>7, <1>8 DEF JournalNext

\* Flushes that fail, overlap and are cancelled keep the events of a run in one line.
THEOREM JournalKeepsTheLine == JournalSpec => JournalIsALog
<1>1. JournalInit => LogFits /\ Log!Init
  <2> SUFFICES ASSUME JournalInit PROVE LogFits /\ Log!Init
    OBVIOUS
  <2>1. LogFits
    BY DEF JournalInit, LogFits
  <2>2. JournalInv
    BY JournalInitially
  <2>3. Line = <<>> /\ Gone = {} /\ mishap["late"] = {}
    BY <2>2, LineIs DEF JournalInit, Gone, Mishaps
  <2>4. (finish = "save") = FALSE
    BY DEF JournalInit
  <2> QED BY <2>1, <2>3, <2>4 DEF JournalInit, Log!Init
<1>2. JournalInv /\ JournalInv' /\ LogFits /\ [JournalNext]_journalVars => LogFits'
  BY FitsKeep
<1>3. JournalInv /\ JournalInv' /\ LogFits /\ [JournalNext]_journalVars => [Log!Next]_(Log!logVars)
  BY JournalRefines
<1> QED
  BY <1>1, <1>2, <1>3, JournalInitially, JournalKeeps, PTL DEF JournalSpec, Log!Spec, JournalIsALog

Rising(s) == \A i, j \in DOMAIN s : i < j => s[i] < s[j]

\* Of a rising line, whatever is at the head is before whatever is not.
LEMMA RisingCut ==
  ASSUME NEW s \in Batches, Rising(s), NEW n \in 0 .. Len(s)
  PROVE  /\ Rising(LineTo(s, n)) /\ Rising(LineFrom(s, n))
         /\ LineTo(s, n) \in Batches /\ LineFrom(s, n) \in Batches
         /\ ToSet(s) = ToSet(LineTo(s, n)) \cup ToSet(LineFrom(s, n))
         /\ \A x \in ToSet(LineTo(s, n)), y \in ToSet(LineFrom(s, n)) : x < y
<1> DEFINE a == LineTo(s, n)  b == LineFrom(s, n)  m == Len(s)
<1>1. m \in Nat /\ n \in 0 .. m /\ DOMAIN s = 1 .. m
  BY DEF Batches
<1>2. /\ a \in Batches /\ Len(a) = n /\ \A i \in 1 .. n : a[i] = s[i]
      /\ b \in Batches /\ Len(b) = m - n /\ \A i \in 1 .. m - n : b[i] = s[n + i]
  BY PiecesOf
<1>3. DOMAIN a = 1 .. n /\ DOMAIN b = 1 .. m - n
  BY <1>2 DEF Batches
<1> HIDE DEF a, b, m
<1>4. \A i \in 1 .. n : i \in 1 .. m
  BY <1>1
<1>5. \A i \in 1 .. m - n : n + i \in 1 .. m
  BY <1>1
<1>6. Rising(a)
  BY <1>1, <1>2, <1>3, <1>4 DEF Rising
<1>7. Rising(b)
  <2>1. ASSUME NEW i \in 1 .. m - n, NEW j \in 1 .. m - n, i < j PROVE b[i] < b[j]
    <3>1. n + i < n + j
      BY <1>1, <2>1
    <3>2. s[n + i] < s[n + j]
      BY <1>1, <1>5, <3>1 DEF Rising
    <3> QED BY <1>2, <3>2
  <2> QED BY <1>3, <2>1 DEF Rising
<1>8. ASSUME NEW x \in ToSet(a), NEW y \in ToSet(b) PROVE x < y
  <2>1. PICK i \in 1 .. n : x = a[i]
    BY <1>3, <1>8 DEF ToSet
  <2>2. PICK j \in 1 .. m - n : y = b[j]
    BY <1>3, <1>8 DEF ToSet
  <2>3. i < n + j /\ i \in 1 .. m /\ n + j \in 1 .. m
    BY <1>1, <1>4, <1>5, <2>1, <2>2
  <2>4. s[i] < s[n + j]
    BY <1>1, <2>3 DEF Rising
  <2> QED BY <1>2, <2>1, <2>2, <2>4
<1>9. ToSet(s) = ToSet(a) \cup ToSet(b)
  <2>1. ASSUME NEW x \in ToSet(s) PROVE x \in ToSet(a) \cup ToSet(b)
    <3>1. PICK i \in 1 .. m : x = s[i]
      BY <1>1, <2>1 DEF ToSet
    <3>2. CASE i <= n
      <4>1. i \in 1 .. n
        BY <1>1, <3>2
      <4> QED BY <1>2, <1>3, <3>1, <4>1 DEF ToSet
    <3>3. CASE i > n
      <4>1. i - n \in 1 .. m - n /\ n + (i - n) = i
        BY <1>1, <3>3
      <4>2. b[i - n] = s[i]
        BY <1>2, <4>1
      <4> QED BY <1>3, <3>1, <4>1, <4>2 DEF ToSet
    <3> QED BY <1>1, <3>2, <3>3
  <2>2. ASSUME NEW x \in ToSet(a) PROVE x \in ToSet(s)
    BY <1>1, <1>2, <1>3, <1>4, <2>2 DEF ToSet
  <2>3. ASSUME NEW x \in ToSet(b) PROVE x \in ToSet(s)
    <3>1. PICK i \in 1 .. m - n : x = b[i]
      BY <1>3, <2>3 DEF ToSet
    <3>2. n + i \in 1 .. m /\ x = s[n + i]
      BY <1>2, <1>5, <3>1
    <3> QED BY <1>1, <3>2 DEF ToSet
  <2> QED BY <2>1, <2>2, <2>3
<1> QED
  BY <1>2, <1>6, <1>7, <1>8, <1>9 DEF a, b

\* Two rising batches, the first before the second, are a rising one.
LEMMA RisingJoin ==
  ASSUME NEW h \in Batches, NEW b \in Batches, Rising(h), Rising(b),
         \A x \in ToSet(h), y \in ToSet(b) : x < y
  PROVE  /\ h \o b \in Batches /\ Rising(h \o b) /\ ToSet(h \o b) = ToSet(h) \cup ToSet(b)
<1> DEFINE u == h \o b  m == Len(h)  k == Len(b)
<1>1. /\ u \in Batches /\ Len(u) = m + k /\ m \in Nat /\ k \in Nat
      /\ \A i \in 1 .. m : u[i] = h[i]
      /\ \A i \in 1 .. k : u[m + i] = b[i]
  BY InLine
<1>2. DOMAIN u = 1 .. (m + k) /\ DOMAIN h = 1 .. m /\ DOMAIN b = 1 .. k
  BY <1>1 DEF Batches
<1>3. \A i \in 1 .. m : h[i] \in ToSet(h)
  BY <1>2 DEF ToSet
<1>4. \A i \in 1 .. k : b[i] \in ToSet(b)
  BY <1>2 DEF ToSet
<1> HIDE DEF u, m, k
<1>5. ASSUME NEW i \in 1 .. (m + k), i \notin 1 .. m
      PROVE  i - m \in 1 .. k /\ m + (i - m) = i /\ u[i] = b[i - m] /\ i > m
  <2>1. i - m \in 1 .. k /\ m + (i - m) = i /\ i > m
    BY <1>1, <1>5
  <2> QED BY <1>1, <2>1
<1>6. ASSUME NEW i \in 1 .. (m + k), NEW j \in 1 .. (m + k), i < j PROVE u[i] < u[j]
  <2>1. CASE i \in 1 .. m /\ j \in 1 .. m
    BY <1>1, <1>2, <1>6, <2>1 DEF Rising
  <2>2. CASE i \in 1 .. m /\ j \notin 1 .. m
    <3>1. u[j] \in ToSet(b) /\ u[i] \in ToSet(h)
      BY <1>1, <1>3, <1>4, <1>5, <2>2
    <3> QED BY <3>1
  <2>3. CASE i \notin 1 .. m /\ j \notin 1 .. m
    <3>1. i - m < j - m
      BY <1>1, <1>6
    <3>2. b[i - m] < b[j - m]
      BY <1>2, <1>5, <2>3, <3>1 DEF Rising
    <3> QED BY <1>5, <2>3, <3>2
  <2>4. CASE i \notin 1 .. m /\ j \in 1 .. m
    <3>1. i > m /\ j <= m
      BY <1>5, <2>4
    <3> QED BY <1>1, <1>6, <3>1
  <2> QED BY <2>1, <2>2, <2>3, <2>4
<1>7. Rising(u)
  BY <1>2, <1>6 DEF Rising
<1>8. ToSet(u) = ToSet(h) \cup ToSet(b)
  <2>1. ASSUME NEW x \in ToSet(u) PROVE x \in ToSet(h) \cup ToSet(b)
    <3>1. PICK i \in 1 .. (m + k) : x = u[i]
      BY <1>2, <2>1 DEF ToSet
    <3> QED BY <1>1, <1>3, <1>4, <1>5, <3>1
  <2>2. ASSUME NEW x \in ToSet(h) PROVE x \in ToSet(u)
    <3>1. PICK i \in 1 .. m : x = h[i]
      BY <1>2, <2>2 DEF ToSet
    <3>2. i \in 1 .. (m + k)
      BY <1>1
    <3> QED BY <1>1, <1>2, <3>1, <3>2 DEF ToSet
  <2>3. ASSUME NEW x \in ToSet(b) PROVE x \in ToSet(u)
    <3>1. PICK i \in 1 .. k : x = b[i]
      BY <1>2, <2>3 DEF ToSet
    <3>2. m + i \in 1 .. (m + k) /\ u[m + i] = b[i]
      BY <1>1
    <3> QED BY <1>2, <3>1, <3>2 DEF ToSet
  <2> QED BY <2>1, <2>2, <2>3
<1> QED
  BY <1>1, <1>7, <1>8 DEF u

\* The events of the line, in both vocabularies.
LEMMA InIs == ASSUME NEW s PROVE Log!In(s) = ToSet(s)
  BY DEF Log!In, ToSet

\* The line of the journal's log: events in the order they were put, and of those with
\* a row none that is out of the line is newer than one that is in it.
LogInv ==
    /\ Line \in Batches /\ Rising(Line)
    /\ ToSet(Line) \subseteq 1 .. emitted /\ stored \subseteq 1 .. emitted /\ emitted \in Nat
    /\ \A r \in stored \ ToSet(Line), w \in ToSet(Line) : r < w

\* A step of the log whose line and rows are still of events keeps its order.
LEMMA LogKeeps ==
  ASSUME LogInv, [Log!Next]_(Log!logVars), emitted' \in 0 .. MaxEvents PROVE LogInv'
<1> DEFINE W == ToSet(Line)  S == stored  n0 == Len(Line)
<1>1. /\ Line \in Batches /\ Rising(Line) /\ W \subseteq 1 .. emitted /\ S \subseteq 1 .. emitted
      /\ emitted \in Nat /\ n0 \in Nat
      /\ \A r \in S \ W, w \in W : r < w
  BY DEF LogInv, Batches
<1>2. ASSUME NEW n \in 0 .. Len(Line)
      PROVE  /\ LineTo(Line, n) \in Batches /\ LineFrom(Line, n) \in Batches
             /\ Rising(LineTo(Line, n)) /\ Rising(LineFrom(Line, n))
             /\ W = ToSet(LineTo(Line, n)) \cup ToSet(LineFrom(Line, n))
             /\ \A x \in ToSet(LineTo(Line, n)), y \in ToSet(LineFrom(Line, n)) : x < y
  BY <1>1, RisingCut
<1>3. CASE Log!Put
  <2> DEFINE e == emitted + 1
  <2>1. emitted' = e /\ Line' = Append(Line, e) /\ stored' = S /\ e \in 1 .. MaxEvents
    BY <1>1, <1>3, JournalAssumption DEF Log!Put
  <2>2. /\ Line' \in Batches /\ Len(Line') = n0 + 1 /\ Line'[n0 + 1] = e
        /\ \A i \in 1 .. n0 : Line'[i] = Line[i]
    <3>1. Line \in Seq(1 .. MaxEvents)
      BY <1>1 DEF Batches
    <3> HIDE DEF e
    <3> QED BY <2>1, <3>1, AppendProperties DEF Batches
  <2>3. DOMAIN Line = 1 .. n0 /\ DOMAIN Line' = 1 .. n0 + 1
    BY <1>1, <2>2 DEF Batches
  <2>4. \A x \in W : x < e
    BY <1>1
  <2> HIDE DEF n0
  <2>5. \A i \in 1 .. n0 + 1 : i \in 1 .. n0 \/ i = n0 + 1
    BY <1>1
  <2>6. \A i \in 1 .. n0 : Line[i] \in W
    BY <2>3 DEF ToSet
  <2>7. Rising(Line')
    <3>1. ASSUME NEW i \in 1 .. n0 + 1, NEW j \in 1 .. n0 + 1, i < j PROVE Line'[i] < Line'[j]
      <4>1. i \in 1 .. n0
        BY <1>1, <3>1
      <4>2. CASE j \in 1 .. n0
        BY <1>1, <2>2, <2>3, <3>1, <4>1, <4>2 DEF Rising
      <4>3. CASE j = n0 + 1
        <5>1. Line'[j] = e /\ Line'[i] = Line[i] /\ Line[i] < e
          BY <2>2, <2>4, <2>6, <4>1, <4>3
        <5> QED BY <5>1
      <4> QED BY <2>5, <4>2, <4>3
    <3> QED BY <2>3, <3>1 DEF Rising
  <2>8. ToSet(Line') = W \cup {e}
    <3>1. ASSUME NEW x \in ToSet(Line') PROVE x \in W \cup {e}
      <4>1. PICK i \in 1 .. n0 + 1 : x = Line'[i]
        BY <2>3, <3>1 DEF ToSet
      <4> QED BY <2>2, <2>5, <2>6, <4>1
    <3>2. ASSUME NEW x \in W PROVE x \in ToSet(Line')
      <4>1. PICK i \in 1 .. n0 : x = Line[i]
        BY <2>3, <3>2 DEF ToSet
      <4>2. i \in 1 .. n0 + 1
        BY <1>1
      <4> QED BY <2>2, <2>3, <4>1, <4>2 DEF ToSet
    <3>3. e \in ToSet(Line')
      <4>1. n0 + 1 \in 1 .. n0 + 1
        BY <1>1
      <4> QED BY <2>2, <2>3, <4>1 DEF ToSet
    <3> QED BY <3>1, <3>2, <3>3
  <2>9. ASSUME NEW r \in stored' \ ToSet(Line'), NEW w \in ToSet(Line') PROVE r < w
    <3>1. r \in S \ W /\ (w \in W \/ w = e)
      BY <2>1, <2>8
    <3> QED BY <1>1, <3>1
  <2>10. /\ ToSet(Line') \subseteq 1 .. emitted' /\ stored' \subseteq 1 .. emitted' /\ emitted' \in Nat
    BY <1>1, <2>1, <2>8
  <2> QED BY <2>2, <2>7, <2>9, <2>10 DEF LogInv
<1>4. ASSUME NEW n \in 0 .. Len(Line), Log!Commit(n) PROVE LogInv'
  <2> DEFINE h == LineTo(Line, n)  b == LineFrom(Line, n)
  <2>1. Line' = b /\ stored' = S \cup ToSet(h) /\ emitted' = emitted
    BY <1>4, InIs DEF Log!Commit, Log!StoreFirst, Log!FirstOf, Log!WithoutFirst, Log!Behind, LineTo, LineFrom
  <2>2. /\ b \in Batches /\ Rising(b) /\ W = ToSet(h) \cup ToSet(b)
        /\ \A x \in ToSet(h), y \in ToSet(b) : x < y
    BY <1>2
  <2> HIDE DEF h, b, W
  <2>3. ASSUME NEW r \in stored' \ ToSet(Line'), NEW w \in ToSet(Line') PROVE r < w
    BY <1>1, <2>1, <2>2
  <2>4. ToSet(Line') \subseteq 1 .. emitted' /\ stored' \subseteq 1 .. emitted' /\ emitted' \in Nat
    BY <1>1, <2>1, <2>2
  <2> QED BY <2>1, <2>2, <2>3, <2>4 DEF LogInv
<1>5. ASSUME NEW n \in 0 .. Len(Line), Log!CommitUnnoticed(n) PROVE LogInv'
  <2> DEFINE h == LineTo(Line, n)  b == LineFrom(Line, n)
  <2>1. Line' = Line /\ stored' = S \cup ToSet(h) /\ emitted' = emitted
    BY <1>5, InIs DEF Log!CommitUnnoticed, Log!StoreFirst, Log!FirstOf, LineTo
  <2>2. W = ToSet(h) \cup ToSet(b)
    BY <1>2
  <2>3. ToSet(Line') = W
    BY <2>1
  <2> HIDE DEF h, b, W
  <2>4. ASSUME NEW r \in stored' \ ToSet(Line'), NEW w \in ToSet(Line') PROVE r < w
    BY <1>1, <2>1, <2>2, <2>3
  <2>5. ToSet(Line') \subseteq 1 .. emitted' /\ stored' \subseteq 1 .. emitted' /\ emitted' \in Nat
    BY <1>1, <2>1, <2>2, <2>3
  <2> QED BY <1>1, <2>1, <2>4, <2>5 DEF LogInv
<1>6. ASSUME NEW n \in 0 .. Len(Line), Log!LoseFirst(n) PROVE LogInv'
  <2> DEFINE h == LineTo(Line, n)  b == LineFrom(Line, n)
  <2>1. Line' = b /\ stored' = S /\ emitted' = emitted
    BY <1>6 DEF Log!LoseFirst, Log!WithoutFirst, Log!Behind, LineFrom
  <2>2. /\ b \in Batches /\ Rising(b) /\ W = ToSet(h) \cup ToSet(b)
        /\ \A x \in ToSet(h), y \in ToSet(b) : x < y
    BY <1>2
  <2> HIDE DEF h, b, W
  <2>3. ASSUME NEW r \in stored' \ ToSet(Line'), NEW w \in ToSet(Line') PROVE r < w
    BY <1>1, <2>1, <2>2
  <2>4. ToSet(Line') \subseteq 1 .. emitted' /\ stored' \subseteq 1 .. emitted' /\ emitted' \in Nat
    BY <1>1, <2>1, <2>2
  <2> QED BY <2>1, <2>2, <2>3, <2>4 DEF LogInv
<1>7. ASSUME NEW n \in 0 .. Len(Line), NEW k \in 0 .. Len(Log!Behind(n)), Log!LoseBehind(n, k)
      PROVE  LogInv'
  <2> DEFINE h == LineTo(Line, n)  b == LineFrom(Line, n)  p == LineTo(b, k)  q == LineFrom(b, k)
  <2>1. Log!Behind(n) = b
    BY DEF Log!Behind, LineFrom
  <2>2. /\ h \in Batches /\ b \in Batches /\ Rising(h) /\ Rising(b) /\ W = ToSet(h) \cup ToSet(b)
        /\ \A x \in ToSet(h), y \in ToSet(b) : x < y
    BY <1>2
  <2>3. Line' = h \o q /\ stored' = S /\ emitted' = emitted /\ ToSet(p) \cap S = {}
    BY <1>7, <2>1, InIs DEF Log!LoseBehind, LineTo, LineFrom
  <2> HIDE DEF h, b, W
  <2>4. /\ q \in Batches /\ Rising(q) /\ ToSet(b) = ToSet(p) \cup ToSet(q)
    BY <1>7, <2>1, <2>2, RisingCut
  <2> HIDE DEF p, q
  <2>5. /\ h \o q \in Batches /\ Rising(h \o q) /\ ToSet(h \o q) = ToSet(h) \cup ToSet(q)
    BY <2>2, <2>4, RisingJoin
  <2>6. ASSUME NEW r \in stored' \ ToSet(Line'), NEW w \in ToSet(Line') PROVE r < w
    BY <1>1, <2>2, <2>3, <2>4, <2>5
  <2>7. ToSet(Line') \subseteq 1 .. emitted' /\ stored' \subseteq 1 .. emitted' /\ emitted' \in Nat
    BY <1>1, <2>2, <2>3, <2>4, <2>5
  <2> QED BY <2>3, <2>5, <2>6, <2>7 DEF LogInv
<1>8. CASE Log!Close \/ Log!Save \/ UNCHANGED Log!logVars
  <2>1. UNCHANGED <<Line, stored, emitted>>
    BY <1>8 DEF Log!Close, Log!Save, Log!logVars
  <2> QED BY <2>1 DEF LogInv
<1> QED
  BY <1>3, <1>4, <1>5, <1>6, <1>7, <1>8 DEF Log!Next

\* Of the events of a run the oldest are stored first.
THEOREM OldestEventsAreStored == JournalSpec => []Log!OldestFirst
<1>1. JournalInit => LogInv
  <2> SUFFICES ASSUME JournalInit PROVE LogInv
    OBVIOUS
  <2>1. JournalInv /\ Line = <<>>
    BY JournalInitially, LineIs DEF JournalInit
  <2> QED BY <2>1, NoEvents DEF LogInv, Rising, JournalInit
<1>2. JournalInv' /\ LogInv /\ [Log!Next]_(Log!logVars) => LogInv'
  BY LogKeeps DEF JournalInv, JournalTypeOK
<1>3. LogInv => Log!OldestFirst
  BY InIs DEF LogInv, Log!OldestFirst, Log!Waiting
<1> QED
  BY <1>1, <1>2, <1>3, JournalInitially, JournalKeeps, JournalKeepsTheLine, PTL
     DEF JournalSpec, JournalIsALog, Log!Spec

\* However flushes fail and overlap, every event of a run is in a row, on its way,
\* or in one of the two named gaps, and a summary is saved over complete rows.
THEOREM EventsAreStored == JournalSpec => []RunsAreStored
<1>1. JournalInv /\ Log!OldestFirst => RunsAreStored
  BY DEF JournalInv, DueIsStored, RunsAreStored, CompletionAfterEvents
<1> QED
  BY <1>1, JournalInitially, JournalKeeps, OldestEventsAreStored, PTL DEF JournalSpec

-----------------------------------------------------------------------------
(***************************************************************************)
(* The containers. The property is about each container that runs; the     *)
(* invariant is about each call, by the step it is at: who is past the     *)
(* lock has it; what it has made runs, or was dropped meanwhile; and what  *)
(* it is about to replace has an excuse. A step with the sandbox of one    *)
(* thread in one process is a Frame, which disturbs no other call; a       *)
(* release, a sweep and the end of a process only make calls forget, which *)
(* Loosens says.                                                           *)
(***************************************************************************)

\* g is f but for v at p and t.
At(f, g, p, t, v) ==
    \A q \in Procs, u \in SandboxThreads : g[q][u] = IF q = p /\ u = t THEN v ELSE f[q][u]

\* And f[t] is v.
On(f, g, t, v) == \A u \in SandboxThreads : g[u] = IF u = t THEN v ELSE f[u]

Holding == {"load", "create", "ready", "adopt", "save"}
AtIt == {"ready", "adopt", "save"}

\* What holds of the call of t in p: who acquires has the lock; what it has found or made
\* runs or has been dropped; what runs when it is about to create has a reason to be
\* replaced; and what it uses has a reason to be stale.
CallFits(p, t) ==
    /\ call[p][t] \in Holding => flock[t] = p
    /\ fresh[p][t] => call[p][t] \in AtIt
    /\ call[p][t] \in {"ready", "save"} => fresh[p][t]
    /\ call[p][t] \in AtIt \cup {"use"} => found[p][t] # 0
    /\ call[p][t] \in AtIt =>
          running[t] = found[p][t] \/ (running[t] = 0 /\ found[p][t] \in dropped)
    /\ call[p][t] = "create" => ~record[t] /\ running[t] \in {0} \cup dropped \cup unrecorded
    /\ cache[p][t] \in {0, running[t]} \cup dropped \cup unrecorded
    /\ call[p][t] = "use" => found[p][t] \in {0, running[t]} \cup dropped \cup unrecorded

\* NoneForgotten; a release covers a container only when its file is removed.
Covered(t) ==
    running[t] # 0 =>
        \/ record[t]
        \/ running[t] \in unrecorded
        \/ \E p \in Procs : fresh[p][t] /\ found[p][t] = running[t]
        \/ \E r \in releases : r.thread = t /\ r.step = "destroy" /\ r.container = running[t]

\* What a process releases counts as dropped.
ReleaseFits == \A r \in releases : r.step # "chosen" => r.container \in dropped

\* A container is known under one thread only.
Known(t, c) == c = running[t] \/ \E p \in Procs : c = cache[p][t] \/ c = found[p][t]
Apart == \A t \in SandboxThreads : \A c \in Containers : Known(t, c) =>
    c <= born /\ \A u \in SandboxThreads : Known(u, c) => u = t

SandboxInv ==
    /\ SandboxTypeOK
    /\ \A p \in Procs, t \in SandboxThreads : CallFits(p, t)
    /\ \A t \in SandboxThreads : Covered(t)
    /\ ReleaseFits /\ Apart

\* What a step of p with the sandbox of t may change.
Frame(p, t) ==
    /\ \A q \in Procs, u \in SandboxThreads : q # p \/ u # t =>
          /\ cache'[q][u] = cache[q][u] /\ call'[q][u] = call[q][u]
          /\ found'[q][u] = found[q][u] /\ fresh'[q][u] = fresh[q][u]
    /\ \A u \in SandboxThreads : u # t =>
          running'[u] = running[u] /\ record'[u] = record[u] /\ flock'[u] = flock[u]
    /\ flock'[t] # flock[t] => flock[t] \in {NoProc, p}
    /\ running'[t] # running[t] =>
          flock[t] = p /\ running[t] \in {0} \cup dropped' \cup unrecorded'
    /\ record'[t] # record[t] => flock[t] = p
    /\ dropped \subseteq dropped'
    /\ \A c \in unrecorded : c \notin unrecorded' =>
          flock[t] = p /\ Known(t, c) /\ c \in {running'[t]} \cup dropped'
    /\ born <= born' /\ releases' = releases
    /\ \A c \in Containers : Known(t, c)' => Known(t, c) \/ (born < c /\ c <= born')

\* An update of one sandbox in one process.
LEMMA PutAt == ASSUME NEW S, NEW f \in PerThread(S), NEW p \in Procs, NEW t \in SandboxThreads, NEW v \in S
               PROVE  [f EXCEPT ![p][t] = v] \in PerThread(S) /\ At(f, [f EXCEPT ![p][t] = v], p, t, v)
  BY DEF PerThread, At

\* Containers are numbered as they are made.
LEMMA ContainersAreNumbers == SandboxTypeOK => born \in Nat /\ MaxContainers \in Nat /\ Containers \subseteq Nat
  BY SandboxAssumption DEF SandboxTypeOK, Containers

\* A step of p with the sandbox of t disturbs no other sandbox.
LEMMA FrameKeeps == ASSUME SandboxInv, NEW p \in Procs, NEW t \in SandboxThreads, Frame(p, t),
                           SandboxTypeOK', CallFits(p, t)', Covered(t)'
                    PROVE  SandboxInv'
<1>n. /\ born \in Nat /\ born' \in Nat /\ Containers \subseteq Nat
      /\ unrecorded \subseteq Containers /\ NoProc \notin Procs
  BY ContainersAreNumbers, SandboxAssumption DEF SandboxInv, SandboxTypeOK
<1>1. ASSUME NEW q \in Procs, NEW u \in SandboxThreads, q # p \/ u # t PROVE CallFits(q, u)'
  <2>1. CallFits(q, u) /\ CallFits(p, t)
    BY DEF SandboxInv
  <2>2. /\ cache'[q][u] = cache[q][u] /\ call'[q][u] = call[q][u]
        /\ found'[q][u] = found[q][u] /\ fresh'[q][u] = fresh[q][u]
    BY <1>1 DEF Frame
  <2>3. ASSUME NEW c \in unrecorded, c \notin unrecorded', Known(u, c)
        PROVE  u = t /\ flock[t] = p /\ c \in {running'[t]} \cup dropped'
    BY <2>3, <1>n DEF SandboxInv, Frame, Apart
  <2>4. Known(u, running[u]) /\ Known(u, cache[q][u]) /\ Known(u, found[q][u])
    BY DEF Known
  <2>5. CASE u # t
    <3>1. running'[u] = running[u] /\ record'[u] = record[u] /\ flock'[u] = flock[u] /\ dropped \subseteq dropped'
      BY <2>5 DEF Frame
    <3> QED
      BY <2>1, <2>2, <2>3, <2>4, <2>5, <3>1 DEF CallFits
  <2>6. CASE u = t
    <3>1. q # p
      BY <1>1, <2>6
    <3>2. call[q][u] \in Holding => flock[t] = q /\ flock'[t] = q /\ running'[t] = running[t] /\ record'[t] = record[t]
      BY <1>n, <2>1, <2>6, <3>1 DEF Frame, CallFits
    <3>3. /\ dropped \subseteq dropped'
          /\ running'[t] # running[t] => running[t] \in {0} \cup dropped' \cup unrecorded'
      BY DEF Frame
    <3>4. ASSUME NEW c, c \in {0, running[t]} \cup dropped \cup unrecorded, Known(t, c)
          PROVE  c \in {0, running'[t]} \cup dropped' \cup unrecorded'
      BY <2>3, <2>6, <3>3, <3>4
    <3>5. call[q][u] = "create" /\ running[t] \in unrecorded => running[t] \in unrecorded'
      BY <2>3, <2>4, <2>6, <3>1, <3>2 DEF Holding
    <3> QED
      BY <2>1, <2>2, <2>4, <2>6, <3>2, <3>3, <3>4, <3>5 DEF CallFits, Holding, AtIt
  <2> QED
    BY <2>5, <2>6
<1>2. ASSUME NEW u \in SandboxThreads, u # t PROVE Covered(u)'
  <2>1. Covered(u)
    BY DEF SandboxInv
  <2>2. running[u] \in unrecorded => running[u] \in unrecorded'
    BY <1>2, <1>n DEF SandboxInv, Frame, Apart, Known
  <2> QED
    BY <1>2, <2>1, <2>2 DEF Covered, Frame
<1>3. ReleaseFits'
  BY DEF SandboxInv, ReleaseFits, Frame
<1>4. Apart'
  <2>1. ASSUME NEW u \in SandboxThreads, NEW c \in Containers, Known(u, c)'
        PROVE  Known(u, c) \/ (u = t /\ born < c /\ c <= born')
    BY <2>1 DEF Known, Frame
  <2>2. Apart /\ born <= born'
    BY DEF SandboxInv, Frame
  <2>3. ASSUME NEW u \in SandboxThreads, NEW c \in Containers, Known(u, c)'
        PROVE  c <= born' /\ \A w \in SandboxThreads : Known(w, c)' => w = u
    <3>1. c \in Nat
      BY <1>n
    <3>2. c <= born'
      BY <1>n, <2>1, <2>2, <2>3, <3>1 DEF Apart
    <3>3. ASSUME NEW w \in SandboxThreads, Known(w, c)' PROVE w = u
      <4>1. Known(u, c) \/ (u = t /\ born < c)
        BY <2>1, <2>3
      <4>2. Known(w, c) \/ (w = t /\ born < c)
        BY <2>1, <3>3
      <4>3. born < c => ~(c <= born)
        BY <1>n, <3>1
      <4> QED
        BY <2>2, <4>1, <4>2, <4>3 DEF Apart
    <3> QED
      BY <3>2, <3>3
  <2> QED
    BY <2>3 DEF Apart
<1> QED
  BY <1>1, <1>2, <1>3, <1>4 DEF SandboxInv

\* Who holds the lock and has found no record of what runs has a reason for it.
LEMMA Unnoticed == ASSUME SandboxInv, NEW p \in Procs, NEW t \in SandboxThreads,
                          call[p][t] \in Holding \ AtIt, ~record[t]
                   PROVE  running[t] \in {0} \cup dropped \cup unrecorded
<1>1. Covered(t) /\ ReleaseFits /\ NoProc \notin Procs /\ \A q \in Procs : CallFits(q, t)
  BY SandboxAssumption DEF SandboxInv
<1>2. \A q \in Procs : ~fresh[q][t]
  BY <1>1 DEF CallFits, Holding, AtIt
<1> QED
  BY <1>1, <1>2 DEF Covered, ReleaseFits

\* A sandbox is found in the cache of its process.
LEMMA CallCachedKeeps == ASSUME SandboxInv, NEW p \in Procs, NEW t \in SandboxThreads, CallCached(p, t)
                        PROVE  SandboxInv'
<1>1. SandboxTypeOK /\ CallFits(p, t) /\ Covered(t) /\ born \in Nat /\ NoProc \notin Procs
  BY ContainersAreNumbers, SandboxAssumption DEF SandboxInv
<1>2. up[p] /\ call[p][t] = "no" /\ cache[p][t] # 0
  BY <1>1 DEF CallCached
<1>3. call' \in PerThread(CallPoints) /\ At(call, call', p, t, "use")
  <2>1. "use" \in CallPoints /\ call \in PerThread(CallPoints)
    BY <1>1, <1>2, SandboxAssumption DEF SandboxTypeOK, PerThread, CallPoints
  <2>2. call' = [call EXCEPT ![p][t] = "use"]
    BY <1>1 DEF CallCached, Goto, SandboxTypeOK
  <2> QED
    BY <2>1, <2>2, PutAt
<1>4. found' \in PerThread(0 .. MaxContainers) /\ At(found, found', p, t, cache[p][t])
  <2>1. cache[p][t] \in 0 .. MaxContainers /\ found \in PerThread(0 .. MaxContainers)
    BY <1>1, <1>2, SandboxAssumption DEF SandboxTypeOK, PerThread, CallPoints
  <2>2. found' = [found EXCEPT ![p][t] = cache[p][t]]
    BY <1>1 DEF CallCached, Goto, SandboxTypeOK
  <2> QED
    BY <2>1, <2>2, PutAt
<1>5. /\ UNCHANGED <<backend, up, closing, cache, fresh, flock, releases, sweeps, running, record, born, faults, dropped, unrecorded>>
  BY <1>1, <1>2, SandboxAssumption DEF CallCached, On, CallFits, AtIt, SandboxTypeOK, callVars, processVars, hostVars, releaseVars, sandboxHistory
<1>6. SandboxTypeOK'
  BY <1>1, <1>2, <1>3, <1>4, <1>5, SandboxAssumption DEF SandboxTypeOK, CallFits, AtIt, Containers, PerThread
<1>7. Frame(p, t)
  <2>1. \A c \in Containers : Known(t, c)' => Known(t, c) \/ (born < c /\ c <= born')
    BY <1>1, <1>2, <1>3, <1>4, <1>5 DEF At, On, Known, Containers
  <2>2. dropped \subseteq dropped' /\ born <= born' /\ releases' = releases
    BY <1>1, <1>2, <1>3, <1>4, <1>5
  <2>3. Known(t, running[t]) /\ Known(t, found[p][t]) /\ (call[p][t] \in Holding => flock[t] = p)
    BY <1>1, <1>2, <1>3, <1>4, <1>5 DEF Known, CallFits
  <2> QED
    BY <1>1, <1>2, <1>3, <1>4, <1>5, <2>1, <2>2, <2>3 DEF Frame, At, On, Holding
<1>8. CallFits(p, t)'
  BY <1>1, <1>2, <1>3, <1>4, <1>5 DEF At, On, CallFits, Holding, AtIt
<1>9. Covered(t)'
  BY <1>1, <1>2, <1>3, <1>4, <1>5 DEF At, On, Covered, CallFits, Holding, AtIt
<1> QED
  BY <1>6, <1>7, <1>8, <1>9, FrameKeeps

\* A sandbox that is not cached is acquired under its lock.
LEMMA CallUncachedKeeps == ASSUME SandboxInv, NEW p \in Procs, NEW t \in SandboxThreads, CallUncached(p, t)
                          PROVE  SandboxInv'
<1>1. SandboxTypeOK /\ CallFits(p, t) /\ Covered(t) /\ born \in Nat /\ NoProc \notin Procs
  BY ContainersAreNumbers, SandboxAssumption DEF SandboxInv
<1>2. call[p][t] = "no"
  BY <1>1 DEF CallUncached
<1>3. call' \in PerThread(CallPoints) /\ At(call, call', p, t, "lock")
  <2>1. "lock" \in CallPoints /\ call \in PerThread(CallPoints)
    BY <1>1, <1>2, SandboxAssumption DEF SandboxTypeOK, PerThread, CallPoints
  <2>2. call' = [call EXCEPT ![p][t] = "lock"]
    BY <1>1 DEF CallUncached, Goto, SandboxTypeOK
  <2> QED
    BY <2>1, <2>2, PutAt
<1>4. /\ UNCHANGED <<backend, up, closing, cache, found, fresh, flock, releases, sweeps, running, record, born, faults, dropped, unrecorded>>
  BY <1>1, <1>2, SandboxAssumption DEF CallUncached, On, CallFits, AtIt, SandboxTypeOK, callVars, processVars, hostVars, releaseVars, sandboxHistory
<1>5. SandboxTypeOK'
  BY <1>1, <1>2, <1>3, <1>4, SandboxAssumption DEF SandboxTypeOK, CallFits, AtIt, Containers, PerThread
<1>6. Frame(p, t)
  <2>1. \A c \in Containers : Known(t, c)' => Known(t, c) \/ (born < c /\ c <= born')
    BY <1>1, <1>2, <1>3, <1>4 DEF At, On, Known, Containers
  <2>2. dropped \subseteq dropped' /\ born <= born' /\ releases' = releases
    BY <1>1, <1>2, <1>3, <1>4
  <2>3. Known(t, running[t]) /\ Known(t, found[p][t]) /\ (call[p][t] \in Holding => flock[t] = p)
    BY <1>1, <1>2, <1>3, <1>4 DEF Known, CallFits
  <2> QED
    BY <1>1, <1>2, <1>3, <1>4, <2>1, <2>2, <2>3 DEF Frame, At, On, Holding
<1>7. CallFits(p, t)'
  BY <1>1, <1>2, <1>3, <1>4 DEF At, On, CallFits, Holding, AtIt
<1>8. Covered(t)'
  BY <1>1, <1>2, <1>3, <1>4 DEF At, On, Covered, CallFits, Holding, AtIt
<1> QED
  BY <1>5, <1>6, <1>7, <1>8, FrameKeeps

\* The lock is taken when nobody has it.
LEMMA LockStateKeeps == ASSUME SandboxInv, NEW p \in Procs, NEW t \in SandboxThreads, LockState(p, t)
                       PROVE  SandboxInv'
<1>1. SandboxTypeOK /\ CallFits(p, t) /\ Covered(t) /\ born \in Nat /\ NoProc \notin Procs
  BY ContainersAreNumbers, SandboxAssumption DEF SandboxInv
<1>2. call[p][t] = "lock" /\ flock[t] = NoProc
  BY <1>1 DEF LockState, LockFile
<1>3. call' \in PerThread(CallPoints) /\ At(call, call', p, t, "load")
  <2>1. "load" \in CallPoints /\ call \in PerThread(CallPoints)
    BY <1>1, <1>2, SandboxAssumption DEF SandboxTypeOK, PerThread, CallPoints
  <2>2. call' = [call EXCEPT ![p][t] = "load"]
    BY <1>1 DEF LockState, LockFile, Goto, SandboxTypeOK
  <2> QED
    BY <2>1, <2>2, PutAt
<1>4. /\ UNCHANGED <<backend, up, closing, cache, found, fresh, releases, sweeps, running, record, born, faults, dropped, unrecorded>>
      /\ On(flock, flock', t, p)
      /\ flock' \in [SandboxThreads -> Procs \cup {NoProc}]
  BY <1>1, <1>2, SandboxAssumption DEF LockState, LockFile, On, CallFits, AtIt, SandboxTypeOK, callVars, processVars, hostVars, releaseVars, sandboxHistory
<1>5. SandboxTypeOK'
  BY <1>1, <1>2, <1>3, <1>4, SandboxAssumption DEF SandboxTypeOK, CallFits, AtIt, Containers, PerThread
<1>6. Frame(p, t)
  <2>1. \A c \in Containers : Known(t, c)' => Known(t, c) \/ (born < c /\ c <= born')
    BY <1>1, <1>2, <1>3, <1>4 DEF At, On, Known, Containers
  <2>2. dropped \subseteq dropped' /\ born <= born' /\ releases' = releases
    BY <1>1, <1>2, <1>3, <1>4
  <2>3. Known(t, running[t]) /\ Known(t, found[p][t]) /\ (call[p][t] \in Holding => flock[t] = p)
    BY <1>1, <1>2, <1>3, <1>4 DEF Known, CallFits
  <2> QED
    BY <1>1, <1>2, <1>3, <1>4, <2>1, <2>2, <2>3 DEF Frame, At, On, Holding
<1>7. CallFits(p, t)'
  BY <1>1, <1>2, <1>3, <1>4 DEF At, On, CallFits, Holding, AtIt
<1>8. Covered(t)'
  BY <1>1, <1>2, <1>3, <1>4 DEF At, On, Covered, CallFits, Holding, AtIt
<1> QED
  BY <1>5, <1>6, <1>7, <1>8, FrameKeeps

\* A container that is recorded is found again.
LEMMA DiscoveredKeeps == ASSUME SandboxInv, NEW p \in Procs, NEW t \in SandboxThreads, Discovered(p, t)
                        PROVE  SandboxInv'
<1>1. SandboxTypeOK /\ CallFits(p, t) /\ Covered(t) /\ born \in Nat /\ NoProc \notin Procs
  BY ContainersAreNumbers, SandboxAssumption DEF SandboxInv
<1>2. call[p][t] = "load" /\ record[t] /\ running[t] # 0
  BY <1>1 DEF Discovered, Alive
<1>3. call' \in PerThread(CallPoints) /\ At(call, call', p, t, "adopt")
  <2>1. "adopt" \in CallPoints /\ call \in PerThread(CallPoints)
    BY <1>1, <1>2, SandboxAssumption DEF SandboxTypeOK, PerThread, CallPoints
  <2>2. call' = [call EXCEPT ![p][t] = "adopt"]
    BY <1>1 DEF Discovered, Alive, Goto, SandboxTypeOK
  <2> QED
    BY <2>1, <2>2, PutAt
<1>4. found' \in PerThread(0 .. MaxContainers) /\ At(found, found', p, t, running[t])
  <2>1. running[t] \in 0 .. MaxContainers /\ found \in PerThread(0 .. MaxContainers)
    BY <1>1, <1>2, SandboxAssumption DEF SandboxTypeOK, PerThread, CallPoints
  <2>2. found' = [found EXCEPT ![p][t] = running[t]]
    BY <1>1 DEF Discovered, Alive, Goto, SandboxTypeOK
  <2> QED
    BY <2>1, <2>2, PutAt
<1>5. /\ UNCHANGED <<backend, up, closing, cache, fresh, flock, releases, sweeps, running, record, born, faults, dropped, unrecorded>>
  BY <1>1, <1>2, SandboxAssumption DEF Discovered, Alive, On, CallFits, AtIt, SandboxTypeOK, callVars, processVars, hostVars, releaseVars, sandboxHistory
<1>6. SandboxTypeOK'
  BY <1>1, <1>2, <1>3, <1>4, <1>5, SandboxAssumption DEF SandboxTypeOK, CallFits, AtIt, Containers, PerThread
<1>7. Frame(p, t)
  <2>1. \A c \in Containers : Known(t, c)' => Known(t, c) \/ (born < c /\ c <= born')
    BY <1>1, <1>2, <1>3, <1>4, <1>5 DEF At, On, Known, Containers
  <2>2. dropped \subseteq dropped' /\ born <= born' /\ releases' = releases
    BY <1>1, <1>2, <1>3, <1>4, <1>5
  <2>3. Known(t, running[t]) /\ Known(t, found[p][t]) /\ (call[p][t] \in Holding => flock[t] = p)
    BY <1>1, <1>2, <1>3, <1>4, <1>5 DEF Known, CallFits
  <2>4. \A q \in Procs, u \in SandboxThreads : q # p \/ u # t =>
          /\ cache'[q][u] = cache[q][u] /\ call'[q][u] = call[q][u]
          /\ found'[q][u] = found[q][u] /\ fresh'[q][u] = fresh[q][u]
    BY <1>1, <1>2, <1>3, <1>4, <1>5 DEF At
  <2>5. \A u \in SandboxThreads : u # t =>
          running'[u] = running[u] /\ record'[u] = record[u] /\ flock'[u] = flock[u]
    BY <1>1, <1>2, <1>3, <1>4, <1>5 DEF On
  <2>6. flock[t] = p
    BY <1>2, <2>3 DEF Holding
  <2>7. running'[t] # running[t] => running[t] \in {0} \cup dropped' \cup unrecorded'
    BY <1>1, <1>2, <1>3, <1>4, <1>5, <2>6 DEF On, CallFits
  <2>8. \A c \in unrecorded : c \notin unrecorded' => Known(t, c) /\ c \in {running'[t]} \cup dropped'
    BY <1>1, <1>2, <1>3, <1>4, <1>5, <2>3 DEF On, CallFits, AtIt
  <2> QED
    BY <2>1, <2>2, <2>4, <2>5, <2>6, <2>7, <2>8 DEF Frame
<1>8. CallFits(p, t)'
  BY <1>1, <1>2, <1>3, <1>4, <1>5 DEF At, On, CallFits, Holding, AtIt
<1>9. Covered(t)'
  BY <1>1, <1>2, <1>3, <1>4, <1>5 DEF At, On, Covered, CallFits, Holding, AtIt
<1> QED
  BY <1>6, <1>7, <1>8, <1>9, FrameKeeps

\* No container is found by the record, and the record goes.
LEMMA NotRecoveredKeeps == ASSUME SandboxInv, NEW p \in Procs, NEW t \in SandboxThreads, NotRecovered(p, t)
                          PROVE  SandboxInv'
<1>1. SandboxTypeOK /\ CallFits(p, t) /\ Covered(t) /\ born \in Nat /\ NoProc \notin Procs
  BY ContainersAreNumbers, SandboxAssumption DEF SandboxInv
<1>2. call[p][t] = "load" /\ (~record[t] => running[t] \in {0} \cup dropped \cup unrecorded)
  <2>1. call[p][t] = "load"
    BY DEF NotRecovered
  <2>2. call[p][t] \in Holding \ AtIt
    BY <2>1 DEF Holding, AtIt
  <2> QED
    BY <2>1, <2>2, Unnoticed
<1>3. call' \in PerThread(CallPoints) /\ At(call, call', p, t, "create")
  <2>1. "create" \in CallPoints /\ call \in PerThread(CallPoints)
    BY <1>1, <1>2, SandboxAssumption DEF SandboxTypeOK, PerThread, CallPoints
  <2>2. call' = [call EXCEPT ![p][t] = "create"]
    BY <1>1 DEF NotRecovered, Fault, NoFault, Runs, Goto, SandboxTypeOK
  <2> QED
    BY <2>1, <2>2, PutAt
<1>4. /\ UNCHANGED <<backend, up, closing, cache, found, fresh, flock, releases, sweeps, running, born, dropped>>
      /\ On(record, record', t, FALSE)
      /\ faults' \in 0 .. MaxFaults
      /\ unrecorded' = IF record[t] THEN unrecorded \cup ({running[t]} \ {0}) ELSE unrecorded
      /\ record' \in [SandboxThreads -> BOOLEAN]
  BY <1>1, <1>2, SandboxAssumption DEF NotRecovered, Fault, NoFault, Runs, On, CallFits, AtIt, SandboxTypeOK, callVars, processVars, hostVars, releaseVars, sandboxHistory
<1>5. SandboxTypeOK'
  <2>1. running[t] \in 0 .. MaxContainers /\ MaxContainers \in Nat
    BY <1>1, SandboxAssumption DEF SandboxTypeOK
  <2>2. unrecorded' \subseteq Containers
    <3>1. running[t] # 0 => running[t] \in Containers
      BY <2>1 DEF Containers
    <3> QED
      BY <1>1, <1>4, <3>1 DEF SandboxTypeOK
  <2> QED
    BY <1>1, <1>3, <1>4, <2>2 DEF SandboxTypeOK
<1>6. Frame(p, t)
  <2>1. \A c \in Containers : Known(t, c)' => Known(t, c) \/ (born < c /\ c <= born')
    BY <1>1, <1>2, <1>3, <1>4 DEF At, On, Known, Containers
  <2>2. dropped \subseteq dropped' /\ born <= born' /\ releases' = releases
    BY <1>1, <1>2, <1>3, <1>4
  <2>3. Known(t, running[t]) /\ Known(t, found[p][t]) /\ (call[p][t] \in Holding => flock[t] = p)
    BY <1>1, <1>2, <1>3, <1>4 DEF Known, CallFits
  <2> QED
    BY <1>1, <1>2, <1>3, <1>4, <2>1, <2>2, <2>3 DEF Frame, At, On, Holding
<1>7. CallFits(p, t)'
  BY <1>1, <1>2, <1>3, <1>4 DEF At, On, CallFits, Holding, AtIt
<1>8. Covered(t)'
  BY <1>1, <1>2, <1>3, <1>4 DEF At, On, Covered, CallFits, Holding, AtIt
<1> QED
  BY <1>5, <1>6, <1>7, <1>8, FrameKeeps

\* A new container runs; the one before it had a reason to be replaced.
LEMMA NewContainerKeeps == ASSUME SandboxInv, NEW p \in Procs, NEW t \in SandboxThreads, Create(p, t), NewContainer(p, t)
                          PROVE  SandboxInv'
<1>1. SandboxTypeOK /\ CallFits(p, t) /\ Covered(t) /\ born \in Nat /\ NoProc \notin Procs
  BY ContainersAreNumbers, SandboxAssumption DEF SandboxInv
<1>2. call[p][t] = "create" /\ born < MaxContainers
  BY <1>1 DEF NewContainer, Create
<1>3. call' \in PerThread(CallPoints) /\ At(call, call', p, t, "ready")
  <2>1. "ready" \in CallPoints /\ call \in PerThread(CallPoints)
    BY <1>1, <1>2, SandboxAssumption DEF SandboxTypeOK, PerThread, CallPoints
  <2>2. call' = [call EXCEPT ![p][t] = "ready"]
    BY <1>1 DEF NewContainer, Create, Goto, SandboxTypeOK
  <2> QED
    BY <2>1, <2>2, PutAt
<1>4. found' \in PerThread(0 .. MaxContainers) /\ At(found, found', p, t, born + 1)
  <2>1. born + 1 \in 0 .. MaxContainers /\ found \in PerThread(0 .. MaxContainers)
    BY <1>1, <1>2, SandboxAssumption DEF SandboxTypeOK, PerThread, CallPoints
  <2>2. found' = [found EXCEPT ![p][t] = born + 1]
    BY <1>1 DEF NewContainer, Create, Goto, SandboxTypeOK
  <2> QED
    BY <2>1, <2>2, PutAt
<1>5. fresh' \in PerThread(BOOLEAN) /\ At(fresh, fresh', p, t, TRUE)
  <2>1. TRUE \in BOOLEAN /\ fresh \in PerThread(BOOLEAN)
    BY <1>1, <1>2, SandboxAssumption DEF SandboxTypeOK, PerThread, CallPoints
  <2>2. fresh' = [fresh EXCEPT ![p][t] = TRUE]
    BY <1>1 DEF NewContainer, Create, Goto, SandboxTypeOK
  <2> QED
    BY <2>1, <2>2, PutAt
<1>6. /\ UNCHANGED <<backend, up, closing, cache, flock, releases, sweeps, record, faults, dropped, unrecorded>>
      /\ On(running, running', t, born + 1)
      /\ born' = born + 1
      /\ running' \in [SandboxThreads -> 0 .. MaxContainers]
  BY <1>1, <1>2, SandboxAssumption DEF NewContainer, Create, On, CallFits, AtIt, SandboxTypeOK, callVars, processVars, hostVars, releaseVars, sandboxHistory
<1>7. SandboxTypeOK'
  BY <1>1, <1>2, <1>3, <1>4, <1>5, <1>6, SandboxAssumption DEF SandboxTypeOK, CallFits, AtIt, Containers, PerThread
<1>8. Frame(p, t)
  <2>1. \A c \in Containers : Known(t, c)' => Known(t, c) \/ (born < c /\ c <= born')
    BY <1>1, <1>2, <1>3, <1>4, <1>5, <1>6 DEF At, On, Known, Containers
  <2>2. dropped \subseteq dropped' /\ born <= born' /\ releases' = releases
    BY <1>1, <1>2, <1>3, <1>4, <1>5, <1>6
  <2>3. Known(t, running[t]) /\ Known(t, found[p][t]) /\ (call[p][t] \in Holding => flock[t] = p)
    BY <1>1, <1>2, <1>3, <1>4, <1>5, <1>6 DEF Known, CallFits
  <2>4. \A q \in Procs, u \in SandboxThreads : q # p \/ u # t =>
          /\ cache'[q][u] = cache[q][u] /\ call'[q][u] = call[q][u]
          /\ found'[q][u] = found[q][u] /\ fresh'[q][u] = fresh[q][u]
    BY <1>1, <1>2, <1>3, <1>4, <1>5, <1>6 DEF At
  <2>5. \A u \in SandboxThreads : u # t =>
          running'[u] = running[u] /\ record'[u] = record[u] /\ flock'[u] = flock[u]
    BY <1>1, <1>2, <1>3, <1>4, <1>5, <1>6 DEF On
  <2>6. flock[t] = p
    BY <1>2, <2>3 DEF Holding
  <2>7. running'[t] # running[t] => running[t] \in {0} \cup dropped' \cup unrecorded'
    BY <1>1, <1>2, <1>3, <1>4, <1>5, <1>6, <2>6 DEF On, CallFits
  <2>8. \A c \in unrecorded : c \notin unrecorded' => Known(t, c) /\ c \in {running'[t]} \cup dropped'
    BY <1>1, <1>2, <1>3, <1>4, <1>5, <1>6, <2>3 DEF On, CallFits, AtIt
  <2> QED
    BY <2>1, <2>2, <2>4, <2>5, <2>6, <2>7, <2>8 DEF Frame
<1>9. CallFits(p, t)'
  <2>1. flock[t] = p /\ born + 1 # 0 /\ cache[p][t] \in {0} \cup dropped \cup unrecorded
    BY <1>1, <1>2 DEF CallFits, Holding
  <2> QED
    BY <1>2, <1>3, <1>4, <1>5, <1>6, <2>1 DEF At, On, CallFits, Holding, AtIt
<1>10. Covered(t)'
  <2>1. fresh'[p][t] /\ found'[p][t] = running'[t]
    BY <1>4, <1>5, <1>6 DEF At, On
  <2> QED
    BY <2>1 DEF Covered
<1> QED
  BY <1>7, <1>8, <1>9, <1>10, FrameKeeps

\* A container of the same name runs already, and is taken over.
LEMMA SameContainerKeeps == ASSUME SandboxInv, NEW p \in Procs, NEW t \in SandboxThreads, Create(p, t), SameContainer(p, t)
                           PROVE  SandboxInv'
<1>1. SandboxTypeOK /\ CallFits(p, t) /\ Covered(t) /\ born \in Nat /\ NoProc \notin Procs
  BY ContainersAreNumbers, SandboxAssumption DEF SandboxInv
<1>2. call[p][t] = "create" /\ running[t] # 0
  BY <1>1 DEF SameContainer, Create, Alive
<1>3. call' \in PerThread(CallPoints) /\ At(call, call', p, t, "ready")
  <2>1. "ready" \in CallPoints /\ call \in PerThread(CallPoints)
    BY <1>1, <1>2, SandboxAssumption DEF SandboxTypeOK, PerThread, CallPoints
  <2>2. call' = [call EXCEPT ![p][t] = "ready"]
    BY <1>1 DEF SameContainer, Create, Alive, Goto, SandboxTypeOK
  <2> QED
    BY <2>1, <2>2, PutAt
<1>4. found' \in PerThread(0 .. MaxContainers) /\ At(found, found', p, t, running[t])
  <2>1. running[t] \in 0 .. MaxContainers /\ found \in PerThread(0 .. MaxContainers)
    BY <1>1, <1>2, SandboxAssumption DEF SandboxTypeOK, PerThread, CallPoints
  <2>2. found' = [found EXCEPT ![p][t] = running[t]]
    BY <1>1 DEF SameContainer, Create, Alive, Goto, SandboxTypeOK
  <2> QED
    BY <2>1, <2>2, PutAt
<1>5. fresh' \in PerThread(BOOLEAN) /\ At(fresh, fresh', p, t, TRUE)
  <2>1. TRUE \in BOOLEAN /\ fresh \in PerThread(BOOLEAN)
    BY <1>1, <1>2, SandboxAssumption DEF SandboxTypeOK, PerThread, CallPoints
  <2>2. fresh' = [fresh EXCEPT ![p][t] = TRUE]
    BY <1>1 DEF SameContainer, Create, Alive, Goto, SandboxTypeOK
  <2> QED
    BY <2>1, <2>2, PutAt
<1>6. /\ UNCHANGED <<backend, up, closing, cache, flock, releases, sweeps, running, record, born, faults, dropped, unrecorded>>
  BY <1>1, <1>2, SandboxAssumption DEF SameContainer, Create, Alive, On, CallFits, AtIt, SandboxTypeOK, callVars, processVars, hostVars, releaseVars, sandboxHistory
<1>7. SandboxTypeOK'
  BY <1>1, <1>2, <1>3, <1>4, <1>5, <1>6, SandboxAssumption DEF SandboxTypeOK, CallFits, AtIt, Containers, PerThread
<1>8. Frame(p, t)
  <2>1. \A c \in Containers : Known(t, c)' => Known(t, c) \/ (born < c /\ c <= born')
    BY <1>1, <1>2, <1>3, <1>4, <1>5, <1>6 DEF At, On, Known, Containers
  <2>2. dropped \subseteq dropped' /\ born <= born' /\ releases' = releases
    BY <1>1, <1>2, <1>3, <1>4, <1>5, <1>6
  <2>3. Known(t, running[t]) /\ Known(t, found[p][t]) /\ (call[p][t] \in Holding => flock[t] = p)
    BY <1>1, <1>2, <1>3, <1>4, <1>5, <1>6 DEF Known, CallFits
  <2> QED
    BY <1>1, <1>2, <1>3, <1>4, <1>5, <1>6, <2>1, <2>2, <2>3 DEF Frame, At, On, Holding
<1>9. CallFits(p, t)'
  BY <1>1, <1>2, <1>3, <1>4, <1>5, <1>6 DEF At, On, CallFits, Holding, AtIt
<1>10. Covered(t)'
  BY <1>1, <1>2, <1>3, <1>4, <1>5, <1>6 DEF At, On, Covered, CallFits, Holding, AtIt
<1> QED
  BY <1>7, <1>8, <1>9, <1>10, FrameKeeps

\* No container can be made.
LEMMA CreateFailsKeeps == ASSUME SandboxInv, NEW p \in Procs, NEW t \in SandboxThreads, CreateFails(p, t)
                         PROVE  SandboxInv'
<1>1. SandboxTypeOK /\ CallFits(p, t) /\ Covered(t) /\ born \in Nat /\ NoProc \notin Procs
  BY ContainersAreNumbers, SandboxAssumption DEF SandboxInv
<1>2. call[p][t] = "create"
  BY <1>1 DEF CreateFails, Raise, Unlock
<1>3. call' \in PerThread(CallPoints) /\ At(call, call', p, t, "no")
  <2>1. "no" \in CallPoints /\ call \in PerThread(CallPoints)
    BY <1>1, <1>2, SandboxAssumption DEF SandboxTypeOK, PerThread, CallPoints
  <2>2. call' = [call EXCEPT ![p][t] = "no"]
    BY <1>1 DEF CreateFails, Raise, Unlock, Goto, SandboxTypeOK
  <2> QED
    BY <2>1, <2>2, PutAt
<1>4. found' \in PerThread(0 .. MaxContainers) /\ At(found, found', p, t, 0)
  <2>1. 0 \in 0 .. MaxContainers /\ found \in PerThread(0 .. MaxContainers)
    BY <1>1, <1>2, SandboxAssumption DEF SandboxTypeOK, PerThread, CallPoints
  <2>2. found' = [found EXCEPT ![p][t] = 0]
    BY <1>1 DEF CreateFails, Raise, Unlock, Goto, SandboxTypeOK
  <2> QED
    BY <2>1, <2>2, PutAt
<1>5. fresh' \in PerThread(BOOLEAN) /\ At(fresh, fresh', p, t, FALSE)
  <2>1. FALSE \in BOOLEAN /\ fresh \in PerThread(BOOLEAN)
    BY <1>1, <1>2, SandboxAssumption DEF SandboxTypeOK, PerThread, CallPoints
  <2>2. fresh' = [fresh EXCEPT ![p][t] = FALSE]
    BY <1>1 DEF CreateFails, Raise, Unlock, Goto, SandboxTypeOK
  <2> QED
    BY <2>1, <2>2, PutAt
<1>6. /\ UNCHANGED <<backend, up, closing, cache, releases, sweeps, record, born, faults, dropped, unrecorded>>
      /\ On(flock, flock', t, NoProc)
      /\ running' = running \/ On(running, running', t, 0)
      /\ flock' \in [SandboxThreads -> Procs \cup {NoProc}]
      /\ running' \in [SandboxThreads -> 0 .. MaxContainers]
  BY <1>1, <1>2, SandboxAssumption DEF CreateFails, Raise, Unlock, On, CallFits, AtIt, SandboxTypeOK, callVars, processVars, hostVars, releaseVars, sandboxHistory
<1>7. SandboxTypeOK'
  BY <1>1, <1>2, <1>3, <1>4, <1>5, <1>6, SandboxAssumption DEF SandboxTypeOK, CallFits, AtIt, Containers, PerThread
<1>8. Frame(p, t)
  <2>1. \A c \in Containers : Known(t, c)' => Known(t, c) \/ (born < c /\ c <= born')
    BY <1>1, <1>2, <1>3, <1>4, <1>5, <1>6 DEF At, On, Known, Containers
  <2>2. dropped \subseteq dropped' /\ born <= born' /\ releases' = releases
    BY <1>1, <1>2, <1>3, <1>4, <1>5, <1>6
  <2>3. Known(t, running[t]) /\ Known(t, found[p][t]) /\ (call[p][t] \in Holding => flock[t] = p)
    BY <1>1, <1>2, <1>3, <1>4, <1>5, <1>6 DEF Known, CallFits
  <2>4. \A q \in Procs, u \in SandboxThreads : q # p \/ u # t =>
          /\ cache'[q][u] = cache[q][u] /\ call'[q][u] = call[q][u]
          /\ found'[q][u] = found[q][u] /\ fresh'[q][u] = fresh[q][u]
    BY <1>1, <1>2, <1>3, <1>4, <1>5, <1>6 DEF At
  <2>5. \A u \in SandboxThreads : u # t =>
          running'[u] = running[u] /\ record'[u] = record[u] /\ flock'[u] = flock[u]
    BY <1>1, <1>2, <1>3, <1>4, <1>5, <1>6 DEF On
  <2>6. flock[t] = p
    BY <1>2, <2>3 DEF Holding
  <2>7. running[t] \in {0} \cup dropped' \cup unrecorded'
    BY <1>1, <1>2, <1>3, <1>4, <1>5, <1>6 DEF CallFits
  <2> QED
    BY <1>1, <1>2, <1>3, <1>4, <1>5, <1>6, <2>1, <2>2, <2>4, <2>5, <2>6, <2>7 DEF Frame
<1>9. CallFits(p, t)'
  BY <1>1, <1>2, <1>3, <1>4, <1>5, <1>6 DEF At, On, CallFits, Holding, AtIt
<1>10. Covered(t)'
  <2>1. ~fresh[p][t]
    BY <1>1, <1>2 DEF CallFits, AtIt
  <2>2. \A q \in Procs : fresh[q][t] => fresh'[q][t] /\ found'[q][t] = found[q][t]
    BY <1>4, <1>5, <2>1 DEF At
  <2>3. (running'[t] = running[t] \/ running'[t] = 0) /\ record' = record /\ releases' = releases
        /\ unrecorded' = unrecorded
    BY <1>6 DEF On
  <2> QED
    BY <1>1, <2>2, <2>3 DEF Covered
<1> QED
  BY <1>7, <1>8, <1>9, <1>10, FrameKeeps

\* The new container answers.
LEMMA ReadyKeeps == ASSUME SandboxInv, NEW p \in Procs, NEW t \in SandboxThreads, Ready(p, t)
                   PROVE  SandboxInv'
<1>1. SandboxTypeOK /\ CallFits(p, t) /\ Covered(t) /\ born \in Nat /\ NoProc \notin Procs
  BY ContainersAreNumbers, SandboxAssumption DEF SandboxInv
<1>2. call[p][t] = "ready"
  BY <1>1 DEF Ready
<1>3. call' \in PerThread(CallPoints) /\ At(call, call', p, t, "adopt")
  <2>1. "adopt" \in CallPoints /\ call \in PerThread(CallPoints)
    BY <1>1, <1>2, SandboxAssumption DEF SandboxTypeOK, PerThread, CallPoints
  <2>2. call' = [call EXCEPT ![p][t] = "adopt"]
    BY <1>1 DEF Ready, Goto, SandboxTypeOK
  <2> QED
    BY <2>1, <2>2, PutAt
<1>4. /\ UNCHANGED <<backend, up, closing, cache, found, fresh, flock, releases, sweeps, running, record, born, faults, dropped, unrecorded>>
  BY <1>1, <1>2, SandboxAssumption DEF Ready, On, CallFits, AtIt, SandboxTypeOK, callVars, processVars, hostVars, releaseVars, sandboxHistory
<1>5. SandboxTypeOK'
  BY <1>1, <1>2, <1>3, <1>4, SandboxAssumption DEF SandboxTypeOK, CallFits, AtIt, Containers, PerThread
<1>6. Frame(p, t)
  <2>1. \A c \in Containers : Known(t, c)' => Known(t, c) \/ (born < c /\ c <= born')
    BY <1>1, <1>2, <1>3, <1>4 DEF At, On, Known, Containers
  <2>2. dropped \subseteq dropped' /\ born <= born' /\ releases' = releases
    BY <1>1, <1>2, <1>3, <1>4
  <2>3. Known(t, running[t]) /\ Known(t, found[p][t]) /\ (call[p][t] \in Holding => flock[t] = p)
    BY <1>1, <1>2, <1>3, <1>4 DEF Known, CallFits
  <2> QED
    BY <1>1, <1>2, <1>3, <1>4, <2>1, <2>2, <2>3 DEF Frame, At, On, Holding
<1>7. CallFits(p, t)'
  BY <1>1, <1>2, <1>3, <1>4 DEF At, On, CallFits, Holding, AtIt
<1>8. Covered(t)'
  BY <1>1, <1>2, <1>3, <1>4 DEF At, On, Covered, CallFits, Holding, AtIt
<1> QED
  BY <1>5, <1>6, <1>7, <1>8, FrameKeeps

\* The new container does not answer in time, and is dropped.
LEMMA NeverReadyKeeps == ASSUME SandboxInv, NEW p \in Procs, NEW t \in SandboxThreads, NeverReady(p, t)
                        PROVE  SandboxInv'
<1>1. SandboxTypeOK /\ CallFits(p, t) /\ Covered(t) /\ born \in Nat /\ NoProc \notin Procs
  BY ContainersAreNumbers, SandboxAssumption DEF SandboxInv
<1>2. call[p][t] = "ready" /\ found[p][t] # 0 /\ running[t] \in {0, found[p][t]}
  BY <1>1 DEF NeverReady, CallFits, AtIt
<1>3. call' \in PerThread(CallPoints) /\ At(call, call', p, t, "no")
  <2>1. "no" \in CallPoints /\ call \in PerThread(CallPoints)
    BY <1>1, <1>2, SandboxAssumption DEF SandboxTypeOK, PerThread, CallPoints
  <2>2. call' = [call EXCEPT ![p][t] = "no"]
    BY <1>1 DEF NeverReady, Fault, Raise, Unlock, Stop, Stopped, Runs, Goto, SandboxTypeOK
  <2> QED
    BY <2>1, <2>2, PutAt
<1>4. found' \in PerThread(0 .. MaxContainers) /\ At(found, found', p, t, 0)
  <2>1. 0 \in 0 .. MaxContainers /\ found \in PerThread(0 .. MaxContainers)
    BY <1>1, <1>2, SandboxAssumption DEF SandboxTypeOK, PerThread, CallPoints
  <2>2. found' = [found EXCEPT ![p][t] = 0]
    BY <1>1 DEF NeverReady, Fault, Raise, Unlock, Stop, Stopped, Runs, Goto, SandboxTypeOK
  <2> QED
    BY <2>1, <2>2, PutAt
<1>5. fresh' \in PerThread(BOOLEAN) /\ At(fresh, fresh', p, t, FALSE)
  <2>1. FALSE \in BOOLEAN /\ fresh \in PerThread(BOOLEAN)
    BY <1>1, <1>2, SandboxAssumption DEF SandboxTypeOK, PerThread, CallPoints
  <2>2. fresh' = [fresh EXCEPT ![p][t] = FALSE]
    BY <1>1 DEF NeverReady, Fault, Raise, Unlock, Stop, Stopped, Runs, Goto, SandboxTypeOK
  <2> QED
    BY <2>1, <2>2, PutAt
<1>6. /\ UNCHANGED <<backend, up, closing, cache, releases, sweeps, record, born, unrecorded>>
      /\ On(flock, flock', t, NoProc)
      /\ On(running, running', t, 0)
      /\ faults' \in 0 .. MaxFaults
      /\ dropped' = dropped \cup {found[p][t]}
      /\ flock' \in [SandboxThreads -> Procs \cup {NoProc}]
      /\ running' \in [SandboxThreads -> 0 .. MaxContainers]
  <2>1. UNCHANGED <<backend, up, closing, cache, releases, sweeps, record, born, unrecorded>>
    BY DEF NeverReady, releaseVars
  <2>2. On(flock, flock', t, NoProc) /\ flock' \in [SandboxThreads -> Procs \cup {NoProc}]
    BY <1>1 DEF NeverReady, Raise, Unlock, On, SandboxTypeOK
  <2>3. faults' \in 0 .. MaxFaults
    BY <1>1, SandboxAssumption DEF NeverReady, Fault, SandboxTypeOK
  <2>4. Stopped(t, found[p][t]) = Runs(t) /\ Runs(t) \subseteq {found[p][t]}
    BY <1>2 DEF Stopped, Runs
  <2>5. dropped' = dropped \cup {found[p][t]} /\ running' = IF running[t] = 0 THEN running ELSE [running EXCEPT ![t] = 0]
    <3>1. /\ running' = IF Stopped(t, found[p][t]) = {} THEN running ELSE [running EXCEPT ![t] = 0]
          /\ dropped' = dropped \cup Stopped(t, found[p][t]) \cup {found[p][t]}
      BY DEF NeverReady, Stop
    <3>2. Runs(t) = {} <=> running[t] = 0
      BY DEF Runs
    <3> QED
      BY <2>4, <3>1, <3>2
  <2>6. On(running, running', t, 0) /\ running' \in [SandboxThreads -> 0 .. MaxContainers]
    BY <1>1, <2>5, SandboxAssumption DEF On, SandboxTypeOK
  <2> QED
    BY <2>1, <2>2, <2>3, <2>5, <2>6
<1>7. SandboxTypeOK'
  <2>1. found[p][t] \in Containers
    BY <1>1, <1>2, SandboxAssumption DEF SandboxTypeOK, PerThread, Containers
  <2> QED
    BY <1>1, <1>3, <1>4, <1>5, <1>6, <2>1 DEF SandboxTypeOK
<1>8. Frame(p, t)
  <2>1. \A c \in Containers : Known(t, c)' => Known(t, c) \/ (born < c /\ c <= born')
    BY <1>1, <1>2, <1>3, <1>4, <1>5, <1>6 DEF At, On, Known, Containers
  <2>2. dropped \subseteq dropped' /\ born <= born' /\ releases' = releases
    BY <1>1, <1>2, <1>3, <1>4, <1>5, <1>6
  <2>3. Known(t, running[t]) /\ Known(t, found[p][t]) /\ (call[p][t] \in Holding => flock[t] = p)
    BY <1>1, <1>2, <1>3, <1>4, <1>5, <1>6 DEF Known, CallFits
  <2>4. \A q \in Procs, u \in SandboxThreads : q # p \/ u # t =>
          /\ cache'[q][u] = cache[q][u] /\ call'[q][u] = call[q][u]
          /\ found'[q][u] = found[q][u] /\ fresh'[q][u] = fresh[q][u]
    BY <1>1, <1>2, <1>3, <1>4, <1>5, <1>6 DEF At
  <2>5. \A u \in SandboxThreads : u # t =>
          running'[u] = running[u] /\ record'[u] = record[u] /\ flock'[u] = flock[u]
    BY <1>1, <1>2, <1>3, <1>4, <1>5, <1>6 DEF On
  <2>6. flock[t] = p
    BY <1>2, <2>3 DEF Holding
  <2>7. running'[t] # running[t] => running[t] \in {0} \cup dropped' \cup unrecorded'
    BY <1>1, <1>2, <1>3, <1>4, <1>5, <1>6, <2>6 DEF On, CallFits
  <2>8. \A c \in unrecorded : c \notin unrecorded' => Known(t, c) /\ c \in {running'[t]} \cup dropped'
    BY <1>1, <1>2, <1>3, <1>4, <1>5, <1>6, <2>3 DEF On, CallFits, AtIt
  <2> QED
    BY <2>1, <2>2, <2>4, <2>5, <2>6, <2>7, <2>8 DEF Frame
<1>9. CallFits(p, t)'
  BY <1>1, <1>2, <1>3, <1>4, <1>5, <1>6 DEF At, On, CallFits, Holding, AtIt
<1>10. Covered(t)'
  BY <1>1, <1>2, <1>3, <1>4, <1>5, <1>6 DEF At, On, Covered, CallFits, Holding, AtIt
<1> QED
  BY <1>7, <1>8, <1>9, <1>10, FrameKeeps

\* What was found or made is cached; what was found is then given to the call.
LEMMA AdoptKeeps == ASSUME SandboxInv, NEW p \in Procs, NEW t \in SandboxThreads, Adopt(p, t)
                   PROVE  SandboxInv'
<1>1. SandboxTypeOK /\ CallFits(p, t) /\ Covered(t) /\ born \in Nat /\ NoProc \notin Procs
  BY ContainersAreNumbers, SandboxAssumption DEF SandboxInv
<1>2. call[p][t] = "adopt"
  BY <1>1 DEF Adopt, Unlock
<1>3. cache' \in PerThread(0 .. MaxContainers) /\ At(cache, cache', p, t, found[p][t])
  <2>1. found[p][t] \in 0 .. MaxContainers /\ cache \in PerThread(0 .. MaxContainers)
    BY <1>1, <1>2, SandboxAssumption DEF SandboxTypeOK, PerThread, CallPoints
  <2>2. cache' = [cache EXCEPT ![p][t] = found[p][t]]
    BY <1>1 DEF Adopt, Unlock, Goto, SandboxTypeOK
  <2> QED
    BY <2>1, <2>2, PutAt
<1>4. call' \in PerThread(CallPoints) /\ At(call, call', p, t, IF fresh[p][t] THEN "save" ELSE "got")
  <2>1. (IF fresh[p][t] THEN "save" ELSE "got") \in CallPoints /\ call \in PerThread(CallPoints)
    BY <1>1, <1>2, SandboxAssumption DEF SandboxTypeOK, PerThread, CallPoints
  <2>2. call' = [call EXCEPT ![p][t] = (IF fresh[p][t] THEN "save" ELSE "got")]
    BY <1>1 DEF Adopt, Unlock, Goto, SandboxTypeOK
  <2> QED
    BY <2>1, <2>2, PutAt
<1>5. found' \in PerThread(0 .. MaxContainers) /\ At(found, found', p, t, IF fresh[p][t] THEN found[p][t] ELSE 0)
  <2>1. 0 \in 0 .. MaxContainers /\ found \in PerThread(0 .. MaxContainers)
    BY <1>1, SandboxAssumption DEF SandboxTypeOK
  <2>2. CASE fresh[p][t]
    BY <2>1, <2>2 DEF Adopt, At
  <2>3. CASE ~fresh[p][t]
    <3>1. found' = [found EXCEPT ![p][t] = 0]
      BY <2>3 DEF Adopt
    <3>2. found' \in PerThread(0 .. MaxContainers) /\ At(found, found', p, t, 0)
      BY <2>1, <3>1, PutAt
    <3> QED
      BY <2>3, <3>2
  <2> QED
    BY <2>2, <2>3
<1>6. /\ UNCHANGED <<backend, up, closing, fresh, releases, sweeps, running, record, born, faults, dropped, unrecorded>>
      /\ On(flock, flock', t, IF fresh[p][t] THEN flock[t] ELSE NoProc)
      /\ flock' \in [SandboxThreads -> Procs \cup {NoProc}]
  BY <1>1, <1>2, SandboxAssumption DEF Adopt, Unlock, On, CallFits, AtIt, SandboxTypeOK, callVars, processVars, hostVars, releaseVars, sandboxHistory
<1>7. SandboxTypeOK'
  BY <1>1, <1>2, <1>3, <1>4, <1>5, <1>6, SandboxAssumption DEF SandboxTypeOK, CallFits, AtIt, Containers, PerThread
<1>8. Frame(p, t)
  <2>1. \A c \in Containers : Known(t, c)' => Known(t, c) \/ (born < c /\ c <= born')
    BY <1>1, <1>2, <1>3, <1>4, <1>5, <1>6 DEF At, On, Known, Containers
  <2>2. dropped \subseteq dropped' /\ born <= born' /\ releases' = releases
    BY <1>1, <1>2, <1>3, <1>4, <1>5, <1>6
  <2>3. Known(t, running[t]) /\ Known(t, found[p][t]) /\ (call[p][t] \in Holding => flock[t] = p)
    BY <1>1, <1>2, <1>3, <1>4, <1>5, <1>6 DEF Known, CallFits
  <2> QED
    BY <1>1, <1>2, <1>3, <1>4, <1>5, <1>6, <2>1, <2>2, <2>3 DEF Frame, At, On, Holding
<1>9. CallFits(p, t)'
  BY <1>1, <1>2, <1>3, <1>4, <1>5, <1>6 DEF At, On, CallFits, Holding, AtIt
<1>10. Covered(t)'
  BY <1>1, <1>2, <1>3, <1>4, <1>5, <1>6 DEF At, On, Covered, CallFits, Holding, AtIt
<1> QED
  BY <1>7, <1>8, <1>9, <1>10, FrameKeeps

\* What was made is recorded, or cannot be, and then has an excuse.
LEMMA SaveKeeps == ASSUME SandboxInv, NEW p \in Procs, NEW t \in SandboxThreads, Save(p, t)
                  PROVE  SandboxInv'
<1>1. SandboxTypeOK /\ CallFits(p, t) /\ Covered(t) /\ born \in Nat /\ NoProc \notin Procs
  BY ContainersAreNumbers, SandboxAssumption DEF SandboxInv
<1>2. call[p][t] = "save" /\ found[p][t] # 0 /\ running[t] \in {0, found[p][t]}
  BY <1>1 DEF Save, Fault, NoFault, Unlock, CallFits, AtIt
<1>3. fresh' \in PerThread(BOOLEAN) /\ At(fresh, fresh', p, t, FALSE)
  <2>1. FALSE \in BOOLEAN /\ fresh \in PerThread(BOOLEAN)
    BY <1>1, <1>2, SandboxAssumption DEF SandboxTypeOK, PerThread, CallPoints
  <2>2. fresh' = [fresh EXCEPT ![p][t] = FALSE]
    BY <1>1 DEF Save, Fault, NoFault, Unlock, Goto, SandboxTypeOK
  <2> QED
    BY <2>1, <2>2, PutAt
<1>4. call' \in PerThread(CallPoints) /\ At(call, call', p, t, "got")
  <2>1. "got" \in CallPoints /\ call \in PerThread(CallPoints)
    BY <1>1, <1>2, SandboxAssumption DEF SandboxTypeOK, PerThread, CallPoints
  <2>2. call' = [call EXCEPT ![p][t] = "got"]
    BY <1>1 DEF Save, Fault, NoFault, Unlock, Goto, SandboxTypeOK
  <2> QED
    BY <2>1, <2>2, PutAt
<1>5. found' \in PerThread(0 .. MaxContainers) /\ At(found, found', p, t, 0)
  <2>1. 0 \in 0 .. MaxContainers /\ found \in PerThread(0 .. MaxContainers)
    BY <1>1, <1>2, SandboxAssumption DEF SandboxTypeOK, PerThread, CallPoints
  <2>2. found' = [found EXCEPT ![p][t] = 0]
    BY <1>1 DEF Save, Fault, NoFault, Unlock, Goto, SandboxTypeOK
  <2> QED
    BY <2>1, <2>2, PutAt
<1>6. /\ UNCHANGED <<backend, up, closing, cache, releases, sweeps, running, born, dropped>>
      /\ On(flock, flock', t, NoProc)
      /\ \/ On(record, record', t, TRUE) /\ unrecorded' = unrecorded \ {found[p][t]}
         \/ On(record, record', t, FALSE) /\ unrecorded' = unrecorded \cup {found[p][t]}
      /\ faults' \in 0 .. MaxFaults
      /\ flock' \in [SandboxThreads -> Procs \cup {NoProc}]
      /\ record' \in [SandboxThreads -> BOOLEAN]
  <2>1. UNCHANGED <<backend, up, closing, cache, releases, sweeps, running, born, dropped>>
    BY DEF Save, releaseVars
  <2>2. On(flock, flock', t, NoProc) /\ flock' \in [SandboxThreads -> Procs \cup {NoProc}]
    BY <1>1 DEF Save, Unlock, On, SandboxTypeOK
  <2>3. faults' \in 0 .. MaxFaults
    BY <1>1, SandboxAssumption DEF Save, Fault, NoFault, SandboxTypeOK
  <2>4. /\ \/ On(record, record', t, TRUE) /\ unrecorded' = unrecorded \ {found[p][t]}
           \/ On(record, record', t, FALSE) /\ unrecorded' = unrecorded \cup {found[p][t]}
        /\ record' \in [SandboxThreads -> BOOLEAN]
    BY <1>1 DEF Save, On, SandboxTypeOK
  <2> QED
    BY <2>1, <2>2, <2>3, <2>4
<1>7. SandboxTypeOK'
  <2>1. found[p][t] \in Containers
    BY <1>1, <1>2, SandboxAssumption DEF SandboxTypeOK, PerThread, Containers
  <2>2. unrecorded' \subseteq Containers
    BY <1>1, <1>6, <2>1 DEF SandboxTypeOK
  <2> QED
    BY <1>1, <1>3, <1>4, <1>5, <1>6, <2>2 DEF SandboxTypeOK
<1>8. Frame(p, t)
  <2>1. \A c \in Containers : Known(t, c)' => Known(t, c) \/ (born < c /\ c <= born')
    BY <1>1, <1>2, <1>3, <1>4, <1>5, <1>6 DEF At, On, Known, Containers
  <2>2. dropped \subseteq dropped' /\ born <= born' /\ releases' = releases
    BY <1>1, <1>2, <1>3, <1>4, <1>5, <1>6
  <2>3. Known(t, running[t]) /\ Known(t, found[p][t]) /\ (call[p][t] \in Holding => flock[t] = p)
    BY <1>1, <1>2, <1>3, <1>4, <1>5, <1>6 DEF Known, CallFits
  <2>4. \A q \in Procs, u \in SandboxThreads : q # p \/ u # t =>
          /\ cache'[q][u] = cache[q][u] /\ call'[q][u] = call[q][u]
          /\ found'[q][u] = found[q][u] /\ fresh'[q][u] = fresh[q][u]
    BY <1>1, <1>2, <1>3, <1>4, <1>5, <1>6 DEF At
  <2>5. \A u \in SandboxThreads : u # t =>
          running'[u] = running[u] /\ record'[u] = record[u] /\ flock'[u] = flock[u]
    BY <1>1, <1>2, <1>3, <1>4, <1>5, <1>6 DEF On
  <2>6. flock[t] = p
    BY <1>2, <2>3 DEF Holding
  <2>7. running'[t] # running[t] => running[t] \in {0} \cup dropped' \cup unrecorded'
    BY <1>1, <1>2, <1>3, <1>4, <1>5, <1>6, <2>6 DEF On, CallFits
  <2>8. \A c \in unrecorded : c \notin unrecorded' => Known(t, c) /\ c \in {running'[t]} \cup dropped'
    BY <1>1, <1>2, <1>3, <1>4, <1>5, <1>6, <2>3 DEF On, CallFits, AtIt
  <2> QED
    BY <2>1, <2>2, <2>4, <2>5, <2>6, <2>7, <2>8 DEF Frame
<1>9. CallFits(p, t)'
  BY <1>1, <1>2, <1>3, <1>4, <1>5, <1>6 DEF At, On, CallFits, Holding, AtIt
<1>10. Covered(t)'
  BY <1>1, <1>2, <1>3, <1>4, <1>5, <1>6 DEF At, On, Covered, CallFits, Holding, AtIt
<1> QED
  BY <1>7, <1>8, <1>9, <1>10, FrameKeeps

\* A call has its sandbox.
LEMMA GotKeeps == ASSUME SandboxInv, NEW p \in Procs, NEW t \in SandboxThreads, Got(p, t)
                 PROVE  SandboxInv'
<1>1. SandboxTypeOK /\ CallFits(p, t) /\ Covered(t) /\ born \in Nat /\ NoProc \notin Procs
  BY ContainersAreNumbers, SandboxAssumption DEF SandboxInv
<1>2. call[p][t] = "got"
  BY <1>1 DEF Got
<1>3. call' \in PerThread(CallPoints) /\ At(call, call', p, t, IF cache[p][t] = 0 THEN "no" ELSE "use")
  <2>1. (IF cache[p][t] = 0 THEN "no" ELSE "use") \in CallPoints /\ call \in PerThread(CallPoints)
    BY <1>1, <1>2, SandboxAssumption DEF SandboxTypeOK, PerThread, CallPoints
  <2>2. call' = [call EXCEPT ![p][t] = (IF cache[p][t] = 0 THEN "no" ELSE "use")]
    BY <1>1 DEF Got, Goto, SandboxTypeOK
  <2> QED
    BY <2>1, <2>2, PutAt
<1>4. found' \in PerThread(0 .. MaxContainers) /\ At(found, found', p, t, cache[p][t])
  <2>1. cache[p][t] \in 0 .. MaxContainers /\ found \in PerThread(0 .. MaxContainers)
    BY <1>1, <1>2, SandboxAssumption DEF SandboxTypeOK, PerThread, CallPoints
  <2>2. found' = [found EXCEPT ![p][t] = cache[p][t]]
    BY <1>1 DEF Got, Goto, SandboxTypeOK
  <2> QED
    BY <2>1, <2>2, PutAt
<1>5. /\ UNCHANGED <<backend, up, closing, cache, fresh, flock, releases, sweeps, running, record, born, faults, dropped, unrecorded>>
  BY <1>1, <1>2, SandboxAssumption DEF Got, On, CallFits, AtIt, SandboxTypeOK, callVars, processVars, hostVars, releaseVars, sandboxHistory
<1>6. SandboxTypeOK'
  BY <1>1, <1>2, <1>3, <1>4, <1>5, SandboxAssumption DEF SandboxTypeOK, CallFits, AtIt, Containers, PerThread
<1>7. Frame(p, t)
  <2>1. \A c \in Containers : Known(t, c)' => Known(t, c) \/ (born < c /\ c <= born')
    BY <1>1, <1>2, <1>3, <1>4, <1>5 DEF At, On, Known, Containers
  <2>2. dropped \subseteq dropped' /\ born <= born' /\ releases' = releases
    BY <1>1, <1>2, <1>3, <1>4, <1>5
  <2>3. Known(t, running[t]) /\ Known(t, found[p][t]) /\ (call[p][t] \in Holding => flock[t] = p)
    BY <1>1, <1>2, <1>3, <1>4, <1>5 DEF Known, CallFits
  <2> QED
    BY <1>1, <1>2, <1>3, <1>4, <1>5, <2>1, <2>2, <2>3 DEF Frame, At, On, Holding
<1>8. CallFits(p, t)'
  BY <1>1, <1>2, <1>3, <1>4, <1>5 DEF At, On, CallFits, Holding, AtIt
<1>9. Covered(t)'
  BY <1>1, <1>2, <1>3, <1>4, <1>5 DEF At, On, Covered, CallFits, Holding, AtIt
<1> QED
  BY <1>6, <1>7, <1>8, <1>9, FrameKeeps

\* A call ends.
LEMMA UsedKeeps == ASSUME SandboxInv, NEW p \in Procs, NEW t \in SandboxThreads, Used(p, t)
                  PROVE  SandboxInv'
<1>1. SandboxTypeOK /\ CallFits(p, t) /\ Covered(t) /\ born \in Nat /\ NoProc \notin Procs
  BY ContainersAreNumbers, SandboxAssumption DEF SandboxInv
<1>2. call[p][t] = "use"
  BY <1>1 DEF Used
<1>3. call' \in PerThread(CallPoints) /\ At(call, call', p, t, "no")
  <2>1. "no" \in CallPoints /\ call \in PerThread(CallPoints)
    BY <1>1, <1>2, SandboxAssumption DEF SandboxTypeOK, PerThread, CallPoints
  <2>2. call' = [call EXCEPT ![p][t] = "no"]
    BY <1>1 DEF Used, Goto, SandboxTypeOK
  <2> QED
    BY <2>1, <2>2, PutAt
<1>4. found' \in PerThread(0 .. MaxContainers) /\ At(found, found', p, t, 0)
  <2>1. 0 \in 0 .. MaxContainers /\ found \in PerThread(0 .. MaxContainers)
    BY <1>1, <1>2, SandboxAssumption DEF SandboxTypeOK, PerThread, CallPoints
  <2>2. found' = [found EXCEPT ![p][t] = 0]
    BY <1>1 DEF Used, Goto, SandboxTypeOK
  <2> QED
    BY <2>1, <2>2, PutAt
<1>5. /\ UNCHANGED <<backend, up, closing, cache, fresh, flock, releases, sweeps, running, record, born, faults, dropped, unrecorded>>
  BY <1>1, <1>2, SandboxAssumption DEF Used, On, CallFits, AtIt, SandboxTypeOK, callVars, processVars, hostVars, releaseVars, sandboxHistory
<1>6. SandboxTypeOK'
  BY <1>1, <1>2, <1>3, <1>4, <1>5, SandboxAssumption DEF SandboxTypeOK, CallFits, AtIt, Containers, PerThread
<1>7. Frame(p, t)
  <2>1. \A c \in Containers : Known(t, c)' => Known(t, c) \/ (born < c /\ c <= born')
    BY <1>1, <1>2, <1>3, <1>4, <1>5 DEF At, On, Known, Containers
  <2>2. dropped \subseteq dropped' /\ born <= born' /\ releases' = releases
    BY <1>1, <1>2, <1>3, <1>4, <1>5
  <2>3. Known(t, running[t]) /\ Known(t, found[p][t]) /\ (call[p][t] \in Holding => flock[t] = p)
    BY <1>1, <1>2, <1>3, <1>4, <1>5 DEF Known, CallFits
  <2> QED
    BY <1>1, <1>2, <1>3, <1>4, <1>5, <2>1, <2>2, <2>3 DEF Frame, At, On, Holding
<1>8. CallFits(p, t)'
  BY <1>1, <1>2, <1>3, <1>4, <1>5 DEF At, On, CallFits, Holding, AtIt
<1>9. Covered(t)'
  BY <1>1, <1>2, <1>3, <1>4, <1>5 DEF At, On, Covered, CallFits, Holding, AtIt
<1> QED
  BY <1>6, <1>7, <1>8, <1>9, FrameKeeps

\* The steps of a call, all of them.
LEMMA CallKeeps == ASSUME SandboxInv, NEW p \in Procs, NEW t \in SandboxThreads,
                          CallCached(p, t) \/ CallUncached(p, t) \/ LockState(p, t) \/ CallStep(p, t) \/ Used(p, t)
                   PROVE  SandboxInv'
<1>1. Create(p, t) => NewContainer(p, t) \/ SameContainer(p, t)
  BY DEF Create
<1> QED
  BY <1>1, CallCachedKeeps, CallUncachedKeeps, LockStateKeeps, DiscoveredKeeps, NotRecoveredKeeps, NewContainerKeeps,
     SameContainerKeeps, CreateFailsKeeps, ReadyKeeps, NeverReadyKeeps, AdoptKeeps, SaveKeeps, GotKeeps, UsedKeeps
     DEF CallStep

\* What a step of another kind may do to the calls and their containers.
Loosens ==
    /\ \A q \in Procs, u \in SandboxThreads :
          /\ cache'[q][u] \in {0, cache[q][u]}
          /\ \/ /\ call'[q][u] = call[q][u] /\ found'[q][u] = found[q][u] /\ fresh'[q][u] = fresh[q][u]
                /\ flock[u] = q => flock'[u] = q
             \/ call'[q][u] = "no" /\ found'[q][u] = 0 /\ fresh'[q][u] = FALSE
    /\ \A u \in SandboxThreads :
          /\ running'[u] = running[u] \/ (running'[u] = 0 /\ running[u] \in dropped')
          /\ record'[u] => record[u]
    /\ dropped \subseteq dropped' /\ unrecorded \subseteq unrecorded' /\ born' = born

\* A step that makes calls and caches forget, and containers stop, keeps what holds of the calls.
LEMMA LoosensKeeps == ASSUME SandboxInv, Loosens, SandboxTypeOK', ReleaseFits',
                             \A u \in SandboxThreads : Covered(u)'
                      PROVE  SandboxInv'
<1>1. ASSUME NEW q \in Procs, NEW u \in SandboxThreads PROVE CallFits(q, u)'
  <2>1. CallFits(q, u)
    BY DEF SandboxInv
  <2>2. /\ cache'[q][u] \in {0, cache[q][u]}
        /\ running'[u] = running[u] \/ (running'[u] = 0 /\ running[u] \in dropped')
        /\ record'[u] => record[u]
        /\ dropped \subseteq dropped' /\ unrecorded \subseteq unrecorded'
    BY DEF Loosens
  <2>3. CASE /\ call'[q][u] = call[q][u] /\ found'[q][u] = found[q][u] /\ fresh'[q][u] = fresh[q][u]
             /\ flock[u] = q => flock'[u] = q
    BY <2>1, <2>2, <2>3 DEF CallFits
  <2>4. CASE call'[q][u] = "no" /\ found'[q][u] = 0 /\ fresh'[q][u] = FALSE
    BY <2>1, <2>2, <2>4 DEF CallFits, Holding, AtIt
  <2> QED
    BY <2>3, <2>4 DEF Loosens
<1>2. Apart'
  <2>1. ASSUME NEW u \in SandboxThreads, NEW c \in Containers, Known(u, c)' PROVE Known(u, c)
    <3>1. c # 0
      BY SandboxAssumption DEF Containers
    <3> QED
      BY <2>1, <3>1 DEF Known, Loosens
  <2> QED
    BY <2>1 DEF SandboxInv, Apart, Loosens
<1> QED
  BY <1>1, <1>2 DEF SandboxInv

\* The calls of all go on as they were.
LEMMA CallsLeftAlone == ASSUME UNCHANGED <<cache, callVars, flock, hostVars, dropped>>, unrecorded' = unrecorded PROVE Loosens
  BY DEF Loosens, callVars, hostVars

\* What is chosen for release is not yet dropped.
LEMMA ChosenKeeps == ASSUME SandboxInv, NEW p \in Procs, NEW by \in {"idle", "shutdown"},
                            NEW chosen \in SUBSET SandboxThreads, ToRelease(p, by, chosen), Sweep,
                            up' = up, closing' \in [Procs -> BOOLEAN],
                            UNCHANGED <<backend, cache, callVars, flock, hostVars, faults, sandboxHistory>>
                     PROVE  SandboxInv'
<1>1. SandboxTypeOK /\ ReleaseFits /\ \A u \in SandboxThreads : Covered(u)
  BY DEF SandboxInv
<1>2. \A r \in releases' : r \in releases \/ (r \in Releases /\ r.step = "chosen")
  <2>1. \A u \in SandboxThreads : [proc |-> p, thread |-> u, by |-> by, step |-> "chosen", container |-> 0] \in Releases
    BY SandboxAssumption DEF Releases
  <2>2. \A r \in releases' : r \in releases \/ \E u \in chosen :
           r = [proc |-> p, thread |-> u, by |-> by, step |-> "chosen", container |-> 0]
    BY DEF ToRelease
  <2>3. ASSUME NEW r \in releases', r \notin releases PROVE r \in Releases /\ r.step = "chosen"
    <3>1. PICK u \in SandboxThreads : r = [proc |-> p, thread |-> u, by |-> by, step |-> "chosen", container |-> 0]
      BY <2>2, <2>3
    <3> QED
      BY <2>1, <3>1
  <2> QED
    BY <2>3
<1>3. releases \subseteq releases'
  BY DEF ToRelease
<1>4. SandboxTypeOK'
  <2>1. sweeps' \in 0 .. MaxSweeps
    BY <1>1, SandboxAssumption DEF Sweep, SandboxTypeOK
  <2> QED
    BY <1>1, <1>2, <2>1 DEF SandboxTypeOK, callVars, hostVars, sandboxHistory
<1>5. ReleaseFits'
  BY <1>1, <1>2 DEF ReleaseFits, sandboxHistory
<1>6. \A u \in SandboxThreads : Covered(u)'
  BY <1>1, <1>3 DEF Covered, callVars, hostVars, sandboxHistory
<1>7. Loosens
  BY CallsLeftAlone DEF sandboxHistory
<1> QED
  BY <1>4, <1>5, <1>6, <1>7, LoosensKeeps

\* The idle check chooses.
LEMMA ChooseIdleKeeps == ASSUME SandboxInv, NEW p \in Procs, NEW chosen \in SUBSET SandboxThreads, ChooseIdle(p, chosen)
                         PROVE  SandboxInv'
<1>1. ToRelease(p, "idle", chosen) /\ Sweep /\ UNCHANGED <<backend, cache, callVars, flock, hostVars, faults, sandboxHistory>>
  BY DEF ChooseIdle
<1>2. up' = up /\ closing' \in [Procs -> BOOLEAN]
  BY DEF ChooseIdle, SandboxInv, SandboxTypeOK
<1> QED
  BY <1>1, <1>2, ChosenKeeps

\* A process that shuts down chooses what it has cached.
LEMMA ShutdownKeeps == ASSUME SandboxInv, NEW p \in Procs, Shutdown(p) PROVE SandboxInv'
<1> DEFINE chosen == {t \in SandboxThreads : cache[p][t] # 0}
<1>1. ToRelease(p, "shutdown", chosen) /\ Sweep /\ UNCHANGED <<backend, cache, callVars, flock, hostVars, faults, sandboxHistory>>
  BY DEF Shutdown
<1>2. up' = up /\ closing' \in [Procs -> BOOLEAN]
  BY DEF Shutdown, SandboxInv, SandboxTypeOK
<1>3. chosen \in SUBSET SandboxThreads
  OBVIOUS
<1> HIDE DEF chosen
<1> QED
  BY <1>1, <1>2, <1>3, ChosenKeeps

\* A release in its parts.
LEMMA ReleaseParts == ASSUME SandboxTypeOK, NEW r \in releases
    PROVE  /\ r.proc \in Procs /\ r.thread \in SandboxThreads /\ r.by \in {"idle", "shutdown"}
           /\ r.step \in {"chosen", "remove", "destroy"} /\ r.container \in 0 .. MaxContainers
           /\ r = [proc |-> r.proc, thread |-> r.thread, by |-> r.by, step |-> r.step, container |-> r.container]
  BY DEF SandboxTypeOK, Releases

\* A release goes one step further.
LEMMA ReleaseUpdated == ASSUME NEW r \in Releases, NEW s, NEW k
    PROVE  [r EXCEPT !.step = s, !.container = k]
           = [proc |-> r.proc, thread |-> r.thread, by |-> r.by, step |-> s, container |-> k]
<1>1. r = [proc |-> r.proc, thread |-> r.thread, by |-> r.by, step |-> r.step, container |-> r.container]
  BY DEF Releases
<1>2. [r EXCEPT !.step = s] = [proc |-> r.proc, thread |-> r.thread, by |-> r.by, step |-> s, container |-> r.container]
  BY <1>1
<1>3. [r EXCEPT !.step = s, !.container = k] = [[r EXCEPT !.step = s] EXCEPT !.container = k]
  OBVIOUS
<1>4. ASSUME NEW a, NEW b, NEW d, NEW f
      PROVE  [[proc |-> a, thread |-> b, by |-> d, step |-> s, container |-> f] EXCEPT !.container = k]
             = [proc |-> a, thread |-> b, by |-> d, step |-> s, container |-> k]
  OBVIOUS
<1>5. [[proc |-> r.proc, thread |-> r.thread, by |-> r.by, step |-> s, container |-> r.container] EXCEPT !.container = k]
      = [proc |-> r.proc, thread |-> r.thread, by |-> r.by, step |-> s, container |-> k]
  BY <1>4
<1> QED
  BY <1>2, <1>3, <1>5, Zenon

\* A release takes the container out of the cache of its process.
LEMMA DropKeeps == ASSUME SandboxInv, NEW r \in releases, Drop(r) PROVE SandboxInv'
<1> DEFINE p == r.proc
           t == r.thread
           c == cache[p][t]
           new == [r EXCEPT !.step = "remove", !.container = c]
<1>1. SandboxTypeOK /\ ReleaseFits /\ \A u \in SandboxThreads : Covered(u)
  BY DEF SandboxInv
<1>2. p \in Procs /\ t \in SandboxThreads /\ r.by \in {"idle", "shutdown"}
  BY <1>1, ReleaseParts
<1>3. c \in 0 .. MaxContainers
  BY <1>1, <1>2 DEF SandboxTypeOK, PerThread
<1>4. new \in Releases /\ new.step = "remove" /\ new.container = c
  <2>1. new = [proc |-> r.proc, thread |-> r.thread, by |-> r.by, step |-> "remove", container |-> c]
    <3>1. r \in Releases
      BY <1>1 DEF SandboxTypeOK
    <3> QED
      BY <3>1, ReleaseUpdated
  <2> QED
    BY <1>2, <1>3, <2>1 DEF Releases
<1>5. cache' \in PerThread(0 .. MaxContainers) /\ At(cache, cache', p, t, 0)
  <2>1. 0 \in 0 .. MaxContainers /\ cache \in PerThread(0 .. MaxContainers)
    BY <1>1, SandboxAssumption DEF SandboxTypeOK
  <2>2. cache' = [cache EXCEPT ![p][t] = 0]
    BY DEF Drop
  <2> QED
    BY <1>2, <2>1, <2>2, PutAt
<1>6. /\ releases' = (releases \ {r}) \cup (IF c = 0 THEN {} ELSE {new})
      /\ dropped' = IF c = 0 THEN dropped ELSE dropped \cup {c}
      /\ r.step = "chosen"
      /\ UNCHANGED <<backend, up, closing, callVars, flock, sweeps, hostVars, faults, unrecorded>>
  BY DEF Drop
<1> HIDE DEF p, t, c, new
<1>7. SandboxTypeOK'
  <2>1. c # 0 => c \in Containers
    BY <1>3, SandboxAssumption DEF Containers
  <2>2. dropped' \subseteq Containers /\ releases' \subseteq Releases
    BY <1>1, <1>4, <1>6, <2>1 DEF SandboxTypeOK
  <2> QED
    BY <1>1, <1>5, <1>6, <2>2 DEF SandboxTypeOK, callVars, hostVars
<1>8. ReleaseFits'
  BY <1>1, <1>4, <1>6 DEF ReleaseFits
<1>9. \A u \in SandboxThreads : Covered(u)'
  <2>1. \A s \in releases : s.step = "destroy" => s \in releases'
    BY <1>6
  <2> QED
    BY <1>1, <1>6, <2>1 DEF Covered, callVars, hostVars
<1>10. Loosens
  BY <1>5, <1>6 DEF Loosens, At, callVars, hostVars
<1> QED
  BY <1>7, <1>8, <1>9, <1>10, LoosensKeeps

\* A release removes the record: from here on it covers the container itself.
LEMMA RemoveFileKeeps == ASSUME SandboxInv, NEW r \in releases, RemoveFile(r) PROVE SandboxInv'
<1> DEFINE t == r.thread
           new == [r EXCEPT !.step = "destroy"]
<1>1. SandboxTypeOK /\ ReleaseFits /\ \A u \in SandboxThreads : Covered(u)
  BY DEF SandboxInv
<1>2. t \in SandboxThreads /\ r \in Releases
  BY <1>1, ReleaseParts DEF SandboxTypeOK
<1>3. new \in Releases /\ new.step = "destroy" /\ new.container = r.container /\ new.thread = t
  <2>1. new = [proc |-> r.proc, thread |-> r.thread, by |-> r.by, step |-> "destroy", container |-> r.container]
    BY <1>1, ReleaseParts
  <2> QED
    BY <1>1, <2>1, ReleaseParts DEF Releases
<1>4. /\ releases' = (releases \ {r}) \cup {new} /\ r.step = "remove"
      /\ UNCHANGED <<backend, up, closing, cache, callVars, flock, sweeps, running, born, dropped>>
  BY DEF RemoveFile
<1>5. /\ faults' \in 0 .. MaxFaults
      /\ \/ /\ record' = [record EXCEPT ![t] = FALSE]
            /\ unrecorded' = IF record[t] THEN unrecorded \cup (Runs(t) \ {r.container}) ELSE unrecorded
         \/ record' = record /\ unrecorded' = unrecorded
  BY <1>1, SandboxAssumption DEF RemoveFile, SandboxTypeOK, Fault, NoFault
<1> HIDE DEF new, t
<1>6. /\ record' \in [SandboxThreads -> BOOLEAN]
      /\ \A u \in SandboxThreads : record'[u] => record[u]
      /\ \A u \in SandboxThreads : u # t => record'[u] = record[u]
      /\ record'[t] = record[t] \/ (record[t] => Runs(t) \ {r.container} \subseteq unrecorded')
      /\ unrecorded \subseteq unrecorded' /\ unrecorded' \subseteq unrecorded \cup Runs(t)
  <2>1. record \in [SandboxThreads -> BOOLEAN]
    BY <1>1 DEF SandboxTypeOK
  <2>2. CASE record' = record /\ unrecorded' = unrecorded
    BY <2>1, <2>2
  <2>3. CASE /\ record' = [record EXCEPT ![t] = FALSE]
             /\ unrecorded' = IF record[t] THEN unrecorded \cup (Runs(t) \ {r.container}) ELSE unrecorded
    BY <1>2, <2>1, <2>3
  <2> QED
    BY <1>5, <2>2, <2>3
<1>7. SandboxTypeOK'
  <2>1. Runs(t) \subseteq Containers
    BY <1>1, <1>2, SandboxAssumption DEF Runs, SandboxTypeOK, Containers
  <2>2. unrecorded' \subseteq Containers /\ releases' \subseteq Releases
    BY <1>1, <1>3, <1>4, <1>6, <2>1 DEF SandboxTypeOK
  <2> QED
    BY <1>1, <1>4, <1>5, <1>6, <2>2 DEF SandboxTypeOK, callVars
<1>8. ReleaseFits'
  BY <1>1, <1>3, <1>4 DEF ReleaseFits
<1>9. ASSUME NEW u \in SandboxThreads PROVE Covered(u)'
  <2>1. \A s \in releases : s.step = "destroy" => s \in releases'
    BY <1>4
  <2>2. CASE record'[u] = record[u]
    BY <1>1, <1>4, <1>6, <2>1, <2>2 DEF Covered, callVars
  <2>3. CASE record'[u] # record[u]
    <3>1. u = t /\ record[t]
      BY <1>1, <1>2, <1>6, <2>3 DEF SandboxTypeOK
    <3>2. running[t] # 0 => running[t] = r.container \/ running[t] \in unrecorded'
      BY <1>6, <2>3, <3>1 DEF Runs
    <3>3. new \in releases'
      BY <1>4
    <3> QED
      BY <1>3, <1>4, <3>1, <3>2, <3>3 DEF Covered
  <2> QED
    BY <2>2, <2>3
<1>10. Loosens
  BY <1>4, <1>6 DEF Loosens, callVars
<1> QED
  BY <1>7, <1>8, <1>9, <1>10, LoosensKeeps

\* A release stops its container.
LEMMA DestroyKeeps == ASSUME SandboxInv, NEW r \in releases, Destroy(r) PROVE SandboxInv'
<1> DEFINE t == r.thread
           c == r.container
<1>1. SandboxTypeOK /\ ReleaseFits /\ \A u \in SandboxThreads : Covered(u)
  BY DEF SandboxInv
<1>2. t \in SandboxThreads /\ c \in dropped
  BY <1>1, ReleaseParts DEF ReleaseFits, Destroy
<1>3. releases' = releases \ {r} /\ UNCHANGED <<backend, up, closing, cache, callVars, flock, sweeps, record, born>>
  BY DEF Destroy
<1>4. /\ faults' \in 0 .. MaxFaults
      /\ \/ Stop(t, c) /\ unrecorded' = unrecorded
         \/ running' = running /\ dropped' = dropped /\ unrecorded' = unrecorded \cup {c}
  BY <1>1, SandboxAssumption DEF Destroy, SandboxTypeOK, Fault, NoFault
<1>5. /\ running' \in [SandboxThreads -> 0 .. MaxContainers]
      /\ \A u \in SandboxThreads : running'[u] = running[u] \/ (u = t /\ running'[u] = 0 /\ running[u] \in dropped')
      /\ running'[t] # 0 => running[t] # c \/ c \in unrecorded'
      /\ dropped \subseteq dropped' /\ dropped' \subseteq dropped \cup Runs(t)
      /\ unrecorded \subseteq unrecorded' /\ unrecorded' \subseteq unrecorded \cup {c}
  <2>1. running \in [SandboxThreads -> 0 .. MaxContainers] /\ 0 \in 0 .. MaxContainers
    BY <1>1, SandboxAssumption DEF SandboxTypeOK
  <2>2. CASE running' = running /\ dropped' = dropped /\ unrecorded' = unrecorded \cup {c}
    BY <2>1, <2>2
  <2>3. CASE Stop(t, c) /\ unrecorded' = unrecorded
    <3>1. /\ running' = IF Stopped(t, c) = {} THEN running ELSE [running EXCEPT ![t] = 0]
          /\ dropped' = dropped \cup Stopped(t, c)
      BY <1>2, <2>3 DEF Stop
    <3>2. Stopped(t, c) \subseteq Runs(t) /\ (running[t] = c /\ c # 0 => Stopped(t, c) # {})
      BY DEF Stopped, Runs
    <3>3. Stopped(t, c) # {} => running[t] \in Stopped(t, c)
      BY <3>2 DEF Runs
    <3> QED
      BY <1>2, <2>1, <2>3, <3>1, <3>2, <3>3
  <2> QED
    BY <1>4, <2>2, <2>3
<1> HIDE DEF t, c
<1>6. SandboxTypeOK'
  <2>1. Runs(t) \subseteq Containers
    BY <1>1, <1>2, SandboxAssumption DEF Runs, SandboxTypeOK, Containers
  <2>2. unrecorded' \subseteq Containers /\ dropped' \subseteq Containers /\ releases' \subseteq Releases
    BY <1>1, <1>2, <1>3, <1>5, <2>1 DEF SandboxTypeOK
  <2> QED
    BY <1>1, <1>3, <1>4, <1>5, <2>2 DEF SandboxTypeOK, callVars
<1>7. ReleaseFits'
  BY <1>1, <1>3, <1>5 DEF ReleaseFits
<1>8. ASSUME NEW u \in SandboxThreads PROVE Covered(u)'
  <2>1. SUFFICES ASSUME running'[u] # 0, ~record[u], running[u] \notin unrecorded',
                        \A p \in Procs : ~(fresh[p][u] /\ found[p][u] = running[u])
                 PROVE  \E s \in releases' : s.thread = u /\ s.step = "destroy" /\ s.container = running'[u]
    BY <1>3, <1>5 DEF Covered, callVars
  <2>2. running'[u] = running[u]
    BY <1>5, <2>1
  <2>3. PICK s \in releases : s.thread = u /\ s.step = "destroy" /\ s.container = running[u]
    BY <1>1, <1>5, <2>1, <2>2 DEF Covered
  <2>4. s # r
    BY <1>5, <2>1, <2>2, <2>3 DEF t, c
  <2> QED
    BY <1>3, <2>2, <2>3, <2>4
<1>9. Loosens
  BY <1>3, <1>5 DEF Loosens, callVars
<1> QED
  BY <1>6, <1>7, <1>8, <1>9, LoosensKeeps

\* A process is gone, and with it its cache, its calls, its releases and its locks.
LEMMA VanishKeeps == ASSUME SandboxInv, NEW p \in Procs, Vanish(p), faults' \in 0 .. MaxFaults PROVE SandboxInv'
<1>1. SandboxTypeOK /\ ReleaseFits /\ (\A u \in SandboxThreads : Covered(u)) /\ NoProc \notin Procs
  BY SandboxAssumption DEF SandboxInv
<1>2. UNCHANGED <<backend, closing, sweeps, running, record, born, dropped>> /\ releases' = {r \in releases : r.proc # p}
  BY DEF Vanish, hostVars
<1>3. unrecorded \subseteq unrecorded' /\ unrecorded' \subseteq Containers
  <2>1. \A t \in SandboxThreads : fresh[p][t] => found[p][t] \in Containers
    <3>1. ASSUME NEW t \in SandboxThreads, fresh[p][t] PROVE found[p][t] \in Containers
      <4>1. found[p][t] # 0
        BY <3>1 DEF SandboxInv, CallFits
      <4>2. found[p][t] \in 0 .. MaxContainers
        BY <1>1 DEF SandboxTypeOK, PerThread
      <4> QED
        BY <4>1, <4>2, SandboxAssumption DEF Containers
    <3> QED
      BY <3>1
  <2>2. \A r \in releases : r.step = "destroy" => r.container \in Containers
    BY <1>1 DEF ReleaseFits, SandboxTypeOK
  <2> QED
    BY <1>1, <2>1, <2>2 DEF Vanish, SandboxTypeOK
<1>4. /\ cache' = [cache EXCEPT ![p] = [t \in SandboxThreads |-> 0]]
      /\ call' = [call EXCEPT ![p] = [t \in SandboxThreads |-> "no"]]
      /\ found' = [found EXCEPT ![p] = [t \in SandboxThreads |-> 0]]
      /\ fresh' = [fresh EXCEPT ![p] = [t \in SandboxThreads |-> FALSE]]
      /\ flock' = [t \in SandboxThreads |-> IF flock[t] = p THEN NoProc ELSE flock[t]]
      /\ up' = [up EXCEPT ![p] = FALSE]
  BY DEF Vanish
<1>5. SandboxTypeOK'
  <2>1. 0 \in 0 .. MaxContainers /\ "no" \in CallPoints
    BY SandboxAssumption DEF CallPoints
  <2>2. cache' \in PerThread(0 .. MaxContainers) /\ found' \in PerThread(0 .. MaxContainers)
    BY <1>1, <1>4, <2>1 DEF SandboxTypeOK, PerThread
  <2>3. call' \in PerThread(CallPoints) /\ fresh' \in PerThread(BOOLEAN)
    BY <1>1, <1>4, <2>1 DEF SandboxTypeOK, PerThread
  <2>4. flock' \in [SandboxThreads -> Procs \cup {NoProc}] /\ up' \in [Procs -> BOOLEAN]
    BY <1>1, <1>4 DEF SandboxTypeOK
  <2> QED
    BY <1>1, <1>2, <1>3, <2>2, <2>3, <2>4 DEF SandboxTypeOK
<1>6. \A q \in Procs, u \in SandboxThreads :
         IF q = p THEN cache'[q][u] = 0 /\ call'[q][u] = "no" /\ found'[q][u] = 0 /\ fresh'[q][u] = FALSE
         ELSE /\ cache'[q][u] = cache[q][u] /\ call'[q][u] = call[q][u]
              /\ found'[q][u] = found[q][u] /\ fresh'[q][u] = fresh[q][u]
  BY <1>1, <1>4 DEF SandboxTypeOK, PerThread
<1>7. ReleaseFits'
  BY <1>1, <1>2 DEF ReleaseFits
<1>8. ASSUME NEW u \in SandboxThreads PROVE Covered(u)'
  <2>1. SUFFICES ASSUME running[u] # 0, ~record[u], running[u] \notin unrecorded'
                 PROVE  \/ \E q \in Procs : fresh'[q][u] /\ found'[q][u] = running[u]
                        \/ \E r \in releases' : r.thread = u /\ r.step = "destroy" /\ r.container = running[u]
    BY <1>2 DEF Covered
  <2>2. ~(fresh[p][u] /\ found[p][u] = running[u])
    BY <2>1 DEF Vanish
  <2>3. \A r \in releases : r.step = "destroy" /\ r.container = running[u] => r.proc # p
    BY <2>1 DEF Vanish
  <2>4. CASE \E q \in Procs : fresh[q][u] /\ found[q][u] = running[u]
    BY <1>6, <2>2, <2>4
  <2>5. CASE \E r \in releases : r.thread = u /\ r.step = "destroy" /\ r.container = running[u]
    BY <1>2, <2>3, <2>5
  <2> QED
    BY <1>1, <1>3, <2>1, <2>4, <2>5 DEF Covered
<1>9. Loosens
  BY ZenonT(30), <1>2, <1>3, <1>4, <1>6 DEF Loosens
<1> QED
  BY <1>5, <1>7, <1>8, <1>9, LoosensKeeps

\* A process begins with nothing.
LEMMA StartProcessKeeps == ASSUME SandboxInv, NEW p \in Procs, StartProcess(p) PROVE SandboxInv'
<1>1. SandboxTypeOK'
  BY DEF SandboxInv, SandboxTypeOK, StartProcess, callVars, releaseVars, hostVars, sandboxHistory
<1>2. UNCHANGED <<cache, callVars, flock, hostVars, dropped>> /\ unrecorded' = unrecorded /\ releases' = releases
  BY DEF StartProcess, releaseVars, sandboxHistory
<1>3. ReleaseFits' /\ \A u \in SandboxThreads : Covered(u)'
  BY <1>2 DEF SandboxInv, ReleaseFits, Covered, callVars, hostVars
<1> QED
  BY <1>1, <1>2, <1>3, CallsLeftAlone, LoosensKeeps

\* A container stops by itself.
LEMMA ContainerDiesKeeps == ASSUME SandboxInv, NEW t \in SandboxThreads, ContainerDies(t) PROVE SandboxInv'
<1>1. SandboxTypeOK /\ ReleaseFits /\ \A u \in SandboxThreads : Covered(u)
  BY DEF SandboxInv
<1>2. /\ UNCHANGED <<backend, processVars, releaseVars, record, born, unrecorded>>
      /\ running' = [running EXCEPT ![t] = 0] /\ dropped' = dropped \cup {running[t]} /\ running[t] # 0
  BY DEF ContainerDies, Runs
<1>3. SandboxTypeOK'
  <2>1. running' \in [SandboxThreads -> 0 .. MaxContainers] /\ running[t] \in Containers
    BY <1>1, <1>2, SandboxAssumption DEF SandboxTypeOK, Containers
  <2>2. faults' \in 0 .. MaxFaults
    BY <1>1, SandboxAssumption DEF ContainerDies, Fault, SandboxTypeOK
  <2> QED
    BY <1>1, <1>2, <2>1, <2>2 DEF SandboxTypeOK, processVars, callVars, releaseVars
<1>4. \A u \in SandboxThreads : running'[u] = IF u = t THEN 0 ELSE running[u]
  BY <1>1, <1>2 DEF SandboxTypeOK
<1>5. ReleaseFits'
  BY <1>1, <1>2 DEF ReleaseFits, releaseVars
<1>6. \A u \in SandboxThreads : Covered(u)'
  BY <1>1, <1>2, <1>4 DEF Covered, processVars, callVars, releaseVars
<1>7. Loosens
  BY <1>2, <1>4 DEF Loosens, processVars, callVars
<1> QED
  BY <1>3, <1>5, <1>6, <1>7, LoosensKeeps

\* No container runs at the start.
LEMMA SandboxInitially == SandboxInit => SandboxInv
<1> SUFFICES ASSUME SandboxInit PROVE SandboxInv
  OBVIOUS
<1>0. MaxContainers \in Nat /\ MaxFaults \in Nat /\ MaxSweeps \in Nat
  BY SandboxAssumption
<1>1. SandboxTypeOK
  BY <1>0 DEF SandboxInit, SandboxTypeOK, PerThread, All, CallPoints
<1>2. \A p \in Procs, t \in SandboxThreads : CallFits(p, t)
  BY DEF SandboxInit, CallFits, All, Holding, AtIt
<1>3. (\A t \in SandboxThreads : Covered(t)) /\ ReleaseFits
  BY DEF SandboxInit, Covered, ReleaseFits
<1>4. Apart
  BY <1>0 DEF SandboxInit, Apart, Known, All, Containers
<1> QED
  BY <1>1, <1>2, <1>3, <1>4 DEF SandboxInv

\* Every step of every process keeps the invariant.
LEMMA SandboxKeeps == ASSUME SandboxInv, [SandboxNext]_sandboxVars PROVE SandboxInv'
<1>1. CASE UNCHANGED sandboxVars
  <2>1. /\ UNCHANGED <<cache, callVars, flock, hostVars, dropped>> /\ unrecorded' = unrecorded /\ releases' = releases
        /\ UNCHANGED <<backend, up, closing, sweeps, faults>>
    BY <1>1 DEF sandboxVars, processVars, releaseVars, sandboxHistory
  <2>2. SandboxTypeOK'
    BY <2>1 DEF SandboxInv, SandboxTypeOK, callVars, hostVars
  <2>3. ReleaseFits' /\ \A u \in SandboxThreads : Covered(u)'
    BY <2>1 DEF SandboxInv, ReleaseFits, Covered, callVars, hostVars
  <2> QED
    BY <2>1, <2>2, <2>3, CallsLeftAlone, LoosensKeeps
<1>2. ASSUME NEW p \in Procs, Crash(p) \/ ExitProcess(p) PROVE SandboxInv'
  <2>1. Vanish(p)
    BY <1>2 DEF Crash, ExitProcess
  <2>2. faults' \in 0 .. MaxFaults
    BY <1>2, SandboxAssumption DEF Crash, ExitProcess, Fault, NoFault, SandboxInv, SandboxTypeOK
  <2> QED
    BY <2>1, <2>2, VanishKeeps
<1> QED
  BY <1>1, <1>2, CallKeeps, ChooseIdleKeeps, ShutdownKeeps, StartProcessKeeps, DropKeeps, RemoveFileKeeps, DestroyKeeps,
     ContainerDiesKeeps DEF SandboxNext

\* The invariant is stronger than what it is for.
LEMMA SandboxImplied == SandboxInv => SandboxTypeOK /\ ContainersAccounted
<1> SUFFICES ASSUME SandboxInv PROVE SandboxTypeOK /\ ContainersAccounted
  OBVIOUS
<1>1. StaleHasAReason
  BY DEF SandboxInv, CallFits, StaleHasAReason
<1>2. NoneForgotten
  BY DEF SandboxInv, Covered, NoneForgotten
<1> QED
  BY <1>1, <1>2 DEF SandboxInv, ContainersAccounted

\* Whatever processes ask for sandboxes, release them and die at any point: a container that
\* runs is found again or was lost for a named reason, and nobody holds a container that is
\* gone without a named reason (aio_sandbox_provider.py, its state store and backends).
THEOREM SandboxesAccounted == SandboxSpec => [](SandboxTypeOK /\ ContainersAccounted)
  BY SandboxInitially, SandboxKeeps, SandboxImplied, PTL DEF SandboxSpec

-----------------------------------------------------------------------------
(***************************************************************************)
(* The memory queue. A conversation is in one place is inductive; that no  *)
(* update is lost is not: an update writes the whole memory as it has read *)
(* it, plus its facts. The invariant adds that, unless batches overlap,    *)
(* one batch is open, the flag says so, and the one update under way is    *)
(* the one that the batch waits for and has read what is stored.           *)
(***************************************************************************)

\* Conversations that are queued, taken or handed over have been added.
Added ==
    /\ \A i \in DOMAIN queue : queue[i].conv \in 1 .. Len(added)
    /\ \A b \in DOMAIN batches : \A i \in DOMAIN batches[b].left : batches[b].left[i].conv \in 1 .. Len(added)
    /\ \A n \in Conversations : job[n] # "none" => n \in 1 .. Len(added)

\* What a batch waits for has been handed over.
WaitingFits == \A b \in DOMAIN batches : batches[b].waiting =>
    batches[b].left # <<>> /\ job[batches[b].left[1].conv] # "none"

\* Only a thread with an entry is owed signals.
OwedQueued == \A t \in ChatThreads : owed[t] # {} => \E e \in ToSet(queue) : added[e.conv] = t

\* One batch is open, while _processing; it waits for the only update under way, which has
\* read what is stored.
OneAtATime ==
    /\ \A a, b \in DOMAIN batches : batches[a].open /\ batches[b].open => a = b
    /\ processing <=> \E b \in DOMAIN batches : batches[b].open
    /\ \A b \in DOMAIN batches : batches[b].waiting => batches[b].open
    /\ \A n \in Conversations : job[n] \in {"queued", "asked"} =>
          \E b \in DOMAIN batches : batches[b].waiting /\ n = batches[b].left[1].conv
    /\ \A n \in Conversations : job[n] = "asked" => read[n].sections = sections /\ read[n].facts = Stored
    /\ \A f \in FactKeys : facts[f] <= 1

MemoryInv ==
    /\ MemoryTypeOK /\ Added /\ WaitingFits /\ EachInOnePlace /\ SignalsCarried /\ OwedQueued
    /\ overlap \/ OneAtATime

MemoryBatch == [left : Seq(Entries), open : BOOLEAN, waiting : BOOLEAN]

\* A batch is replaced by another record.
LEMMA BatchPut == ASSUME NEW s \in Seq(MemoryBatch), NEW b \in DOMAIN s, NEW r \in MemoryBatch
                  PROVE  /\ [s EXCEPT ![b] = r] \in Seq(MemoryBatch)
                         /\ DOMAIN [s EXCEPT ![b] = r] = DOMAIN s
                         /\ \A a \in DOMAIN s : [s EXCEPT ![b] = r][a] = IF a = b THEN r ELSE s[a]
<1>1. \A a \in DOMAIN s : [s EXCEPT ![b] = r][a] = IF a = b THEN r ELSE s[a]
  OBVIOUS
<1>2. [s EXCEPT ![b] = r] \in Seq(MemoryBatch)
  BY ElementOfSeq, SeqDef
<1> QED
  BY <1>1, <1>2

\* One field of a batch is replaced.
LEMMA FieldPut == ASSUME NEW r \in MemoryBatch, NEW v
                  PROVE  /\ [r EXCEPT !.waiting = v] = [left |-> r.left, open |-> r.open, waiting |-> v]
                         /\ [r EXCEPT !.open = v] = [left |-> r.left, open |-> v, waiting |-> r.waiting]
                         /\ [r EXCEPT !.left = v] = [left |-> v, open |-> r.open, waiting |-> r.waiting]
  BY DEF MemoryBatch

\* The types of the queue and of its batches, one by one.
LEMMA MemoryKnown == MemoryInv =>
    /\ added \in Seq(ChatThreads) /\ Len(added) \in 0 .. MaxAdds /\ MaxAdds \in Nat
    /\ queue \in Seq(Entries) /\ DOMAIN queue = 1 .. Len(queue) /\ Len(queue) \in Nat
    /\ batches \in Seq(MemoryBatch) /\ DOMAIN batches = 1 .. Len(batches) /\ Len(batches) \in Nat
    /\ \A b \in DOMAIN batches : batches[b] \in MemoryBatch
    /\ job \in [Conversations -> {"none", "queued", "asked", "done"}]
    /\ 1 .. Len(added) \subseteq Conversations
<1> SUFFICES ASSUME MemoryInv
             PROVE  /\ added \in Seq(ChatThreads) /\ Len(added) \in 0 .. MaxAdds /\ MaxAdds \in Nat
                    /\ queue \in Seq(Entries) /\ DOMAIN queue = 1 .. Len(queue) /\ Len(queue) \in Nat
                    /\ batches \in Seq(MemoryBatch) /\ DOMAIN batches = 1 .. Len(batches) /\ Len(batches) \in Nat
                    /\ \A b \in DOMAIN batches : batches[b] \in MemoryBatch
                    /\ job \in [Conversations -> {"none", "queued", "asked", "done"}]
                    /\ 1 .. Len(added) \subseteq Conversations
  OBVIOUS
<1>1. /\ added \in Seq(ChatThreads) /\ Len(added) <= MaxAdds
      /\ queue \in Seq(Entries) /\ batches \in Seq(MemoryBatch)
      /\ job \in [Conversations -> {"none", "queued", "asked", "done"}]
  BY DEF MemoryInv, MemoryTypeOK, MemoryBatch
<1>2. MaxAdds \in Nat /\ Len(added) \in Nat
  BY <1>1, MemoryAssumption
<1>3. \A b \in DOMAIN batches : batches[b] \in MemoryBatch
  BY <1>1
<1>4. 1 .. Len(added) \subseteq Conversations
  BY <1>1, <1>2 DEF Conversations
<1> QED
  BY <1>1, <1>2, <1>3, <1>4

\* Steps that change only timers and calls.
LEMMA TimersKeep == ASSUME MemoryInv, MemoryTypeOK',
                           UNCHANGED <<added, queue, processing, batches, owed, superseded, cleared, updateVars, overlap>>
                    PROVE  MemoryInv'
<1>1. UNCHANGED <<added, queue, processing, batches, owed, superseded, cleared, job, read, sections, facts, overlap>>
  BY DEF updateVars
<1>2. Added' /\ WaitingFits'
  BY <1>1 DEF MemoryInv, Added, WaitingFits
<1>3. EachInOnePlace' /\ SignalsCarried' /\ OwedQueued'
  BY <1>1 DEF MemoryInv, EachInOnePlace, SignalsCarried, OwedQueued, ConvsIn, InBatches
<1>4. (overlap \/ OneAtATime)'
  BY <1>1 DEF MemoryInv, OneAtATime, Stored
<1> QED
  BY <1>2, <1>3, <1>4 DEF MemoryInv

\* A timer that fires, and a call that finds nothing to do or has to wait.
LEMMA TimerStepsKeep == ASSUME MemoryInv, TimerFires \/ ProcessLater \/ ProcessNothing \/ Flush \/ UNCHANGED memoryVars
                        PROVE  MemoryInv'
<1>1. UNCHANGED <<added, queue, processing, batches, owed, superseded, cleared, updateVars, overlap>>
  BY DEF TimerFires, ProcessLater, ProcessNothing, Flush, memoryVars, queueVars
<1>2. armed' \in BOOLEAN /\ stray' \in Nat /\ woken' \in Nat
  <2>1. armed \in BOOLEAN /\ stray \in Nat /\ woken \in Nat
    BY DEF MemoryInv, MemoryTypeOK
  <2>2. \/ UNCHANGED <<armed, stray, woken>>
        \/ /\ armed' \in {armed, TRUE, FALSE}
           /\ stray' = stray \/ (stray > 0 /\ stray' = stray - 1)
           /\ woken' = woken + 1 \/ (woken > 0 /\ woken' = woken - 1)
    BY DEF TimerFires, ProcessLater, ProcessNothing, Flush, Rearm, memoryVars, timerVars
  <2>3. armed' \in BOOLEAN
    BY <2>1, <2>2, Zenon
  <2>4. stray' \in Nat
    <3>1. stray' = stray \/ (stray > 0 /\ stray' = stray - 1)
      BY <2>2
    <3> QED
      BY <2>1, <3>1
  <2>5. woken' \in Nat
    <3>1. woken' = woken \/ woken' = woken + 1 \/ (woken > 0 /\ woken' = woken - 1)
      BY <2>2
    <3> QED
      BY <2>1, <3>1
  <2> QED
    BY <2>3, <2>4, <2>5
<1>3. calls' \in [flush : 0 .. MaxFlushes, clear : 0 .. MaxClears]
  <2>1. calls \in [flush : 0 .. MaxFlushes, clear : 0 .. MaxClears]
    BY DEF MemoryInv, MemoryTypeOK
  <2>2. CASE Flush
    BY <2>1, <2>2, MemoryAssumption DEF Flush
  <2>3. CASE ~Flush
    BY <2>1, <2>3 DEF TimerFires, ProcessLater, ProcessNothing, memoryVars, queueVars
  <2> QED
    BY <2>2, <2>3
<1>4. MemoryTypeOK'
  BY <1>1, <1>2, <1>3 DEF MemoryInv, MemoryTypeOK, updateVars
<1> QED
  BY <1>1, <1>4, TimersKeep

\* An add(): the entries of other threads are kept in their order, and the new one is last.
LEMMA AddIs == ASSUME MemoryInv, NEW t \in ChatThreads, NEW s \in SUBSET Signals, Add(t, s)
               PROVE  LET n == Len(added) + 1
                          L == Len(OfOthers(t))
                      IN /\ n \in Conversations /\ L \in Nat
                         /\ queue' \in Seq(Entries) /\ DOMAIN queue' = 1 .. (L + 1)
                         /\ 1 .. (L + 1) = (1 .. L) \cup {L + 1} /\ L + 1 \notin 1 .. L
                         /\ queue'[L + 1] = [conv |-> n, signals |-> MergedSignals(t, s)]
                         /\ \A k \in 1 .. L : queue'[k] \in ToSet(queue) /\ added[queue'[k].conv] # t
                         /\ \A j \in DOMAIN queue : added[queue[j].conv] # t => \E k \in 1 .. L : queue'[k] = queue[j]
                         /\ \A k, l \in 1 .. L : k < l =>
                               \E i, j \in DOMAIN queue : i < j /\ queue'[k] = queue[i] /\ queue'[l] = queue[j]
<1> DEFINE n == Len(added) + 1
           others == OfOthers(t)
           new == [conv |-> n, signals |-> MergedSignals(t, s)]
           L == Len(others)
<1>1. /\ Len(added) \in 0 .. MaxAdds /\ MaxAdds \in Nat
      /\ queue \in Seq(Entries) /\ DOMAIN queue = 1 .. Len(queue)
  BY MemoryKnown
<1>2. Len(added) < MaxAdds /\ queue' = Append(others, new)
  BY DEF Add, Enqueue
<1>3. n \in Conversations
  BY <1>1, <1>2 DEF Conversations
<1>4. \A e \in OfThread(t) : e.signals \subseteq Signals
  <2>1. \A e \in ToSet(queue) : e \in Entries
    BY <1>1 DEF ToSet
  <2> QED
    BY <2>1 DEF OfThread, Entries
<1>5. MergedSignals(t, s) \subseteq Signals
  BY <1>4 DEF MergedSignals
<1>6. new \in Entries
  BY <1>3, <1>5 DEF Entries
<1>7. IsWithout(others, queue, OfThread(t), Len(queue), Entries)
  BY <1>1, WithoutIs DEF OfOthers
<1> HIDE DEF n, new, others
<1>8. /\ others \in Seq(Entries) /\ L \in Nat
      /\ \A k \in 1 .. L : others[k] \in ToSet(queue) /\ added[others[k].conv] # t
      /\ \A j \in DOMAIN queue : added[queue[j].conv] # t => \E k \in 1 .. L : others[k] = queue[j]
  <2>1. others \in Seq(Entries) /\ L \in Nat
    BY <1>7 DEF IsWithout
  <2>2. \A k \in 1 .. L : others[k] \in ToSet(queue) /\ others[k] \notin OfThread(t)
    BY <1>1, <1>7 DEF IsWithout, ToSet
  <2>3. \A j \in DOMAIN queue : queue[j] \notin OfThread(t) => \E k \in 1 .. L : others[k] = queue[j]
    BY <1>1, <1>7 DEF IsWithout
  <2> QED
    BY <2>1, <2>2, <2>3 DEF OfThread
<1>9. /\ queue' \in Seq(Entries) /\ Len(queue') = L + 1 /\ DOMAIN queue' = 1 .. (L + 1)
       /\ queue'[L + 1] = new /\ \A k \in 1 .. L : queue'[k] = others[k]
       /\ 1 .. (L + 1) = (1 .. L) \cup {L + 1} /\ L + 1 \notin 1 .. L
  BY <1>2, <1>6, <1>8
<1>10. \A k \in 1 .. L : queue'[k] \in ToSet(queue) /\ added[queue'[k].conv] # t
  BY <1>8, <1>9
<1>11. \A k, l \in 1 .. L : k < l => \E i, j \in DOMAIN queue : i < j /\ queue'[k] = queue[i] /\ queue'[l] = queue[j]
  <2>1. \A k, l \in 1 .. L : k < l => \E i, j \in 1 .. Len(queue) : i < j /\ others[k] = queue[i] /\ others[l] = queue[j]
    BY <1>7 DEF IsWithout
  <2>2. \A k \in 1 .. L : queue'[k] = others[k]
    BY <1>9
  <2>3. DOMAIN queue = 1 .. Len(queue)
    BY <1>1
  <2>4. SUFFICES ASSUME NEW k \in 1 .. L, NEW l \in 1 .. L, k < l
                 PROVE  \E i, j \in DOMAIN queue : i < j /\ queue'[k] = queue[i] /\ queue'[l] = queue[j]
    OBVIOUS
  <2> HIDE DEF L
  <2>5. PICK i \in 1 .. Len(queue), j \in 1 .. Len(queue) : i < j /\ others[k] = queue[i] /\ others[l] = queue[j]
    BY <2>1, <2>4
  <2>6. queue'[k] = queue[i] /\ queue'[l] = queue[j]
    BY <2>2, <2>5
  <2> QED
    BY <2>3, <2>5, <2>6
<1>12. /\ n \in Conversations /\ L \in Nat
       /\ queue' \in Seq(Entries) /\ DOMAIN queue' = 1 .. (L + 1)
       /\ 1 .. (L + 1) = (1 .. L) \cup {L + 1} /\ L + 1 \notin 1 .. L
       /\ queue'[L + 1] = new
       /\ \A k \in 1 .. L : queue'[k] \in ToSet(queue) /\ added[queue'[k].conv] # t
       /\ \A j \in DOMAIN queue : added[queue[j].conv] # t => \E k \in 1 .. L : queue'[k] = queue[j]
  <2> HIDE DEF L
  <2>1. n \in Conversations
    BY <1>3
  <2>2. \A j \in DOMAIN queue : added[queue[j].conv] # t => \E k \in 1 .. L : queue'[k] = queue[j]
    BY <1>8, <1>9
  <2> QED
    BY <1>8, <1>9, <1>10, <2>1, <2>2
<1> QED
  BY <1>11, <1>12, Zenon DEF n, new, others

\* A conversation is queued, and takes over the signals of the one it replaces.
LEMMA AddKeeps == ASSUME MemoryInv, NEW t \in ChatThreads, NEW s \in SUBSET Signals, Add(t, s) PROVE MemoryInv'
<1> DEFINE n == Len(added) + 1
           new == [conv |-> n, signals |-> MergedSignals(t, s)]
           L == Len(OfOthers(t))
<1>1. /\ added \in Seq(ChatThreads) /\ Len(added) \in 0 .. MaxAdds /\ MaxAdds \in Nat
      /\ queue \in Seq(Entries) /\ DOMAIN queue = 1 .. Len(queue)
      /\ 1 .. Len(added) \subseteq Conversations
  BY MemoryKnown
<1>2. /\ Len(added) < MaxAdds /\ added' = Append(added, t) /\ queue' = Append(OfOthers(t), new)
      /\ superseded' = superseded \cup {e.conv : e \in OfThread(t)}
      /\ owed' = [owed EXCEPT ![t] = @ \cup s] /\ armed' = TRUE
      /\ UNCHANGED <<stray, woken, processing, batches, calls, cleared, job, read, sections, facts, overlap>>
  BY DEF Add, Enqueue, updateVars
<1>3. /\ n \in Conversations /\ Len(added') = n /\ added' \in Seq(ChatThreads) /\ Len(added') <= MaxAdds
      /\ added'[n] = t /\ \A i \in 1 .. Len(added) : added'[i] = added[i] /\ i # n
      /\ 1 .. n = (1 .. Len(added)) \cup {n}
  BY <1>1, <1>2 DEF Conversations
<1>4. \A e \in ToSet(queue) : e \in Entries /\ e.conv \in 1 .. Len(added) /\ e.signals = owed[added[e.conv]]
  <2>1. \A e \in ToSet(queue) : e \in Entries
    BY <1>1 DEF ToSet
  <2>2. \A e \in ToSet(queue) : e.conv \in 1 .. Len(added)
    BY DEF MemoryInv, Added, ToSet
  <2> QED
    BY <2>1, <2>2 DEF MemoryInv, SignalsCarried
<1>5. owed \in [ChatThreads -> SUBSET Signals] /\ job \in [Conversations -> {"none", "queued", "asked", "done"}]
  BY DEF MemoryInv, MemoryTypeOK
<1>6. MergedSignals(t, s) = owed[t] \cup s
  <2>1. \A e \in OfThread(t) : e.signals = owed[t]
    BY <1>4 DEF OfThread
  <2>2. owed[t] # {} => OfThread(t) # {}
    BY DEF MemoryInv, OwedQueued, OfThread
  <2> QED
    BY <2>1, <2>2 DEF MergedSignals
<1>7. new \in Entries /\ new.conv = n /\ new.signals = owed[t] \cup s
  BY <1>3, <1>5, <1>6 DEF Entries
<1>8. /\ L \in Nat /\ queue' \in Seq(Entries) /\ DOMAIN queue' = 1 .. (L + 1) /\ queue'[L + 1] = new
      /\ 1 .. (L + 1) = (1 .. L) \cup {L + 1} /\ L + 1 \notin 1 .. L
      /\ \A k \in 1 .. L : queue'[k] \in ToSet(queue) /\ added[queue'[k].conv] # t
  BY AddIs
<1>9. \A j \in DOMAIN queue : added[queue[j].conv] # t => \E k \in 1 .. L : queue'[k] = queue[j]
  BY AddIs
<1>10. \A k, l \in 1 .. L : k < l => \E i, j \in DOMAIN queue : i < j /\ queue'[k] = queue[i] /\ queue'[l] = queue[j]
  BY AddIs
<1> HIDE DEF n, new, L
<1>12. MemoryTypeOK'
  <2>1. {e.conv : e \in OfThread(t)} \subseteq Conversations
    BY <1>1, <1>4 DEF OfThread
  <2>2. owed' \in [ChatThreads -> SUBSET Signals]
    BY <1>2, <1>5
  <2> QED
    BY <1>2, <1>3, <1>8, <2>1, <2>2 DEF MemoryInv, MemoryTypeOK
<1>13. Added'
  <2>1. \A i \in DOMAIN queue' : queue'[i].conv \in 1 .. Len(added')
    BY <1>3, <1>4, <1>7, <1>8
  <2> QED
    BY <1>2, <1>3, <2>1 DEF MemoryInv, Added
<1>14. WaitingFits'
  BY <1>2 DEF MemoryInv, WaitingFits
<1>15. SignalsCarried'
  <2>1. ASSUME NEW i \in DOMAIN queue' PROVE queue'[i].signals = owed'[added'[queue'[i].conv]]
    <3>1. CASE i = L + 1
      <4>1. owed'[t] = owed[t] \cup s
        BY <1>2, <1>5
      <4> QED
        BY <1>3, <1>7, <1>8, <3>1, <4>1
    <3>2. CASE i \in 1 .. L
      <4>1. queue'[i].conv \in 1 .. Len(added) /\ queue'[i].signals = owed[added[queue'[i].conv]] /\ added[queue'[i].conv] # t
        BY <1>4, <1>8, <3>2
      <4> QED
        BY <1>1, <1>2, <1>3, <1>5, <4>1
    <3> QED
      BY <1>8, <3>1, <3>2
  <2> QED
    BY <2>1 DEF SignalsCarried, ToSet
<1>16. OwedQueued'
  <2>1. SUFFICES ASSUME NEW u \in ChatThreads, owed'[u] # {} PROVE \E i \in DOMAIN queue' : added'[queue'[i].conv] = u
    BY DEF OwedQueued, ToSet
  <2>2. CASE u = t
    BY <1>3, <1>7, <1>8, <2>2
  <2>3. CASE u # t
    <3>1. PICK j \in DOMAIN queue : added[queue[j].conv] = u
      BY <1>2, <1>5, <2>1, <2>3 DEF MemoryInv, OwedQueued, ToSet
    <3>2. PICK k \in 1 .. L : queue'[k] = queue[j]
      BY <1>9, <2>3, <3>1
    <3>3. queue[j].conv \in 1 .. Len(added)
      BY <1>4 DEF ToSet
    <3> QED
      BY <1>3, <1>8, <3>1, <3>2, <3>3
  <2> QED
    BY <2>2, <2>3
<1>17. EachInOnePlace'
  <2>0. EachInOnePlace /\ Added
    BY DEF MemoryInv
  <2>1. ASSUME NEW m \in 1 .. Len(added')
        PROVE  m \in ConvsIn(queue') \cup InBatches' \cup superseded' \cup cleared' \/ job'[m] # "none"
    <3>1. CASE m = n
      BY <1>7, <1>8, <3>1 DEF ConvsIn
    <3>2. CASE m \in 1 .. Len(added) /\ m \in ConvsIn(queue)
      <4>1. PICK j \in DOMAIN queue : m = queue[j].conv
        BY <3>2 DEF ConvsIn
      <4>2. CASE added[m] = t
        <5>1. queue[j] \in OfThread(t)
          BY <4>1, <4>2 DEF OfThread, ToSet
        <5> QED
          BY <1>2, <4>1, <5>1
      <4>3. CASE added[m] # t
        BY <1>8, <1>9, <4>1, <4>3 DEF ConvsIn
      <4> QED
        BY <4>2, <4>3
    <3>3. CASE m \in 1 .. Len(added) /\ m \notin ConvsIn(queue)
      <4>1. m \in InBatches \cup superseded \cup cleared \/ job[m] # "none"
        BY <2>0, <3>3 DEF EachInOnePlace
      <4>2. InBatches' = InBatches
        BY <1>2 DEF InBatches, ConvsIn
      <4> QED
        BY <1>2, <4>1, <4>2
    <3> QED
      BY <1>3, <3>1, <3>2, <3>3
  <2>2. ASSUME NEW i \in DOMAIN queue', NEW j \in DOMAIN queue', added'[queue'[i].conv] = added'[queue'[j].conv]
        PROVE  i = j
    <3>1. \A k \in 1 .. L : queue'[k].conv \in 1 .. Len(added) /\ added'[queue'[k].conv] = added[queue'[k].conv]
      BY <1>3, <1>4, <1>8
    <3>2. added'[queue'[L + 1].conv] = t
      BY <1>3, <1>7, <1>8
    <3>3. CASE i \in 1 .. L /\ j \in 1 .. L
      <4>1. ASSUME NEW k \in 1 .. L, NEW l \in 1 .. L, k < l PROVE added'[queue'[k].conv] # added'[queue'[l].conv]
        <5>1. PICK a \in DOMAIN queue, b \in DOMAIN queue : a < b /\ queue'[k] = queue[a] /\ queue'[l] = queue[b]
          BY <1>10, <4>1
        <5>2. a # b
          BY <1>1, <5>1
        <5> QED
          BY <2>0, <3>1, <5>1, <5>2 DEF EachInOnePlace
      <4>2. i \in Nat /\ j \in Nat
        BY <3>3
      <4> QED
        BY <2>2, <3>3, <4>1, <4>2
    <3> QED
      BY <1>8, <2>2, <3>1, <3>2, <3>3
  <2>3. ASSUME NEW m \in ConvsIn(queue') PROVE m \notin InBatches' /\ job'[m] = "none"
    <3>1. PICK i \in DOMAIN queue' : m = queue'[i].conv
      BY <2>3 DEF ConvsIn
    <3>2. InBatches' = InBatches /\ job' = job
      BY <1>2 DEF InBatches, ConvsIn
    <3>3. CASE i = L + 1
      <4>1. m = n /\ ~(n \in 1 .. Len(added)) /\ n \in Conversations
        BY <1>1, <1>3, <1>7, <1>8, <3>1, <3>3
      <4>2. n \notin InBatches
        BY <2>0, <4>1 DEF Added, InBatches, ConvsIn
      <4>3. job[n] = "none"
        BY <2>0, <4>1 DEF Added
      <4> QED
        BY <3>2, <4>1, <4>2, <4>3
    <3>4. CASE i \in 1 .. L
      <4>1. m \in ConvsIn(queue)
        BY <1>8, <3>1, <3>4 DEF ToSet, ConvsIn
      <4> QED
        BY <2>0, <3>2, <4>1 DEF EachInOnePlace
    <3> QED
      BY <1>8, <3>3, <3>4
  <2> QED
    BY <2>1, <2>2, <2>3 DEF EachInOnePlace
<1>18. (overlap \/ OneAtATime)'
  BY <1>2 DEF MemoryInv, OneAtATime, Stored
<1> QED
  BY <1>12, <1>13, <1>14, <1>15, <1>16, <1>17, <1>18 DEF MemoryInv

\* A conversation may be handed over if it does not wait, and leave a batch once it has been.
LEMMA PlacesKeep == ASSUME MemoryInv, UNCHANGED <<added, queue, superseded, cleared>>,
                           InBatches' \subseteq InBatches,
                           \A n \in InBatches : n \in InBatches' \/ job'[n] # "none",
                           \A n \in Conversations : job'[n] = job[n] \/ (job'[n] # "none" /\ n \notin ConvsIn(queue))
                    PROVE  EachInOnePlace'
<1>1. EachInOnePlace
  BY DEF MemoryInv
<1>2. Len(added) \in Nat /\ 1 .. Len(added) \subseteq Conversations /\ DOMAIN queue = 1 .. Len(queue)
  BY MemoryKnown
<1>3. ConvsIn(queue)' = ConvsIn(queue)
  BY DEF ConvsIn
<1>4. ConvsIn(queue) \subseteq Conversations
  BY <1>2 DEF ConvsIn, MemoryInv, Added
<1>5. ASSUME NEW n \in 1 .. Len(added)
      PROVE  n \in ConvsIn(queue) \cup InBatches' \cup superseded \cup cleared \/ job'[n] # "none"
  <2>1. n \in Conversations
    BY <1>2
  <2>2. n \in ConvsIn(queue) \cup InBatches \cup superseded \cup cleared \/ job[n] # "none"
    BY <1>1 DEF EachInOnePlace
  <2> QED
    BY <2>1, <2>2
<1>6. \A n \in ConvsIn(queue) : n \notin InBatches' /\ job'[n] = "none"
  <2>1. \A n \in ConvsIn(queue) : n \notin InBatches /\ job[n] = "none"
    BY <1>1 DEF EachInOnePlace
  <2> QED
    BY <1>4, <2>1
<1>7. \A i, j \in DOMAIN queue : added[queue[i].conv] = added[queue[j].conv] => i = j
  BY <1>1 DEF EachInOnePlace
<1> QED
  BY <1>3, <1>5, <1>6, <1>7 DEF EachInOnePlace

\* The signals are where they were while the queue stays.
LEMMA QueueKeeps == ASSUME MemoryInv, UNCHANGED <<added, queue, owed>> PROVE SignalsCarried' /\ OwedQueued'
  BY DEF MemoryInv, SignalsCarried, OwedQueued

\* The whole queue becomes a batch.
LEMMA ProcessBatchKeeps == ASSUME MemoryInv, ProcessBatch PROVE MemoryInv'
<1> DEFINE r == [left |-> queue, open |-> TRUE, waiting |-> FALSE]
           m == Len(batches) + 1
<1>1. /\ queue \in Seq(Entries) /\ DOMAIN queue = 1 .. Len(queue) /\ Len(queue) \in Nat
      /\ batches \in Seq(MemoryBatch) /\ DOMAIN batches = 1 .. Len(batches) /\ Len(batches) \in Nat
      /\ 1 .. Len(added) \subseteq Conversations
  BY MemoryKnown
<1>2. /\ woken > 0 /\ ~processing /\ woken' = woken - 1 /\ processing'
      /\ batches' = Append(batches, r) /\ queue' = <<>> /\ armed' = FALSE
      /\ stray' = IF armed THEN stray + 1 ELSE stray
      /\ owed' = [t \in ChatThreads |-> {}]
      /\ UNCHANGED <<added, calls, superseded, cleared, job, read, sections, facts, overlap>>
  BY DEF ProcessBatch, TakeAll, updateVars
<1>3. r \in MemoryBatch /\ r.left = queue /\ r.open /\ ~r.waiting
  BY <1>1 DEF MemoryBatch
<1> HIDE DEF r
<1>4. /\ batches' \in Seq(MemoryBatch) /\ DOMAIN batches' = 1 .. m /\ batches'[m] = r
      /\ \A a \in DOMAIN batches : batches'[a] = batches[a] /\ a # m
      /\ 1 .. m = DOMAIN batches \cup {m}
  BY <1>1, <1>2, <1>3
<1> HIDE DEF m
<1>5. MemoryTypeOK'
  <2>1. stray' \in Nat /\ woken' \in Nat
    BY <1>2 DEF MemoryInv, MemoryTypeOK
  <2>2. queue' \in Seq(Entries)
    BY <1>2
  <2>3. processing' \in BOOLEAN /\ armed' \in BOOLEAN
    BY <1>2, Zenon
  <2>4. owed' \in [ChatThreads -> SUBSET Signals]
    BY <1>2
  <2> QED
    BY <1>2, <1>4, <2>1, <2>2, <2>3, <2>4 DEF MemoryInv, MemoryTypeOK, MemoryBatch
<1>6. DOMAIN queue' = {} /\ ConvsIn(queue') = {} /\ ToSet(queue') = {}
  BY <1>2 DEF ConvsIn, ToSet
<1>7. Added'
  <2>1. ASSUME NEW a \in DOMAIN batches', NEW i \in DOMAIN batches'[a].left
        PROVE  batches'[a].left[i].conv \in 1 .. Len(added)
    BY <1>3, <1>4 DEF MemoryInv, Added
  <2> QED
    BY <1>2, <1>6, <2>1 DEF MemoryInv, Added
<1>8. WaitingFits'
  <2>1. ASSUME NEW a \in DOMAIN batches', batches'[a].waiting
        PROVE  batches'[a].left # <<>> /\ job[batches'[a].left[1].conv] # "none"
    BY <1>3, <1>4, <2>1 DEF MemoryInv, WaitingFits
  <2> QED
    BY <1>2, <2>1 DEF WaitingFits
<1>9. SignalsCarried' /\ OwedQueued'
  BY <1>2, <1>6 DEF SignalsCarried, OwedQueued
<1>10. EachInOnePlace'
  <2>1. ConvsIn(queue) \subseteq InBatches' /\ InBatches \subseteq InBatches'
    <3>1. batches'[m].left = queue /\ m \in DOMAIN batches'
      BY <1>3, <1>4
    <3>2. ConvsIn(queue) \subseteq InBatches'
      BY <3>1 DEF InBatches, ConvsIn
    <3>3. InBatches \subseteq InBatches'
      BY <1>4 DEF InBatches, ConvsIn
    <3> QED
      BY <3>2, <3>3
  <2>2. \A n \in 1 .. Len(added) :
           n \in ConvsIn(queue) \cup InBatches \cup superseded \cup cleared \/ job[n] # "none"
    BY DEF MemoryInv, EachInOnePlace
  <2>3. \A n \in 1 .. Len(added') :
           n \in ConvsIn(queue') \cup InBatches' \cup superseded' \cup cleared' \/ job'[n] # "none"
    BY <1>2, <2>1, <2>2
  <2> QED
    BY <1>6, <2>3 DEF EachInOnePlace
<1>11. (overlap \/ OneAtATime)'
  <2>1. SUFFICES ASSUME ~overlap PROVE OneAtATime'
    BY <1>2
  <2>2. OneAtATime
    BY <2>1 DEF MemoryInv
  <2>3. \A a \in DOMAIN batches : ~batches[a].open
    BY <1>2, <2>2 DEF OneAtATime
  <2>4. \A a, b \in DOMAIN batches' : batches'[a].open /\ batches'[b].open => a = b
    BY <1>4, <2>3
  <2>5. processing' <=> \E b \in DOMAIN batches' : batches'[b].open
    BY <1>2, <1>3, <1>4
  <2>6. \A b \in DOMAIN batches' : batches'[b].waiting => batches'[b].open
    BY <1>3, <1>4, <2>2 DEF OneAtATime
  <2>7. \A n \in Conversations : job'[n] \in {"queued", "asked"} =>
           \E b \in DOMAIN batches' : batches'[b].waiting /\ n = batches'[b].left[1].conv
    BY <1>2, <1>4, <2>2 DEF OneAtATime
  <2>8. \A n \in Conversations : job'[n] = "asked" => read'[n].sections = sections' /\ read'[n].facts = Stored'
    BY <1>2, <2>2 DEF OneAtATime, Stored
  <2>9. \A f \in FactKeys : facts'[f] <= 1
    BY <1>2, <2>2 DEF OneAtATime
  <2> QED
    BY <2>4, <2>5, <2>6, <2>7, <2>8, <2>9 DEF OneAtATime
<1> QED
  BY <1>5, <1>7, <1>8, <1>9, <1>10, <1>11 DEF MemoryInv

\* clear() drops the queue, and lets go of a batch that is under way.
LEMMA ClearKeeps == ASSUME MemoryInv, Clear PROVE MemoryInv'
<1>1. /\ queue \in Seq(Entries) /\ DOMAIN queue = 1 .. Len(queue) /\ Len(queue) \in Nat
      /\ 1 .. Len(added) \subseteq Conversations
  BY MemoryKnown
<1>2. /\ calls.clear > 0 /\ calls' = [calls EXCEPT !.clear = @ - 1]
      /\ armed' = FALSE /\ cleared' = cleared \cup ConvsIn(queue) /\ queue' = <<>> /\ processing' = FALSE
      /\ owed' = [t \in ChatThreads |-> {}] /\ overlap' = (overlap \/ processing)
      /\ UNCHANGED <<stray, woken, added, batches, superseded, job, read, sections, facts>>
  BY DEF Clear, updateVars
<1>3. DOMAIN queue' = {} /\ ConvsIn(queue') = {} /\ ToSet(queue') = {}
  BY <1>2 DEF ConvsIn, ToSet
<1>4. MemoryTypeOK'
  <2>1. ConvsIn(queue) \subseteq Conversations
    BY <1>1 DEF ConvsIn, MemoryInv, Added
  <2>2. calls' \in [flush : 0 .. MaxFlushes, clear : 0 .. MaxClears]
    <3>1. calls \in [flush : 0 .. MaxFlushes, clear : 0 .. MaxClears]
      BY DEF MemoryInv, MemoryTypeOK
    <3> QED
      BY <1>2, <3>1, MemoryAssumption
  <2>3. owed' \in [ChatThreads -> SUBSET Signals]
    BY <1>2
  <2>4. overlap' \in BOOLEAN /\ processing' \in BOOLEAN /\ armed' \in BOOLEAN
    BY <1>2, Zenon
  <2>6. queue' \in Seq(Entries)
    BY <1>2
  <2>5. cleared' \subseteq Conversations
    BY <1>2, <2>1 DEF MemoryInv, MemoryTypeOK
  <2> QED
    BY <1>2, <2>2, <2>3, <2>4, <2>5, <2>6 DEF MemoryInv, MemoryTypeOK
<1>5. Added' /\ WaitingFits'
  BY <1>2, <1>3 DEF MemoryInv, Added, WaitingFits
<1>6. SignalsCarried' /\ OwedQueued'
  BY <1>2, <1>3 DEF SignalsCarried, OwedQueued
<1>7. EachInOnePlace'
  <2>1. InBatches' = InBatches
    BY <1>2 DEF InBatches, ConvsIn
  <2>2. \A n \in 1 .. Len(added) :
           n \in ConvsIn(queue) \cup InBatches \cup superseded \cup cleared \/ job[n] # "none"
    BY DEF MemoryInv, EachInOnePlace
  <2>3. \A n \in 1 .. Len(added') :
           n \in ConvsIn(queue') \cup InBatches' \cup superseded' \cup cleared' \/ job'[n] # "none"
    BY <1>2, <2>1, <2>2
  <2> QED
    BY <1>3, <2>3 DEF EachInOnePlace
<1>8. (overlap \/ OneAtATime)'
  <2>1. SUFFICES ASSUME ~overlap, ~processing PROVE OneAtATime'
    BY <1>2
  <2>2. OneAtATime /\ processing' = processing
    BY <1>2, <2>1 DEF MemoryInv, MemoryTypeOK
  <2> QED
    BY <1>2, <2>2 DEF OneAtATime, Stored
<1> QED
  BY <1>4, <1>5, <1>6, <1>7, <1>8 DEF MemoryInv

\* A batch hands over its first conversation.
LEMMA SubmitIs == ASSUME MemoryInv, NEW b \in DOMAIN batches, Submit(b)
                  PROVE  LET next == batches[b].left[1].conv
                         IN /\ batches[b].open /\ ~batches[b].waiting
                            /\ 1 \in DOMAIN batches[b].left /\ batches[b].left \in Seq(Entries) 
                            /\ next \in 1 .. Len(added) /\ next \in Conversations /\ next \in InBatches
                            /\ batches' \in Seq(MemoryBatch) /\ DOMAIN batches' = DOMAIN batches /\ batches'[b].waiting
                            /\ \A a \in DOMAIN batches : a # b => batches'[a] = batches[a]
                            /\ \A a \in DOMAIN batches : batches'[a].left = batches[a].left /\ batches'[a].open = batches[a].open
                            /\ job' \in [Conversations -> {"none", "queued", "asked", "done"}]
                            /\ job'[next] = "queued" /\ \A n \in Conversations : n # next => job'[n] = job[n]
                            /\ UNCHANGED <<added, queue, processing, calls, owed, superseded, cleared,
                                           armed, stray, woken, read, sections, facts, overlap>>
<1> DEFINE next == Head(batches[b].left).conv
           r == [left |-> batches[b].left, open |-> batches[b].open, waiting |-> TRUE]
<1>1. /\ batches \in Seq(MemoryBatch) /\ batches[b] \in MemoryBatch /\ job \in [Conversations -> {"none", "queued", "asked", "done"}]
      /\ 1 .. Len(added) \subseteq Conversations
  BY MemoryKnown
<1>2. /\ batches[b].open /\ ~batches[b].waiting /\ batches[b].left # <<>>
      /\ batches' = [batches EXCEPT ![b] = r] /\ job' = [job EXCEPT ![next] = "queued"]
      /\ UNCHANGED <<added, queue, processing, calls, owed, superseded, cleared,
                     armed, stray, woken, read, sections, facts, overlap>>
  <2>1. \A v : [batches[b] EXCEPT !.waiting = v] = [left |-> batches[b].left, open |-> batches[b].open, waiting |-> v]
    BY <1>1, FieldPut
  <2>2. \A v : [batches EXCEPT ![b].waiting = v] = [batches EXCEPT ![b] = [batches[b] EXCEPT !.waiting = v]]
    OBVIOUS
  <2>3. [batches EXCEPT ![b].waiting = TRUE] = [batches EXCEPT ![b] = r]
    BY <2>1, <2>2, Zenon
  <2> QED
    BY <2>3 DEF Submit, timerVars
<1>3. batches[b].left \in Seq(Entries) /\ r \in MemoryBatch /\ r.left = batches[b].left /\ r.open = batches[b].open /\ r.waiting
  BY <1>1 DEF MemoryBatch
<1>4. 1 \in DOMAIN batches[b].left /\ next = batches[b].left[1].conv
  BY <1>2, <1>3
<1>5. next \in 1 .. Len(added) /\ next \in Conversations /\ next \in InBatches
  BY <1>1, <1>4 DEF MemoryInv, Added, InBatches, ConvsIn
<1> HIDE DEF r, next
<1>6. /\ batches' \in Seq(MemoryBatch) /\ DOMAIN batches' = DOMAIN batches /\ batches'[b] = r
      /\ \A a \in DOMAIN batches : a # b => batches'[a] = batches[a]
      /\ \A a \in DOMAIN batches : batches'[a].left = batches[a].left /\ batches'[a].open = batches[a].open
  <2>1. /\ [batches EXCEPT ![b] = r] \in Seq(MemoryBatch) /\ DOMAIN [batches EXCEPT ![b] = r] = DOMAIN batches
        /\ \A a \in DOMAIN batches : [batches EXCEPT ![b] = r][a] = IF a = b THEN r ELSE batches[a]
    BY <1>1, <1>3, BatchPut
  <2> QED
    BY <1>2, <1>3, <2>1
<1>7. /\ job' \in [Conversations -> {"none", "queued", "asked", "done"}] /\ job'[next] = "queued"
      /\ \A n \in Conversations : n # next => job'[n] = job[n]
  BY <1>1, <1>2, <1>5
<1> QED
  BY <1>1, <1>2, <1>3, <1>4, <1>5, <1>6, <1>7

\* A batch hands its next conversation to the executor.
LEMMA SubmitKeeps == ASSUME MemoryInv, NEW b \in DOMAIN batches, Submit(b) PROVE MemoryInv'
<1> DEFINE next == batches[b].left[1].conv
<1>1. 1 .. Len(added) \subseteq Conversations
  BY MemoryKnown
<1>2. /\ ~batches[b].waiting /\ batches[b].open /\ batches[b].left \in Seq(Entries) /\ 1 \in DOMAIN batches[b].left
      /\ next \in 1 .. Len(added) /\ next \in Conversations /\ next \in InBatches
      /\ UNCHANGED <<added, queue, processing, calls, owed, superseded, cleared,
                     armed, stray, woken, read, sections, facts, overlap>>
  BY SubmitIs
<1>6. /\ batches' \in Seq(MemoryBatch) /\ DOMAIN batches' = DOMAIN batches /\ batches'[b].waiting
      /\ \A a \in DOMAIN batches : a # b => batches'[a] = batches[a]
      /\ \A a \in DOMAIN batches : batches'[a].left = batches[a].left /\ batches'[a].open = batches[a].open
  BY SubmitIs
<1>7. /\ job' \in [Conversations -> {"none", "queued", "asked", "done"}] /\ job'[next] = "queued"
      /\ \A n \in Conversations : n # next => job'[n] = job[n]
  BY SubmitIs
<1>8. MemoryTypeOK'
  BY <1>2, <1>6, <1>7 DEF MemoryInv, MemoryTypeOK, MemoryBatch
<1>9. Added'
  <2>1. \A a \in DOMAIN batches' : \A i \in DOMAIN batches'[a].left : batches'[a].left[i].conv \in 1 .. Len(added')
    BY <1>2, <1>6 DEF MemoryInv, Added
  <2>2. \A n \in Conversations : job'[n] # "none" => n \in 1 .. Len(added')
    BY <1>2, <1>7 DEF MemoryInv, Added
  <2> QED
    BY <1>2, <2>1, <2>2 DEF MemoryInv, Added
<1>10. WaitingFits'
  <2>1. ASSUME NEW a \in DOMAIN batches, batches'[a].waiting
        PROVE  batches'[a].left # <<>> /\ job'[batches'[a].left[1].conv] # "none"
    <3>1. CASE a = b
      BY <1>2, <1>6, <1>7, <3>1
    <3>2. CASE a # b
      <4>1. batches[a].left # <<>> /\ job[batches[a].left[1].conv] # "none"
        BY <1>6, <2>1, <3>2 DEF MemoryInv, WaitingFits
      <4>2. batches[a] \in MemoryBatch
        BY MemoryKnown
      <4>3. batches[a].left \in Seq(Entries)
        BY <4>2 DEF MemoryBatch
      <4>4. 1 \in DOMAIN batches[a].left
        BY <4>1, <4>3
      <4>5. batches[a].left[1].conv \in Conversations
        BY <1>1, <4>4 DEF MemoryInv, Added
      <4> QED
        BY <1>6, <1>7, <4>1, <4>5
    <3> QED
      BY <3>1, <3>2
  <2> QED
    BY <1>6, <2>1 DEF WaitingFits
<1>11. EachInOnePlace'
  <2>1. InBatches' = InBatches
    BY <1>6 DEF InBatches, ConvsIn
  <2>2. next \notin ConvsIn(queue)
    BY <1>2 DEF MemoryInv, EachInOnePlace
  <2>3. \A n \in Conversations : job'[n] = job[n] \/ (job'[n] # "none" /\ n \notin ConvsIn(queue))
    BY <1>7, <2>2
  <2> QED
    BY <1>2, <2>1, <2>3, PlacesKeep
<1>12. (overlap \/ OneAtATime)'
  <2>1. SUFFICES ASSUME ~overlap PROVE OneAtATime'
    BY <1>2
  <2>2. OneAtATime
    BY <2>1 DEF MemoryInv
  <2>3. \A a, c \in DOMAIN batches' : batches'[a].open /\ batches'[c].open => a = c
    BY <1>6, <2>2 DEF OneAtATime
  <2>4. processing' <=> \E a \in DOMAIN batches' : batches'[a].open
    BY <1>2, <1>6, <2>2 DEF OneAtATime
  <2>5. \A a \in DOMAIN batches' : batches'[a].waiting => batches'[a].open
    BY <1>2, <1>6, <2>2 DEF OneAtATime
  <2>6. ASSUME NEW n \in Conversations, job'[n] \in {"queued", "asked"}
        PROVE  \E a \in DOMAIN batches' : batches'[a].waiting /\ n = batches'[a].left[1].conv
    <3>1. CASE n = next
      BY <1>2, <1>6, <3>1
    <3>2. CASE n # next
      <4>1. PICK a \in DOMAIN batches : batches[a].waiting /\ n = batches[a].left[1].conv
        BY <1>7, <2>2, <2>6, <3>2 DEF OneAtATime
      <4> QED
        BY <1>2, <1>6, <4>1
    <3> QED
      BY <3>1, <3>2
  <2>7. \A n \in Conversations : job'[n] = "asked" => read'[n].sections = sections' /\ read'[n].facts = Stored'
    BY <1>2, <1>7, <2>2 DEF OneAtATime, Stored
  <2>8. \A f \in FactKeys : facts'[f] <= 1
    BY <1>2, <2>2 DEF OneAtATime
  <2> QED
    BY <2>3, <2>4, <2>5, <2>6, <2>7, <2>8 DEF OneAtATime
<1> QED
  BY <1>2, <1>8, <1>9, <1>10, <1>11, <1>12, QueueKeeps DEF MemoryInv

\* A batch is done with its first conversation.
LEMMA CollectedIs == ASSUME MemoryInv, NEW b \in DOMAIN batches, NEW late \in BOOLEAN, Collected(b, late)
                     PROVE  LET todo == batches[b].left
                                rest == batches'[b].left
                            IN /\ batches[b].waiting /\ ~batches'[b].waiting /\ (late <=> job[todo[1].conv] # "done")
                               /\ todo \in Seq(Entries) /\ 1 \in DOMAIN todo /\ job[todo[1].conv] # "none"
                               /\ rest \in Seq(Entries)
                               /\ batches' \in Seq(MemoryBatch) /\ DOMAIN batches' = DOMAIN batches
                               /\ \A a \in DOMAIN batches : a # b => batches'[a] = batches[a]
                               /\ \A a \in DOMAIN batches : batches'[a].open = batches[a].open
                               /\ \A i \in DOMAIN rest : i + 1 \in DOMAIN todo /\ i + 1 # 1 /\ rest[i] = todo[i + 1]
                               /\ \A j \in DOMAIN todo : j # 1 => \E i \in DOMAIN rest : rest[i] = todo[j]
                               /\ overlap' = (overlap \/ late)
                               /\ UNCHANGED <<added, queue, processing, calls, owed, superseded, cleared,
                                              armed, stray, woken, job, read, sections, facts>>
<1> DEFINE current == Head(batches[b].left).conv
           rest == Tail(batches[b].left)
           r == [left |-> rest, open |-> batches[b].open, waiting |-> FALSE]
<1>1. /\ batches \in Seq(MemoryBatch) /\ batches[b] \in MemoryBatch /\ job \in [Conversations -> {"none", "queued", "asked", "done"}]
      /\ 1 .. Len(added) \subseteq Conversations
  BY MemoryKnown
<1>2. /\ batches[b].waiting /\ (late <=> job[current] # "done")
      /\ batches' = [batches EXCEPT ![b] = r] /\ overlap' = (overlap \/ late)
      /\ UNCHANGED <<added, queue, processing, calls, owed, superseded, cleared,
                     armed, stray, woken, job, read, sections, facts>>
  <2>1. [batches EXCEPT ![b].waiting = FALSE, ![b].left = Tail(@)]
           = [batches EXCEPT ![b].waiting = FALSE, ![b].left = rest]
    <3>1. [batches EXCEPT ![b].waiting = FALSE][b].left = batches[b].left
      BY <1>1 DEF MemoryBatch
    <3> QED
      BY <3>1
  <2> DEFINE x == [left |-> batches[b].left, open |-> batches[b].open, waiting |-> FALSE]
             without == [batches EXCEPT ![b].waiting = FALSE]
  <2>2. without = [batches EXCEPT ![b] = x]
    <3>1. \A v : [batches[b] EXCEPT !.waiting = v] = [left |-> batches[b].left, open |-> batches[b].open, waiting |-> v]
      BY <1>1, FieldPut
    <3>2. \A v : [batches EXCEPT ![b].waiting = v] = [batches EXCEPT ![b] = [batches[b] EXCEPT !.waiting = v]]
      OBVIOUS
    <3> QED
      BY <3>1, <3>2, Zenon
  <2>3. x \in MemoryBatch /\ x.open = batches[b].open /\ x.waiting = FALSE
    BY <1>1 DEF MemoryBatch
  <2>4. [without EXCEPT ![b].left = rest] = [without EXCEPT ![b] = r]
    <3> HIDE DEF x
    <3>1. without[b] = x
      BY <2>2
    <3>2. [x EXCEPT !.left = rest] = r
      <4>1. [x EXCEPT !.left = rest] = [left |-> rest, open |-> x.open, waiting |-> x.waiting]
        BY <2>3, FieldPut
      <4> QED
        BY <2>3, <4>1, Zenon
    <3> HIDE DEF without, r
    <3>3. [without EXCEPT ![b].left = rest] = [without EXCEPT ![b] = [without[b] EXCEPT !.left = rest]]
      OBVIOUS
    <3> QED
      BY <3>1, <3>2, <3>3
  <2>5. [batches EXCEPT ![b].waiting = FALSE, ![b].left = rest] = [without EXCEPT ![b].left = rest]
    OBVIOUS
  <2>6. [without EXCEPT ![b] = r] = [batches EXCEPT ![b] = r]
    BY <2>2
  <2> QED
    BY <2>1, <2>4, <2>5, <2>6 DEF Collected, timerVars, updateVars
<1>3. batches[b].left \in Seq(Entries) /\ batches[b].left # <<>> /\ job[batches[b].left[1].conv] # "none"
  BY <1>1, <1>2 DEF MemoryBatch, MemoryInv, WaitingFits
<1>4. 1 \in DOMAIN batches[b].left /\ current = batches[b].left[1].conv
  BY <1>3
<1>5. /\ rest \in Seq(Entries)
      /\ \A i \in DOMAIN rest : i + 1 \in DOMAIN batches[b].left /\ i + 1 # 1 /\ rest[i] = batches[b].left[i + 1]
      /\ \A j \in DOMAIN batches[b].left : j # 1 => \E i \in DOMAIN rest : rest[i] = batches[b].left[j]
  <2> DEFINE l == batches[b].left
  <2>1. l \in Seq(Entries) /\ l # <<>>
    BY <1>3
  <2> HIDE DEF l
  <2>2. Tail(l) \in Seq(Entries) /\ Len(l) \in Nat \ {0} /\ Len(Tail(l)) = Len(l) - 1
    BY <2>1
  <2>3. \A i \in 1 .. Len(Tail(l)) : Tail(l)[i] = l[i + 1] /\ i + 1 \in 1 .. Len(l) /\ i + 1 # 1
    BY <2>1, <2>2
  <2>4. \A j \in 1 .. Len(l) : j # 1 => j - 1 \in 1 .. Len(Tail(l)) /\ Tail(l)[j - 1] = l[j]
    BY <2>1, <2>2
  <2>5. DOMAIN l = 1 .. Len(l) /\ DOMAIN Tail(l) = 1 .. Len(Tail(l))
    BY <2>1, <2>2
  <2> QED
    BY <2>2, <2>3, <2>4, <2>5 DEF l
<1>6. r \in MemoryBatch /\ r.left = rest /\ r.open = batches[b].open /\ ~r.waiting
  BY <1>1, <1>5 DEF MemoryBatch
<1> HIDE DEF r, current, rest
<1>7. /\ batches' \in Seq(MemoryBatch) /\ DOMAIN batches' = DOMAIN batches /\ batches'[b] = r
      /\ \A a \in DOMAIN batches : a # b => batches'[a] = batches[a]
      /\ \A a \in DOMAIN batches : batches'[a].open = batches[a].open
  <2>1. /\ [batches EXCEPT ![b] = r] \in Seq(MemoryBatch) /\ DOMAIN [batches EXCEPT ![b] = r] = DOMAIN batches
        /\ \A a \in DOMAIN batches : [batches EXCEPT ![b] = r][a] = IF a = b THEN r ELSE batches[a]
    BY <1>1, <1>6, BatchPut
  <2> QED
    BY <1>2, <1>6, <2>1
<1> QED
  BY <1>2, <1>3, <1>4, <1>5, <1>6, <1>7

\* A batch gets a result, an error, or no answer in time.
LEMMA CollectedKeeps == ASSUME MemoryInv, NEW b \in DOMAIN batches, NEW late \in BOOLEAN, Collected(b, late)
                        PROVE  MemoryInv'
<1> DEFINE rest == batches'[b].left
<1>1. /\ 1 .. Len(added) \subseteq Conversations
      /\ batches[b].left \in Seq(Entries) /\ 1 \in DOMAIN batches[b].left /\ job[batches[b].left[1].conv] # "none"
  BY MemoryKnown, CollectedIs
<1>2. /\ batches[b].waiting /\ (late <=> job[batches[b].left[1].conv] # "done") /\ overlap' = (overlap \/ late)
      /\ UNCHANGED <<added, queue, processing, calls, owed, superseded, cleared,
                     armed, stray, woken, job, read, sections, facts>>
  BY CollectedIs
<1>5. /\ \A i \in DOMAIN rest : \E j \in DOMAIN batches[b].left : rest[i] = batches[b].left[j]
      /\ \A j \in DOMAIN batches[b].left : j # 1 => \E i \in DOMAIN rest : rest[i] = batches[b].left[j]
  BY CollectedIs
<1>7. /\ batches' \in Seq(MemoryBatch) /\ DOMAIN batches' = DOMAIN batches /\ ~batches'[b].waiting
      /\ \A a \in DOMAIN batches : a # b => batches'[a] = batches[a]
      /\ \A a \in DOMAIN batches : batches'[a].open = batches[a].open
  BY CollectedIs
<1>8. MemoryTypeOK'
  <2>1. overlap' \in BOOLEAN
    BY <1>2, Zenon
  <2> QED
    BY <1>2, <1>7, <2>1 DEF MemoryInv, MemoryTypeOK, MemoryBatch
<1>9. Added'
  <2>1. ASSUME NEW a \in DOMAIN batches, NEW i \in DOMAIN batches'[a].left
        PROVE  batches'[a].left[i].conv \in 1 .. Len(added')
    <3>1. CASE a = b
      BY <1>2, <1>5, <1>7, <2>1, <3>1 DEF MemoryInv, Added
    <3>2. CASE a # b
      BY <1>2, <1>7, <2>1, <3>2 DEF MemoryInv, Added
    <3> QED
      BY <3>1, <3>2
  <2> QED
    BY <1>2, <1>7, <2>1 DEF MemoryInv, Added
<1>10. WaitingFits'
  BY <1>2, <1>7 DEF MemoryInv, WaitingFits
<1>11. EachInOnePlace'
  <2>1. ASSUME NEW n \in InBatches' PROVE n \in InBatches
    <3>1. PICK a \in DOMAIN batches : n \in ConvsIn(batches'[a].left)
      BY <1>7, <2>1 DEF InBatches
    <3>2. PICK i \in DOMAIN batches'[a].left : n = batches'[a].left[i].conv
      BY <3>1 DEF ConvsIn
    <3>3. \E j \in DOMAIN batches[a].left : n = batches[a].left[j].conv
      BY <1>5, <1>7, <3>2
    <3> QED
      BY <3>3 DEF InBatches, ConvsIn
  <2>2. ASSUME NEW n \in InBatches, job[n] = "none" PROVE n \in InBatches'
    <3>1. PICK a \in DOMAIN batches : n \in ConvsIn(batches[a].left)
      BY <2>2 DEF InBatches
    <3>2. PICK j \in DOMAIN batches[a].left : n = batches[a].left[j].conv
      BY <3>1 DEF ConvsIn
    <3>3. \E i \in DOMAIN batches'[a].left : n = batches'[a].left[i].conv
      <4>1. CASE a = b
        <5>1. j \in DOMAIN batches[b].left /\ j # 1
          BY <1>1, <2>2, <3>2, <4>1
        <5>2. \E i \in DOMAIN rest : rest[i] = batches[b].left[j]
          BY <1>5, <5>1
        <5> QED
          BY <1>7, <3>2, <4>1, <5>2
      <4>2. CASE a # b
        BY <1>7, <3>2, <4>2
      <4> QED
        BY <4>1, <4>2
    <3> QED
      BY <1>7, <3>3 DEF InBatches, ConvsIn
  <2>3. InBatches' \subseteq InBatches /\ \A n \in InBatches : n \in InBatches' \/ job'[n] # "none"
    BY <1>2, <2>1, <2>2
  <2> QED
    BY <1>2, <2>3, PlacesKeep
<1>12. (overlap \/ OneAtATime)'
  <2>1. SUFFICES ASSUME ~overlap, ~late PROVE OneAtATime'
    BY <1>2
  <2>2. OneAtATime
    BY <2>1 DEF MemoryInv
  <2>3. \A a, c \in DOMAIN batches' : batches'[a].open /\ batches'[c].open => a = c
    BY <1>7, <2>2 DEF OneAtATime
  <2>4. processing' <=> \E a \in DOMAIN batches' : batches'[a].open
    BY <1>2, <1>7, <2>2 DEF OneAtATime
  <2>5. \A a \in DOMAIN batches' : batches'[a].waiting => batches'[a].open
    BY <1>7, <2>2 DEF OneAtATime
  <2>6. ASSUME NEW n \in Conversations, job'[n] \in {"queued", "asked"}
        PROVE  \E a \in DOMAIN batches' : batches'[a].waiting /\ n = batches'[a].left[1].conv
    <3>1. PICK a \in DOMAIN batches : batches[a].waiting /\ n = batches[a].left[1].conv
      BY <1>2, <2>2, <2>6 DEF OneAtATime
    <3>2. a # b
      BY <1>2, <2>1, <2>6, <3>1
    <3> QED
      BY <1>7, <3>1, <3>2
  <2>7. \A n \in Conversations : job'[n] = "asked" => read'[n].sections = sections' /\ read'[n].facts = Stored'
    BY <1>2, <2>2 DEF OneAtATime, Stored
  <2>8. \A f \in FactKeys : facts'[f] <= 1
    BY <1>2, <2>2 DEF OneAtATime
  <2> QED
    BY <2>3, <2>4, <2>5, <2>6, <2>7, <2>8 DEF OneAtATime
<1> QED
  BY <1>2, <1>8, <1>9, <1>10, <1>11, <1>12, QueueKeeps DEF MemoryInv

\* A batch that is empty is closed.
LEMMA CloseBatchIs == ASSUME MemoryInv, NEW b \in DOMAIN batches, CloseBatch(b)
                      PROVE  /\ batches[b].open /\ batches[b].left = <<>> /\ ~batches'[b].open /\ processing' = FALSE
                             /\ batches' \in Seq(MemoryBatch) /\ DOMAIN batches' = DOMAIN batches
                             /\ \A a \in DOMAIN batches : a # b => batches'[a] = batches[a]
                             /\ \A a \in DOMAIN batches : batches'[a].left = batches[a].left /\ batches'[a].waiting = batches[a].waiting
                             /\ UNCHANGED <<added, queue, calls, owed, superseded, cleared,
                                            armed, stray, woken, job, read, sections, facts, overlap>>
<1> DEFINE r == [left |-> batches[b].left, open |-> FALSE, waiting |-> batches[b].waiting]
<1>1. batches \in Seq(MemoryBatch) /\ batches[b] \in MemoryBatch
  BY MemoryKnown
<1>2. /\ batches[b].open /\ batches[b].left = <<>>
      /\ batches' = [batches EXCEPT ![b] = r] /\ processing' = FALSE
      /\ UNCHANGED <<added, queue, calls, owed, superseded, cleared,
                     armed, stray, woken, job, read, sections, facts, overlap>>
  <2>1. \A v : [batches[b] EXCEPT !.open = v] = [left |-> batches[b].left, open |-> v, waiting |-> batches[b].waiting]
    BY <1>1, FieldPut
  <2>2. \A v : [batches EXCEPT ![b].open = v] = [batches EXCEPT ![b] = [batches[b] EXCEPT !.open = v]]
    OBVIOUS
  <2>3. [batches EXCEPT ![b].open = FALSE] = [batches EXCEPT ![b] = r]
    BY <2>1, <2>2, Zenon
  <2> QED
    BY <2>3 DEF CloseBatch, timerVars, updateVars
<1>3. r \in MemoryBatch /\ r.left = batches[b].left /\ ~r.open /\ r.waiting = batches[b].waiting
  BY <1>1 DEF MemoryBatch
<1> HIDE DEF r
<1>4. /\ batches' \in Seq(MemoryBatch) /\ DOMAIN batches' = DOMAIN batches /\ batches'[b] = r
      /\ \A a \in DOMAIN batches : a # b => batches'[a] = batches[a]
      /\ \A a \in DOMAIN batches : batches'[a].left = batches[a].left /\ batches'[a].waiting = batches[a].waiting
  <2>1. /\ [batches EXCEPT ![b] = r] \in Seq(MemoryBatch) /\ DOMAIN [batches EXCEPT ![b] = r] = DOMAIN batches
        /\ \A a \in DOMAIN batches : [batches EXCEPT ![b] = r][a] = IF a = b THEN r ELSE batches[a]
    BY <1>1, <1>3, BatchPut
  <2> QED
    BY <1>2, <1>3, <2>1
<1> QED
  BY <1>2, <1>3, <1>4

\* A batch that is empty is closed, and no other is open.
LEMMA CloseBatchKeeps == ASSUME MemoryInv, NEW b \in DOMAIN batches, CloseBatch(b) PROVE MemoryInv'
<1>2. /\ batches[b].open /\ batches[b].left = <<>> /\ processing' = FALSE
      /\ UNCHANGED <<added, queue, calls, owed, superseded, cleared,
                     armed, stray, woken, job, read, sections, facts, overlap>>
  BY CloseBatchIs
<1>4. /\ batches' \in Seq(MemoryBatch) /\ DOMAIN batches' = DOMAIN batches /\ ~batches'[b].open
      /\ \A a \in DOMAIN batches : a # b => batches'[a] = batches[a]
      /\ \A a \in DOMAIN batches : batches'[a].left = batches[a].left /\ batches'[a].waiting = batches[a].waiting
  BY CloseBatchIs
<1>5. MemoryTypeOK'
  <2>1. processing' \in BOOLEAN
    BY <1>2, Zenon
  <2> QED
    BY <1>2, <1>4, <2>1 DEF MemoryInv, MemoryTypeOK, MemoryBatch
<1>6. Added' /\ WaitingFits'
  BY <1>2, <1>4 DEF MemoryInv, Added, WaitingFits
<1>7. EachInOnePlace'
  <2>1. InBatches' = InBatches
    BY <1>4 DEF InBatches, ConvsIn
  <2> QED
    BY <1>2, <2>1, PlacesKeep
<1>8. (overlap \/ OneAtATime)'
  <2>1. SUFFICES ASSUME ~overlap PROVE OneAtATime'
    BY <1>2
  <2>2. OneAtATime
    BY <2>1 DEF MemoryInv
  <2>3. \A a \in DOMAIN batches' : ~batches'[a].open
    BY <1>2, <1>4, <2>2 DEF OneAtATime
  <2>4. \A a \in DOMAIN batches : ~batches[a].waiting
    BY <1>2, <2>2 DEF MemoryInv, WaitingFits, OneAtATime
  <2>5. \A n \in Conversations : job[n] \notin {"queued", "asked"}
    BY <2>2, <2>4 DEF OneAtATime
  <2> QED
    BY <1>2, <1>4, <2>2, <2>3, <2>4, <2>5 DEF OneAtATime
<1> QED
  BY <1>2, <1>5, <1>6, <1>7, <1>8, QueueKeeps DEF MemoryInv

\* An update that goes on leaves the queue and the batches alone.
LEMMA UpdatesKeep == ASSUME MemoryInv, MemoryTypeOK', UNCHANGED <<queueVars, timerVars, overlap>>,
                            NEW n \in Conversations, job[n] # "none", job'[n] # "none",
                            \A m \in Conversations : m # n => job'[m] = job[m],
                            overlap \/ OneAtATime'
                     PROVE  MemoryInv'
<1>1. UNCHANGED <<added, queue, processing, batches, calls, owed, superseded, cleared, overlap>>
  BY DEF queueVars
<1>2. /\ 1 .. Len(added) \subseteq Conversations
      /\ \A b \in DOMAIN batches : batches[b] \in MemoryBatch
  BY MemoryKnown
<1>3. Added'
  BY <1>1 DEF MemoryInv, Added
<1>4. WaitingFits'
  <2>1. ASSUME NEW b \in DOMAIN batches, batches[b].waiting
        PROVE  batches[b].left # <<>> /\ job'[batches[b].left[1].conv] # "none"
    <3>1. batches[b].left # <<>> /\ job[batches[b].left[1].conv] # "none"
      BY <2>1 DEF MemoryInv, WaitingFits
    <3>2. batches[b].left \in Seq(Entries)
      BY <1>2 DEF MemoryBatch
    <3>3. 1 \in DOMAIN batches[b].left
      BY <3>1, <3>2
    <3>4. batches[b].left[1].conv \in Conversations
      BY <1>2, <3>3 DEF MemoryInv, Added
    <3> QED
      BY <3>1, <3>4
  <2> QED
    BY <1>1, <2>1 DEF WaitingFits
<1>5. EachInOnePlace'
  <2>1. InBatches' = InBatches
    BY <1>1 DEF InBatches, ConvsIn
  <2>2. n \notin ConvsIn(queue)
    BY DEF MemoryInv, EachInOnePlace
  <2> QED
    BY <1>1, <2>1, <2>2, PlacesKeep
<1> QED
  BY <1>1, <1>3, <1>4, <1>5, QueueKeeps DEF MemoryInv

\* What is read is what is stored, and the memory is nobody else's meanwhile.
LEMMA ReadMemoryKeeps == ASSUME MemoryInv, NEW n \in Conversations, ReadMemory(n) PROVE MemoryInv'
<1> DEFINE r == [sections |-> sections, facts |-> Stored]
<1>1. job \in [Conversations -> {"none", "queued", "asked", "done"}] /\ read \in [Conversations -> Memory]
  BY DEF MemoryInv, MemoryTypeOK
<1>2. /\ job[n] = "queued" /\ job' = [job EXCEPT ![n] = "asked"] /\ read' = [read EXCEPT ![n] = r]
      /\ UNCHANGED <<sections, facts, queueVars, timerVars, overlap>>
  BY DEF ReadMemory
<1>3. UNCHANGED <<added, queue, processing, batches, calls, owed, superseded, cleared, armed, stray, woken>>
  BY <1>2 DEF queueVars, timerVars
<1>4. r \in Memory /\ r.sections = sections /\ r.facts = Stored
  BY DEF MemoryInv, MemoryTypeOK, Memory, Stored
<1> HIDE DEF r
<1>5. /\ job' \in [Conversations -> {"none", "queued", "asked", "done"}] /\ read' \in [Conversations -> Memory]
      /\ job'[n] = "asked" /\ read'[n] = r
      /\ \A m \in Conversations : m # n => job'[m] = job[m] /\ read'[m] = read[m]
  BY <1>1, <1>2, <1>4
<1>6. MemoryTypeOK'
  BY <1>2, <1>3, <1>5 DEF MemoryInv, MemoryTypeOK
<1>7. ASSUME OneAtATime PROVE OneAtATime'
  <2>1. \A m \in Conversations : job'[m] \in {"queued", "asked"} =>
           \E b \in DOMAIN batches' : batches'[b].waiting /\ m = batches'[b].left[1].conv
    BY <1>2, <1>3, <1>5, <1>7 DEF OneAtATime
  <2>2. \A m \in Conversations : job'[m] = "asked" => read'[m].sections = sections' /\ read'[m].facts = Stored'
    BY <1>2, <1>4, <1>5, <1>7 DEF OneAtATime, Stored
  <2> QED
    BY <1>2, <1>3, <1>7, <2>1, <2>2 DEF OneAtATime
<1> QED
  BY <1>2, <1>5, <1>6, <1>7, UpdatesKeep DEF MemoryInv

\* The update under way is the only one.
LEMMA OnlyUpdate == ASSUME MemoryInv, OneAtATime, NEW n \in Conversations, NEW m \in Conversations,
                           job[n] \in {"queued", "asked"}, job[m] \in {"queued", "asked"}
                    PROVE  m = n
<1>1. PICK b \in DOMAIN batches : batches[b].waiting /\ n = batches[b].left[1].conv
  BY DEF OneAtATime
<1>2. PICK c \in DOMAIN batches : batches[c].waiting /\ m = batches[c].left[1].conv
  BY DEF OneAtATime
<1>3. b = c
  BY <1>1, <1>2 DEF OneAtATime
<1> QED
  BY <1>1, <1>2, <1>3

\* What is written covers what was read, and nothing was written since.
LEMMA UpdateEndsKeeps == ASSUME MemoryInv, NEW n \in Conversations, UpdateEnds(n) PROVE MemoryInv'
<1>1. /\ job \in [Conversations -> {"none", "queued", "asked", "done"}] /\ read \in [Conversations -> Memory]
      /\ facts \in [FactKeys -> Nat] /\ sections \subseteq Conversations
  BY DEF MemoryInv, MemoryTypeOK
<1>2. /\ job[n] \in {"queued", "asked"} /\ job' = [job EXCEPT ![n] = "done"] /\ read' = [read EXCEPT ![n] = Nothing]
      /\ UNCHANGED <<queueVars, timerVars, overlap>>
      /\ \/ UNCHANGED <<sections, facts>>
         \/ /\ job[n] = "asked" /\ sections' = read[n].sections \cup {n}
            /\ \/ UNCHANGED facts
               \/ \E f \in FactKeys : f \notin read[n].facts /\ facts' = [facts EXCEPT ![f] = @ + 1]
  BY DEF UpdateEnds, WriteMemory, UpdateFails, Forget, NewFact
<1>3. UNCHANGED <<added, queue, processing, batches, calls, owed, superseded, cleared, armed, stray, woken>>
  BY <1>2 DEF queueVars, timerVars
<1>4. /\ job' \in [Conversations -> {"none", "queued", "asked", "done"}] /\ read' \in [Conversations -> Memory]
      /\ job'[n] = "done"
      /\ \A m \in Conversations : m # n => job'[m] = job[m] /\ read'[m] = read[m]
  <2>1. Nothing \in Memory
    BY DEF Nothing, Memory
  <2> QED
    BY <1>1, <1>2, <2>1
<1>5. facts' \in [FactKeys -> Nat] /\ sections' \subseteq Conversations
  <2>1. read[n].sections \subseteq Conversations
    BY <1>1 DEF Memory
  <2>2. ASSUME NEW f \in FactKeys PROVE [facts EXCEPT ![f] = @ + 1] \in [FactKeys -> Nat]
    BY <1>1
  <2>3. facts' \in [FactKeys -> Nat]
    BY <1>1, <1>2, <2>2
  <2>4. sections' \subseteq Conversations
    BY <1>1, <1>2, <2>1
  <2> QED
    BY <2>3, <2>4
<1>6. MemoryTypeOK'
  BY <1>2, <1>3, <1>4, <1>5 DEF MemoryInv, MemoryTypeOK
<1>7. ASSUME OneAtATime PROVE OneAtATime'
  <2>1. \A m \in Conversations : job'[m] \notin {"queued", "asked"}
    BY <1>2, <1>4, <1>7, OnlyUpdate
  <2>2. ASSUME NEW f \in FactKeys PROVE facts'[f] <= 1
    <3>1. facts[f] <= 1 /\ facts[f] \in Nat
      BY <1>1, <1>7 DEF OneAtATime
    <3>2. CASE facts' = facts
      BY <3>1, <3>2
    <3>3. CASE /\ job[n] = "asked"
               /\ \E g \in FactKeys : g \notin read[n].facts /\ facts' = [facts EXCEPT ![g] = @ + 1]
      <4>1. PICK g \in FactKeys : g \notin read[n].facts /\ facts' = [facts EXCEPT ![g] = @ + 1]
        BY <3>3
      <4>2. ~(facts[g] > 0) /\ facts[g] \in Nat
        BY <1>1, <1>7, <3>3, <4>1 DEF OneAtATime, Stored
      <4>3. facts[g] + 1 = 1
        BY <4>2
      <4>4. facts'[f] = IF f = g THEN 1 ELSE facts[f]
        BY <1>1, <4>1, <4>3
      <4> QED
        BY <3>1, <4>4
    <3> QED
      BY <1>2, <3>2, <3>3
  <2> QED
    BY <1>2, <1>3, <1>7, <2>1, <2>2 DEF OneAtATime
<1> QED
  BY <1>2, <1>4, <1>6, <1>7, UpdatesKeep DEF MemoryInv

\* Nothing is queued or stored at the start.
LEMMA MemoryInitially == MemoryInit => MemoryInv
<1> SUFFICES ASSUME MemoryInit PROVE MemoryInv
  OBVIOUS
<1> USE DEF MemoryInit
<1>1. MemoryTypeOK
  <2>1. Nothing \in Memory
    BY DEF Nothing, Memory
  <2>2. calls \in [flush : 0 .. MaxFlushes, clear : 0 .. MaxClears]
    BY MemoryAssumption
  <2>3. processing \in BOOLEAN /\ armed \in BOOLEAN /\ overlap \in BOOLEAN
    BY Zenon
  <2>4. /\ added \in Seq(ChatThreads) /\ Len(added) <= MaxAdds /\ queue \in Seq(Entries) /\ stray \in Nat /\ woken \in Nat
        /\ batches \in Seq([left : Seq(Entries), open : BOOLEAN, waiting : BOOLEAN])
    BY MemoryAssumption
  <2>5. /\ job \in [Conversations -> {"none", "queued", "asked", "done"}] /\ read \in [Conversations -> Memory]
        /\ sections \subseteq Conversations /\ facts \in [FactKeys -> Nat]
        /\ owed \in [ChatThreads -> SUBSET Signals]
        /\ superseded \subseteq Conversations /\ cleared \subseteq Conversations
    BY <2>1
  <2> QED
    BY <2>2, <2>3, <2>4, <2>5 DEF MemoryTypeOK
<1>2. DOMAIN queue = {} /\ DOMAIN batches = {} /\ 1 .. Len(added) = {}
  OBVIOUS
<1>3. Added /\ WaitingFits /\ EachInOnePlace /\ SignalsCarried /\ OwedQueued
  BY <1>2 DEF Added, WaitingFits, EachInOnePlace, SignalsCarried, OwedQueued, ConvsIn, ToSet
<1>4. OneAtATime
  BY <1>2 DEF OneAtATime
<1> QED
  BY <1>1, <1>3, <1>4 DEF MemoryInv

\* The invariant is stronger than what it is for.
LEMMA MemoryImplied == MemoryInv => MemoryTypeOK /\ ConversationsAccounted /\ UpdatesKeptApart
<1> SUFFICES ASSUME MemoryInv PROVE MemoryTypeOK /\ ConversationsAccounted /\ UpdatesKeptApart
  OBVIOUS
<1>1. MemoryTypeOK /\ ConversationsAccounted
  BY DEF MemoryInv, ConversationsAccounted
<1>2. ASSUME OneAtATime PROVE Cardinality(OpenBatches) <= 1
  <2>1. \A a, b \in OpenBatches : a = b
    BY <1>2 DEF OneAtATime, OpenBatches
  <2>2. CASE OpenBatches = {}
    BY <2>2, FS_EmptySet
  <2>3. CASE OpenBatches # {}
    <3>1. PICK a : OpenBatches = {a}
      BY <2>1, <2>3
    <3>2. Cardinality({a}) = 1
      BY FS_Singleton
    <3> QED
      BY <3>1, <3>2
  <2> QED
    BY <2>2, <2>3
<1>3. UpdatesKeptApart
  BY <1>2 DEF MemoryInv, OneAtATime, UpdatesKeptApart
<1> QED
  BY <1>1, <1>3

\* Every step of the queue, the timers, the batches and the updates keeps the invariant.
LEMMA MemoryInductive == MemoryInv /\ [MemoryNext]_memoryVars => MemoryInv'
<1> SUFFICES ASSUME MemoryInv, [MemoryNext]_memoryVars PROVE MemoryInv'
  OBVIOUS
<1>1. CASE \E t \in ChatThreads : AfterAgent(t)
  <2>1. PICK t \in ChatThreads, s \in SignalSets : Add(t, s)
    BY <1>1 DEF AfterAgent
  <2>2. s \in SUBSET Signals
    BY DEF SignalSets
  <2> QED
    BY <2>1, <2>2, AddKeeps
<1>2. CASE TimerFires \/ LockTaken \/ Flush \/ Clear \/ UNCHANGED memoryVars
  BY <1>2, TimerStepsKeep, ProcessBatchKeeps, ClearKeeps DEF LockTaken
<1>3. CASE \E b \in DOMAIN batches : BatchNext(b)
  BY <1>3, SubmitKeeps, CollectedKeeps, CloseBatchKeeps DEF BatchNext
<1>4. CASE \E n \in Conversations : ReadMemory(n) \/ UpdateEnds(n)
  BY <1>4, ReadMemoryKeeps, UpdateEndsKeeps
<1> QED
  BY <1>1, <1>2, <1>3, <1>4 DEF MemoryNext

-----------------------------------------------------------------------------
(***************************************************************************)
(* The queue as a MemoryInbox.  What a batch still has to hand over is what*)
(* the updater has not had, once and in order; so a step of the queue is a *)
(* step of the inbox, and the order in which conversations reach the       *)
(* updater is an invariant of the inbox alone.                             *)
(***************************************************************************)

\* What a batch has left was not handed over, but for what it waits for; no conversation is
\* in two batches, and one that is closed has nothing left.
LeftOnce ==
    /\ \A b \in DOMAIN batches : \A i \in DOMAIN batches[b].left :
          job[batches[b].left[i].conv] = "none" \/ (i = 1 /\ batches[b].waiting)
    /\ \A a, b \in DOMAIN batches : \A i \in DOMAIN batches[a].left, j \in DOMAIN batches[b].left :
          batches[a].left[i].conv = batches[b].left[j].conv => a = b
    /\ \A b \in DOMAIN batches : batches[b].open \/ batches[b].left = <<>>

\* Both the queue and a batch are in the order of the add()s.
InOrder ==
    /\ \A i, j \in DOMAIN queue : i < j => queue[i].conv < queue[j].conv
    /\ \A b \in DOMAIN batches : \A i, j \in DOMAIN batches[b].left :
          i < j => batches[b].left[i].conv < batches[b].left[j].conv

\* The memory, stored or read, covers only conversations that were processed.
CoversDone == sections \subseteq InState({"done"}) /\ \A n \in Conversations : read[n].sections \subseteq InState({"done"})

TakenOnce == LeftOnce /\ InOrder /\ CoversDone

\* A new conversation is the last of the queue.
LEMMA AddTaken == ASSUME MemoryInv, TakenOnce, NEW t \in ChatThreads, NEW s \in SUBSET Signals, Add(t, s)
                  PROVE TakenOnce'
<1> DEFINE n == Len(added) + 1
           L == Len(OfOthers(t))
           new == [conv |-> n, signals |-> MergedSignals(t, s)]
<1>1. /\ n \in Conversations /\ L \in Nat /\ DOMAIN queue' = 1 .. (L + 1) /\ queue'[L + 1] = new
      /\ \A k \in 1 .. L : queue'[k] \in ToSet(queue)
      /\ \A k, l \in 1 .. L : k < l => \E i, j \in DOMAIN queue : i < j /\ queue'[k] = queue[i] /\ queue'[l] = queue[j]
  BY AddIs
<1>6. UNCHANGED <<batches, job, read, sections>>
  BY DEF Add, updateVars
<1>2. Len(added) \in Nat /\ new.conv = n /\ \A j \in DOMAIN queue : queue[j].conv \in 1 .. Len(added)
  BY MemoryKnown DEF MemoryInv, Added
<1> HIDE DEF new, L
<1>3. LeftOnce' /\ CoversDone'
  BY <1>6 DEF TakenOnce, LeftOnce, CoversDone, InState
<1>4. ASSUME NEW i \in 1 .. (L + 1), NEW j \in 1 .. (L + 1), i < j PROVE queue'[i].conv < queue'[j].conv
  <2>1. i \in 1 .. L /\ (j \in 1 .. L \/ j = L + 1)
    BY <1>1, <1>4
  <2>2. CASE j \in 1 .. L
    BY <1>1, <1>4, <2>1, <2>2 DEF TakenOnce, InOrder
  <2>3. CASE j = L + 1
    <3>1. queue'[i].conv \in 1 .. Len(added)
      BY <1>1, <1>2, <2>1 DEF ToSet
    <3> QED
      BY <1>1, <1>2, <2>3, <3>1
  <2> QED
    BY <2>1, <2>2, <2>3
<1>5. InOrder'
  <2>1. \A i, j \in DOMAIN queue' : i < j => queue'[i].conv < queue'[j].conv
    BY <1>1, <1>4
  <2> QED
    BY <1>1, <1>6, <2>1 DEF TakenOnce, InOrder
<1> QED
  BY <1>3, <1>5 DEF TakenOnce

\* A batch is what was queued.
LEMMA ProcessBatchIs == ASSUME MemoryInv, ProcessBatch
                        PROVE  LET m == Len(batches) + 1
                               IN /\ DOMAIN batches' = DOMAIN batches \cup {m} /\ m \notin DOMAIN batches
                                  /\ \A a \in DOMAIN batches : batches'[a] = batches[a]
                                  /\ batches'[m].left = queue /\ batches'[m].open
                                  /\ queue' = <<>> /\ processing = FALSE /\ queue # <<>>
                                  /\ UNCHANGED <<added, job, read, sections, facts, overlap>>
<1> DEFINE r == [left |-> queue, open |-> TRUE, waiting |-> FALSE]
           m == Len(batches) + 1
<1>1. batches \in Seq(MemoryBatch) /\ DOMAIN batches = 1 .. Len(batches) /\ Len(batches) \in Nat /\ queue \in Seq(Entries)
  BY MemoryKnown
<1>2. /\ batches' = Append(batches, r) /\ queue' = <<>> /\ ~processing /\ queue # <<>>
      /\ UNCHANGED <<added, job, read, sections, facts, overlap>>
  BY DEF ProcessBatch, TakeAll, updateVars
<1>3. r \in MemoryBatch /\ r.left = queue /\ r.open
  BY <1>1 DEF MemoryBatch
<1>4. processing = FALSE
  BY <1>2 DEF MemoryInv, MemoryTypeOK
<1> HIDE DEF r
<1>5. /\ DOMAIN batches' = 1 .. m /\ batches'[m] = r
      /\ \A a \in DOMAIN batches : batches'[a] = batches[a] /\ a # m
      /\ 1 .. m = DOMAIN batches \cup {m}
  BY <1>1, <1>2, <1>3
<1> QED
  BY <1>2, <1>3, <1>4, <1>5

\* A batch has what was queued, in its order, and nothing of it was handed over.
LEMMA ProcessBatchTaken == ASSUME MemoryInv, TakenOnce, ProcessBatch PROVE TakenOnce'
<1> DEFINE m == Len(batches) + 1
<1>1. /\ DOMAIN batches' = DOMAIN batches \cup {m} /\ m \notin DOMAIN batches
      /\ \A a \in DOMAIN batches : batches'[a] = batches[a]
      /\ batches'[m].left = queue /\ batches'[m].open
      /\ queue' = <<>> /\ UNCHANGED <<added, job, read, sections>>
  BY ProcessBatchIs
<1> HIDE DEF m
<1>2. CoversDone'
  BY <1>1 DEF TakenOnce, CoversDone, InState
<1>3. InOrder'
  <2>1. DOMAIN queue' = {}
    BY <1>1
  <2> QED
    BY <1>1, <2>1 DEF TakenOnce, InOrder
<1>4. \A i \in DOMAIN queue : job[queue[i].conv] = "none" /\ queue[i].conv \notin InBatches
  BY DEF MemoryInv, EachInOnePlace, ConvsIn
<1>5. \A a \in DOMAIN batches : \A i \in DOMAIN batches[a].left : batches[a].left[i].conv \in InBatches
  BY DEF InBatches, ConvsIn
<1>6. LeftOnce'
  <2>1. ASSUME NEW b \in DOMAIN batches', NEW i \in DOMAIN batches'[b].left
        PROVE  job'[batches'[b].left[i].conv] = "none" \/ (i = 1 /\ batches'[b].waiting)
    BY <1>1, <1>4 DEF TakenOnce, LeftOnce
  <2>2. ASSUME NEW a \in DOMAIN batches', NEW b \in DOMAIN batches',
               NEW i \in DOMAIN batches'[a].left, NEW j \in DOMAIN batches'[b].left,
               batches'[a].left[i].conv = batches'[b].left[j].conv
        PROVE  a = b
    BY <1>1, <1>4, <1>5, <2>2 DEF TakenOnce, LeftOnce
  <2>3. \A b \in DOMAIN batches' : batches'[b].open \/ batches'[b].left = <<>>
    BY <1>1 DEF TakenOnce, LeftOnce
  <2> QED
    BY <2>1, <2>2, <2>3 DEF LeftOnce
<1> QED
  BY <1>2, <1>3, <1>6 DEF TakenOnce

\* clear() leaves the batches alone.
LEMMA ClearTaken == ASSUME MemoryInv, TakenOnce, Clear PROVE TakenOnce'
<1>1. queue' = <<>> /\ UNCHANGED <<batches, job, read, sections>>
  BY DEF Clear, updateVars
<1>2. DOMAIN queue' = {}
  BY <1>1
<1> QED
  BY <1>1, <1>2 DEF TakenOnce, LeftOnce, InOrder, CoversDone, InState

\* What is handed over is the first of its batch, which now waits.
LEMMA SubmitTaken == ASSUME MemoryInv, TakenOnce, NEW b \in DOMAIN batches, Submit(b) PROVE TakenOnce'
<1> DEFINE next == batches[b].left[1].conv
<1>1. /\ 1 \in DOMAIN batches[b].left /\ next \in Conversations /\ ~batches[b].waiting
      /\ DOMAIN batches' = DOMAIN batches /\ batches'[b].waiting
      /\ \A a \in DOMAIN batches : a # b => batches'[a] = batches[a]
      /\ \A a \in DOMAIN batches : batches'[a].left = batches[a].left /\ batches'[a].open = batches[a].open
      /\ job'[next] = "queued" /\ \A n \in Conversations : n # next => job'[n] = job[n]
      /\ UNCHANGED <<queue, read, sections>>
  BY SubmitIs
<1>2. batches[b].left \in Seq(Entries)
  BY SubmitIs
<1>3. job[next] = "none"
  BY <1>1 DEF TakenOnce, LeftOnce
<1>4. InState({"done"}) \subseteq InState({"done"})'
  BY <1>1, <1>3 DEF InState
<1>5. CoversDone'
  BY <1>1, <1>4 DEF TakenOnce, CoversDone
<1>6. InOrder'
  BY <1>1 DEF TakenOnce, InOrder
<1>7. LeftOnce'
  <2>1. ASSUME NEW a \in DOMAIN batches, NEW i \in DOMAIN batches[a].left
        PROVE  job'[batches[a].left[i].conv] = "none" \/ (i = 1 /\ batches'[a].waiting)
    <3>1. batches[a].left[i].conv \in Conversations
      BY MemoryKnown DEF MemoryInv, Added
    <3>2. CASE batches[a].left[i].conv = next
      <4>1. a = b
        BY <1>1, <3>2 DEF TakenOnce, LeftOnce
      <4>2. ~(batches[b].left[i].conv > batches[b].left[1].conv)
        BY <1>1, <3>1, <3>2, <4>1 DEF Conversations
      <4>3. i \in Nat \ {0} /\ DOMAIN batches[b].left = 1 .. Len(batches[b].left)
        BY <1>2, <4>1
      <4>4. i = 1 \/ 1 < i
        BY <4>3
      <4>5. 1 < i => batches[b].left[1].conv < batches[b].left[i].conv
        BY <1>1, <4>1 DEF TakenOnce, InOrder
      <4>6. ~(1 < i)
        BY <1>1, <3>1, <4>1, <4>2, <4>5 DEF Conversations
      <4> QED
        BY <1>1, <4>1, <4>4, <4>6
    <3>3. CASE batches[a].left[i].conv # next
      BY <1>1, <3>1, <3>3 DEF TakenOnce, LeftOnce
    <3> QED
      BY <3>2, <3>3
  <2> QED
    BY <1>1, <2>1 DEF TakenOnce, LeftOnce
<1> QED
  BY <1>5, <1>6, <1>7 DEF TakenOnce

\* A batch goes on after its first conversation.
LEMMA CollectedTaken == ASSUME MemoryInv, TakenOnce, NEW b \in DOMAIN batches, NEW late \in BOOLEAN, Collected(b, late)
                        PROVE  TakenOnce'
<1> DEFINE todo == batches[b].left
           rest == batches'[b].left
<1>1. /\ todo \in Seq(Entries) /\ rest \in Seq(Entries)
      /\ 1 \in DOMAIN todo /\ DOMAIN batches' = DOMAIN batches
      /\ \A a \in DOMAIN batches : a # b => batches'[a] = batches[a]
      /\ \A a \in DOMAIN batches : batches'[a].open = batches[a].open
      /\ \A i \in DOMAIN rest : i + 1 \in DOMAIN todo /\ i + 1 # 1 /\ rest[i] = todo[i + 1]
      /\ UNCHANGED <<queue, job, read, sections>>
  BY CollectedIs
<1>2. \A i \in DOMAIN rest : i \in Nat
  BY <1>1
<1>3. CoversDone'
  BY <1>1 DEF TakenOnce, CoversDone, InState
<1>4. batches[b].open
  BY <1>1 DEF TakenOnce, LeftOnce
<1>5. ASSUME NEW i \in DOMAIN rest PROVE job[rest[i].conv] = "none"
  BY <1>1 DEF TakenOnce, LeftOnce
<1>6. ASSUME NEW i \in DOMAIN rest, NEW j \in DOMAIN rest, i < j PROVE rest[i].conv < rest[j].conv
  <2>1. i + 1 < j + 1
    BY <1>2, <1>6
  <2> QED
    BY <1>1, <2>1 DEF TakenOnce, InOrder
<1>7. \A a \in DOMAIN batches : \A i \in DOMAIN batches'[a].left :
         \E k \in DOMAIN batches[a].left : batches'[a].left[i] = batches[a].left[k]
  BY <1>1
<1> HIDE DEF rest
<1>8. LeftOnce'
  <2>1. ASSUME NEW a \in DOMAIN batches, NEW i \in DOMAIN batches'[a].left
        PROVE  job'[batches'[a].left[i].conv] = "none" \/ (i = 1 /\ batches'[a].waiting)
    <3>1. CASE a = b
      BY <1>1, <1>5, <3>1 DEF rest
    <3>2. CASE a # b
      BY <1>1, <3>2 DEF TakenOnce, LeftOnce
    <3> QED
      BY <3>1, <3>2
  <2>2. ASSUME NEW a \in DOMAIN batches, NEW c \in DOMAIN batches,
               NEW i \in DOMAIN batches'[a].left, NEW j \in DOMAIN batches'[c].left,
               batches'[a].left[i].conv = batches'[c].left[j].conv
        PROVE  a = c
    <3>1. PICK k \in DOMAIN batches[a].left : batches'[a].left[i] = batches[a].left[k]
      BY <1>7
    <3>2. PICK l \in DOMAIN batches[c].left : batches'[c].left[j] = batches[c].left[l]
      BY <1>7
    <3> QED
      BY <2>2, <3>1, <3>2 DEF TakenOnce, LeftOnce
  <2>3. ASSUME NEW a \in DOMAIN batches PROVE batches'[a].open \/ batches'[a].left = <<>>
    <3>1. CASE a = b
      BY <1>1, <1>4, <3>1
    <3>2. CASE a # b
      BY <1>1, <3>2 DEF TakenOnce, LeftOnce
    <3> QED
      BY <3>1, <3>2
  <2> QED
    BY <1>1, <2>1, <2>2, <2>3 DEF LeftOnce
<1>9. InOrder'
  <2>1. ASSUME NEW a \in DOMAIN batches, NEW i \in DOMAIN batches'[a].left, NEW j \in DOMAIN batches'[a].left, i < j
        PROVE  batches'[a].left[i].conv < batches'[a].left[j].conv
    <3>1. CASE a = b
      BY <1>6, <2>1, <3>1 DEF rest
    <3>2. CASE a # b
      BY <1>1, <2>1, <3>2 DEF TakenOnce, InOrder
    <3> QED
      BY <3>1, <3>2
  <2> QED
    BY <1>1, <2>1 DEF TakenOnce, InOrder
<1> QED
  BY <1>3, <1>8, <1>9 DEF TakenOnce

\* Only an empty batch is closed.
LEMMA CloseBatchTaken == ASSUME MemoryInv, TakenOnce, NEW b \in DOMAIN batches, CloseBatch(b) PROVE TakenOnce'
<1>1. /\ batches[b].left = <<>> /\ DOMAIN batches' = DOMAIN batches
      /\ \A a \in DOMAIN batches : a # b => batches'[a] = batches[a]
      /\ \A a \in DOMAIN batches : batches'[a].left = batches[a].left /\ batches'[a].waiting = batches[a].waiting
      /\ UNCHANGED <<queue, job, read, sections>>
  BY CloseBatchIs
<1> QED
  BY <1>1 DEF TakenOnce, LeftOnce, InOrder, CoversDone, InState

\* An update ends, and the memory covers what it has read, or what it did.
LEMMA UpdateEndsIs == ASSUME MemoryInv, NEW n \in Conversations, UpdateEnds(n)
                      PROVE  /\ job[n] \in {"queued", "asked"} /\ job'[n] = "done"
                             /\ \A m \in Conversations : m # n => job'[m] = job[m] /\ read'[m] = read[m]
                             /\ read'[n].sections = {}
                             /\ sections' = sections \/ (job[n] = "asked" /\ sections' = read[n].sections \cup {n})
                             /\ UNCHANGED <<added, queue, processing, batches, overlap>>
<1>1. job \in [Conversations -> {"none", "queued", "asked", "done"}] /\ read \in [Conversations -> Memory]
  BY DEF MemoryInv, MemoryTypeOK
<1>2. /\ job[n] \in {"queued", "asked"} /\ job' = [job EXCEPT ![n] = "done"] /\ read' = [read EXCEPT ![n] = Nothing]
      /\ UNCHANGED <<queueVars, timerVars, overlap>>
      /\ sections' = sections \/ (job[n] = "asked" /\ sections' = read[n].sections \cup {n})
  BY DEF UpdateEnds, WriteMemory, UpdateFails, Forget
<1> QED
  BY <1>1, <1>2 DEF queueVars, Nothing

\* What an update writes covers what was processed before it, and its own conversation.
LEMMA UpdateEndsTaken == ASSUME MemoryInv, TakenOnce, NEW n \in Conversations, UpdateEnds(n) PROVE TakenOnce'
<1>1. /\ job[n] \in {"queued", "asked"} /\ job'[n] = "done"
      /\ \A m \in Conversations : m # n => job'[m] = job[m] /\ read'[m] = read[m]
      /\ read'[n].sections = {}
      /\ sections' = sections \/ sections' = read[n].sections \cup {n}
      /\ UNCHANGED <<added, queue, batches>>
  BY UpdateEndsIs
<1>2. InState({"done"})' = InState({"done"}) \cup {n}
  BY <1>1 DEF InState
<1>3. CoversDone'
  BY <1>1, <1>2 DEF TakenOnce, CoversDone
<1>4. \A b \in DOMAIN batches : \A i \in DOMAIN batches[b].left : batches[b].left[i].conv \in Conversations
  BY MemoryKnown DEF MemoryInv, Added
<1>5. LeftOnce'
  BY <1>1, <1>4 DEF TakenOnce, LeftOnce
<1>6. InOrder'
  BY <1>1 DEF TakenOnce, InOrder
<1> QED
  BY <1>3, <1>5, <1>6 DEF TakenOnce

\* The updater reads what is stored.
LEMMA ReadMemoryIs == ASSUME MemoryInv, NEW n \in Conversations, ReadMemory(n)
                      PROVE  /\ job[n] = "queued" /\ job'[n] = "asked" /\ read'[n].sections = sections
                             /\ \A m \in Conversations : m # n => job'[m] = job[m] /\ read'[m] = read[m]
                             /\ UNCHANGED <<added, queue, batches, sections, overlap>>
<1> DEFINE r == [sections |-> sections, facts |-> Stored]
<1>1. job \in [Conversations -> {"none", "queued", "asked", "done"}] /\ read \in [Conversations -> Memory]
  BY DEF MemoryInv, MemoryTypeOK
<1>2. /\ job[n] = "queued" /\ job' = [job EXCEPT ![n] = "asked"] /\ read' = [read EXCEPT ![n] = r]
      /\ UNCHANGED <<sections, facts, queueVars, timerVars, overlap>>
  BY DEF ReadMemory
<1>3. r.sections = sections
  OBVIOUS
<1> HIDE DEF r
<1> QED
  BY <1>1, <1>2, <1>3 DEF queueVars

\* What an update reads covers what was processed.
LEMMA ReadMemoryTaken == ASSUME MemoryInv, TakenOnce, NEW n \in Conversations, ReadMemory(n) PROVE TakenOnce'
<1>1. /\ job[n] = "queued" /\ job'[n] = "asked" /\ read'[n].sections = sections
      /\ \A m \in Conversations : m # n => job'[m] = job[m] /\ read'[m] = read[m]
      /\ UNCHANGED <<added, queue, batches, sections>>
  BY ReadMemoryIs
<1>2. InState({"done"})' = InState({"done"})
  BY <1>1 DEF InState
<1>3. CoversDone'
  BY <1>1, <1>2 DEF TakenOnce, CoversDone
<1>4. \A b \in DOMAIN batches : \A i \in DOMAIN batches[b].left : batches[b].left[i].conv \in Conversations
  BY MemoryKnown DEF MemoryInv, Added
<1>5. LeftOnce'
  BY <1>1, <1>4 DEF TakenOnce, LeftOnce
<1>6. InOrder'
  BY <1>1 DEF TakenOnce, InOrder
<1> QED
  BY <1>3, <1>5, <1>6 DEF TakenOnce

\* Steps that leave conversations where they are.
LEMMA TimerSteps == ASSUME TimerFires \/ ProcessLater \/ ProcessNothing \/ Flush \/ UNCHANGED memoryVars
                    PROVE  UNCHANGED <<added, queue, batches, job, read, sections, overlap>>
  BY DEF TimerFires, ProcessLater, ProcessNothing, Flush, memoryVars, queueVars, updateVars

\* Every step keeps batches apart and in order.
LEMMA TakenKeeps == ASSUME MemoryInv, TakenOnce, [MemoryNext]_memoryVars PROVE TakenOnce'
<1>1. CASE \E t \in ChatThreads : AfterAgent(t)
  <2>1. PICK t \in ChatThreads, s \in SignalSets : Add(t, s)
    BY <1>1 DEF AfterAgent
  <2>2. s \in SUBSET Signals
    BY DEF SignalSets
  <2> QED
    BY <2>1, <2>2, AddTaken
<1>2. CASE TimerFires \/ ProcessLater \/ ProcessNothing \/ Flush \/ UNCHANGED memoryVars
  BY <1>2, TimerSteps DEF TakenOnce, LeftOnce, InOrder, CoversDone, InState
<1>3. CASE ProcessBatch \/ Clear
  BY <1>3, ProcessBatchTaken, ClearTaken
<1>4. CASE \E b \in DOMAIN batches : BatchNext(b)
  BY <1>4, SubmitTaken, CollectedTaken, CloseBatchTaken DEF BatchNext
<1>5. CASE \E n \in Conversations : ReadMemory(n) \/ UpdateEnds(n)
  BY <1>5, ReadMemoryTaken, UpdateEndsTaken
<1> QED
  BY <1>1, <1>2, <1>3, <1>4, <1>5 DEF MemoryNext, LockTaken

\* e is left in a batch, and was not handed over.
ToHand(e) == \E b \in DOMAIN batches : \E i \in DOMAIN batches[b].left :
                 e = batches[b].left[i] /\ job[e.conv] = "none"

\* What is not submitted is what some batch still has to hand over,
LEMMA UnsubmittedIs == \A e : e \in Unsubmitted <=> ToHand(e)
BY DEF Unsubmitted, ToHand, ToSet

\* and so it is after a step.
LEMMA UnsubmittedWillBe == \A e : e \in Unsubmitted' <=> ToHand(e)'
BY DEF Unsubmitted, ToHand, ToSet

\* What is to be handed over is one entry per conversation, of those that were added.
LEMMA UnsubmittedFacts == ASSUME MemoryInv, TakenOnce
                          PROVE  /\ \A e \in Unsubmitted : e \in Entries /\ job[e.conv] = "none" /\ e.conv \in 1 .. Len(added)
                                 /\ \A e, f \in Unsubmitted : e.conv = f.conv => e = f
<1>1. ASSUME NEW e \in Unsubmitted PROVE e \in Entries /\ job[e.conv] = "none" /\ e.conv \in 1 .. Len(added)
  <2>1. PICK b \in DOMAIN batches : \E i \in DOMAIN batches[b].left : e = batches[b].left[i] /\ job[e.conv] = "none"
    BY UnsubmittedIs DEF ToHand
  <2>2. batches[b] \in MemoryBatch
    BY MemoryKnown
  <2>3. batches[b].left \in Seq(Entries)
    BY <2>2 DEF MemoryBatch
  <2> QED
    BY <2>1, <2>3 DEF MemoryInv, Added
<1>2. ASSUME NEW e \in Unsubmitted, NEW f \in Unsubmitted, e.conv = f.conv PROVE e = f
  <2>1. PICK b \in DOMAIN batches : \E i \in DOMAIN batches[b].left : e = batches[b].left[i] /\ job[e.conv] = "none"
    BY UnsubmittedIs DEF ToHand
  <2>2. PICK c \in DOMAIN batches : \E i \in DOMAIN batches[c].left : f = batches[c].left[i] /\ job[f.conv] = "none"
    BY UnsubmittedIs DEF ToHand
  <2>3. PICK i \in DOMAIN batches[b].left : e = batches[b].left[i]
    BY <2>1
  <2>4. PICK j \in DOMAIN batches[c].left : f = batches[c].left[j]
    BY <2>2
  <2>5. b = c
    BY <1>2, <2>3, <2>4 DEF TakenOnce, LeftOnce
  <2>6. batches[b] \in MemoryBatch
    BY MemoryKnown
  <2>7. batches[b].left \in Seq(Entries)
    BY <2>6 DEF MemoryBatch
  <2>8. i \in Nat /\ j \in Nat
    BY <2>5, <2>7
  <2>9. e.conv \in Nat /\ f.conv \in Nat
    BY <1>1 DEF Entries, Conversations
  <2>10. i < j => e.conv < f.conv
    BY <2>3, <2>4, <2>5 DEF TakenOnce, InOrder
  <2>11. j < i => f.conv < e.conv
    BY <2>3, <2>4, <2>5 DEF TakenOnce, InOrder
  <2>12. i = j
    BY <1>2, <2>8, <2>9, <2>10, <2>11
  <2> QED
    BY <2>3, <2>4, <2>5, <2>12
<1> QED
  BY <1>1, <1>2

\* Nothing is open and all is handed over, or the queue is in a hurry.
LEMMA NothingOpen == ASSUME MemoryInv, TakenOnce, ~processing
                     PROVE  overlap \/ (Unsubmitted = {} /\ InState({"queued", "asked"}) = {})
<1> SUFFICES ASSUME ~overlap PROVE Unsubmitted = {} /\ InState({"queued", "asked"}) = {}
  OBVIOUS
<1>1. OneAtATime
  BY DEF MemoryInv
<1>2. \A b \in DOMAIN batches : ~batches[b].open /\ ~batches[b].waiting
  BY <1>1 DEF OneAtATime
<1>3. \A b \in DOMAIN batches : batches[b].left = <<>>
  BY <1>2 DEF TakenOnce, LeftOnce
<1>4. \A b \in DOMAIN batches : DOMAIN batches[b].left = {}
  BY <1>3
<1>5. Unsubmitted = {}
  BY <1>4, UnsubmittedIs DEF ToHand
<1>6. InState({"queued", "asked"}) = {}
  BY <1>1, <1>2 DEF OneAtATime, InState
<1> QED
  BY <1>5, <1>6

\* add() says a conversation.
LEMMA AddRefines == ASSUME MemoryInv, NEW t \in ChatThreads, NEW s \in SUBSET Signals, Add(t, s)
                    PROVE  Inbox!Say(t, s)
<1> DEFINE n == Len(added) + 1
           L == Len(OfOthers(t))
           new == [conv |-> n, signals |-> MergedSignals(t, s)]
<1>1. /\ L \in Nat /\ DOMAIN queue' = 1 .. (L + 1) /\ queue'[L + 1] = new
      /\ \A k \in 1 .. L : queue'[k] \in ToSet(queue) /\ added[queue'[k].conv] # t
      /\ \A j \in DOMAIN queue : added[queue[j].conv] # t => \E k \in 1 .. L : queue'[k] = queue[j]
  BY AddIs
<1>7. added' = Append(added, t) /\ UNCHANGED <<batches, job, sections, overlap>>
  BY DEF Add, updateVars
<1>2. 1 .. (L + 1) = (1 .. L) \cup {L + 1}
  BY <1>1
<1>3. new = [conv |-> n, signals |-> s \cup UNION {e.signals : e \in OfThread(t)}]
  BY DEF MergedSignals
<1> HIDE DEF new, L
<1>4. ToSet(queue)' = (ToSet(queue) \ OfThread(t)) \cup {new}
  <2>1. \A e \in ToSet(queue)' : e \in (ToSet(queue) \ OfThread(t)) \cup {new}
    BY <1>1, <1>2 DEF ToSet, OfThread
  <2>2. \A e \in ToSet(queue) \ OfThread(t) : e \in ToSet(queue)'
    BY <1>1, <1>2 DEF ToSet, OfThread
  <2>3. new \in ToSet(queue)'
    BY <1>1, <1>2 DEF ToSet
  <2> QED
    BY <2>1, <2>2, <2>3
<1>5. UNCHANGED <<Unsubmitted, InState({"queued", "asked"}), InState({"done"}), sections, overlap>>
  BY <1>7 DEF Unsubmitted, InState
<1>6. OfThread(t) = {e \in ToSet(queue) : added[e.conv] = t}
  BY DEF OfThread
<1> QED
  BY <1>3, <1>4, <1>5, <1>6, <1>7 DEF Inbox!Say

\* A batch takes what waits.
LEMMA ProcessBatchRefines == ASSUME MemoryInv, TakenOnce, ProcessBatch PROVE Inbox!Take
<1> DEFINE m == Len(batches) + 1
<1>1. /\ DOMAIN batches' = DOMAIN batches \cup {m} /\ m \notin DOMAIN batches
      /\ \A a \in DOMAIN batches : batches'[a] = batches[a]
      /\ batches'[m].left = queue /\ queue' = <<>> /\ processing = FALSE
      /\ UNCHANGED <<added, job, sections, overlap>>
  BY ProcessBatchIs
<1> HIDE DEF m
<1>2. overlap \/ (Unsubmitted = {} /\ InState({"queued", "asked"}) = {})
  BY <1>1, NothingOpen
<1>3. \A i \in DOMAIN queue : job[queue[i].conv] = "none"
  BY DEF MemoryInv, EachInOnePlace, ConvsIn
<1>4. \A e : ToHand(e)' <=> ToHand(e) \/ e \in ToSet(queue)
  BY <1>1, <1>3 DEF ToHand, ToSet
<1>5. Unsubmitted' = Unsubmitted \cup ToSet(queue)
  BY <1>4, UnsubmittedIs, UnsubmittedWillBe
<1>6. ToSet(queue)' = {}
  <2>1. DOMAIN queue' = {}
    BY <1>1
  <2> QED
    BY <2>1 DEF ToSet
<1>7. UNCHANGED <<InState({"queued", "asked"}), InState({"done"})>>
  BY <1>1 DEF InState
<1> QED
  BY <1>1, <1>2, <1>5, <1>6, <1>7 DEF Inbox!Take

\* clear() drops what waits.
LEMMA ClearRefines == ASSUME MemoryInv, Clear PROVE Inbox!Drop
<1>1. queue' = <<>> /\ overlap' = (overlap \/ processing) /\ UNCHANGED <<added, batches, job, sections>>
  BY DEF Clear, updateVars
<1>2. ToSet(queue)' = {}
  <2>1. DOMAIN queue' = {}
    BY <1>1
  <2> QED
    BY <2>1 DEF ToSet
<1>3. overlap' \in {overlap, TRUE}
  <2>1. overlap \in BOOLEAN /\ processing \in BOOLEAN
    BY DEF MemoryInv, MemoryTypeOK
  <2> QED
    BY <1>1, <2>1, Zenon
<1>4. UNCHANGED <<Unsubmitted, InState({"queued", "asked"}), InState({"done"})>>
  BY <1>1 DEF Unsubmitted, InState
<1> QED
  BY <1>1, <1>2, <1>3, <1>4 DEF Inbox!Drop

\* A batch hands over what it took first.
LEMMA SubmitRefines == ASSUME MemoryInv, TakenOnce, NEW b \in DOMAIN batches, Submit(b)
                       PROVE  \E e \in Unsubmitted : Inbox!Hand(e)
<1> DEFINE e == batches[b].left[1]
<1>1. /\ batches[b].open /\ ~batches[b].waiting
      /\ 1 \in DOMAIN batches[b].left /\ batches[b].left \in Seq(Entries) /\ e.conv \in Conversations
      /\ DOMAIN batches' = DOMAIN batches
      /\ \A a \in DOMAIN batches : batches'[a].left = batches[a].left
      /\ job'[e.conv] = "queued" /\ \A n \in Conversations : n # e.conv => job'[n] = job[n]
      /\ UNCHANGED <<added, queue, sections, overlap>>
  BY SubmitIs
<1>2. job[e.conv] = "none"
  BY <1>1 DEF TakenOnce, LeftOnce
<1>3. ToHand(e)
  BY <1>1, <1>2 DEF ToHand
<1> HIDE DEF e
<1>4. /\ e \in Unsubmitted
      /\ \A f \in Unsubmitted : f.conv \in 1 .. Len(added) /\ (f.conv = e.conv => f = e)
  BY <1>3, UnsubmittedIs, UnsubmittedFacts
<1>5. Len(added) \in Nat /\ 1 .. Len(added) \subseteq Conversations
  BY MemoryKnown
<1>6. Unsubmitted' = Unsubmitted \ {e}
  <2>1. ASSUME NEW f, ToHand(f)' PROVE ToHand(f) /\ f # e
    <3>1. PICK a \in DOMAIN batches : \E i \in DOMAIN batches[a].left : f = batches[a].left[i] /\ job'[f.conv] = "none"
      BY <1>1, <2>1 DEF ToHand
    <3>4. PICK i \in DOMAIN batches[a].left : f = batches[a].left[i] /\ job'[f.conv] = "none"
      BY <3>1
    <3>2. f.conv \in Conversations
      BY <1>5, <3>4 DEF MemoryInv, Added
    <3>3. f.conv # e.conv
      BY <1>1, <3>1
    <3> QED
      BY <1>1, <3>2, <3>3, <3>4 DEF ToHand
  <2>2. ASSUME NEW f, ToHand(f), f # e PROVE ToHand(f)'
    <3>1. f \in Unsubmitted
      BY <2>2, UnsubmittedIs
    <3>2. f.conv # e.conv /\ f.conv \in Conversations
      BY <1>4, <1>5, <2>2, <3>1
    <3>3. job'[f.conv] = job[f.conv]
      BY <1>1, <3>2
    <3> QED
      BY <1>1, <2>2, <3>3 DEF ToHand
  <2> QED
    BY <2>1, <2>2, UnsubmittedIs, UnsubmittedWillBe
<1>7. InState({"queued", "asked"})' = InState({"queued", "asked"}) \cup {e.conv} /\ InState({"done"})' = InState({"done"})
  BY <1>1, <1>2 DEF InState
<1>8. ASSUME ~overlap PROVE InState({"queued", "asked"}) = {} /\ \A f \in Unsubmitted : e.conv <= f.conv
  <2>1. OneAtATime
    BY <1>8 DEF MemoryInv
  <2>2. InState({"queued", "asked"}) = {}
    BY <1>1, <2>1 DEF OneAtATime, InState
  <2>3. ASSUME NEW f \in Unsubmitted PROVE e.conv <= f.conv
    <3>1. PICK a \in DOMAIN batches : \E i \in DOMAIN batches[a].left : f = batches[a].left[i]
      BY UnsubmittedIs DEF ToHand
    <3>2. PICK i \in DOMAIN batches[a].left : f = batches[a].left[i]
      BY <3>1
    <3>3. batches[a].left # <<>>
      BY <3>2
    <3>4. a = b
      BY <1>1, <2>1, <3>3 DEF TakenOnce, LeftOnce, OneAtATime
    <3>5. i \in Nat \ {0}
      BY <1>1, <3>4
    <3>6. i = 1 \/ 1 < i
      BY <3>5
    <3>7. 1 < i => e.conv < f.conv
      BY <1>1, <3>2, <3>4 DEF TakenOnce, InOrder, e
    <3>8. e.conv \in Nat /\ f.conv \in Nat
      BY <1>4, <1>5
    <3>9. i = 1 => f = e
      BY <3>2, <3>4 DEF e
    <3> QED
      BY <3>6, <3>7, <3>8, <3>9
  <2> QED
    BY <2>2, <2>3
<1>9. UNCHANGED ToSet(queue)
  BY <1>1
<1> QED
  BY <1>1, <1>4, <1>6, <1>7, <1>8, <1>9 DEF Inbox!Hand

\* A batch that is done with a conversation stays, or is in a hurry.
LEMMA CollectedRefines == ASSUME MemoryInv, TakenOnce, NEW b \in DOMAIN batches, NEW late \in BOOLEAN, Collected(b, late)
                          PROVE  Inbox!Hurry \/ UNCHANGED Inbox!inboxVars
<1> DEFINE todo == batches[b].left
           rest == batches'[b].left
<1>1. /\ todo \in Seq(Entries) /\ 1 \in DOMAIN todo /\ job[todo[1].conv] # "none"
      /\ DOMAIN batches' = DOMAIN batches
      /\ \A a \in DOMAIN batches : a # b => batches'[a] = batches[a]
      /\ \A i \in DOMAIN rest : i + 1 \in DOMAIN todo /\ rest[i] = todo[i + 1]
      /\ \A j \in DOMAIN todo : j # 1 => \E i \in DOMAIN rest : rest[i] = todo[j]
      /\ overlap' = (overlap \/ late)
      /\ UNCHANGED <<added, queue, job, sections>>
  BY CollectedIs
<1>2. \A e : (\E i \in DOMAIN rest : e = rest[i]) /\ job[e.conv] = "none" <=>
             (\E i \in DOMAIN todo : e = todo[i]) /\ job[e.conv] = "none"
  BY <1>1
<1>3. \A e : ToHand(e)' <=> ToHand(e)
  <2>1. ASSUME NEW e, NEW a \in DOMAIN batches
        PROVE  (\E i \in DOMAIN batches'[a].left : e = batches'[a].left[i] /\ job[e.conv] = "none") <=>
               (\E i \in DOMAIN batches[a].left : e = batches[a].left[i] /\ job[e.conv] = "none")
    <3>1. CASE a = b
      BY <1>2, <3>1
    <3>2. CASE a # b
      BY <1>1, <3>2
    <3> QED
      BY <3>1, <3>2
  <2> QED
    BY <1>1, <2>1 DEF ToHand
<1>4. Unsubmitted' = Unsubmitted
  BY <1>3, UnsubmittedIs, UnsubmittedWillBe
<1>5. UNCHANGED <<added, ToSet(queue), InState({"queued", "asked"}), InState({"done"}), sections>>
  BY <1>1 DEF InState
<1>6. overlap' = overlap \/ overlap' = TRUE
  <2>1. overlap \in BOOLEAN
    BY DEF MemoryInv, MemoryTypeOK
  <2> QED
    BY <1>1, <2>1, Zenon
<1> QED
  BY <1>4, <1>5, <1>6 DEF Inbox!Hurry, Inbox!inboxVars

\* A batch that closes, an update that begins and timers change nothing of the inbox.
LEMMA StillInInbox == ASSUME UNCHANGED <<added, queue, sections, overlap>>, \A e : ToHand(e)' <=> ToHand(e),
                             UNCHANGED <<InState({"queued", "asked"}), InState({"done"})>>
                      PROVE  UNCHANGED Inbox!inboxVars
<1>1. Unsubmitted' = Unsubmitted
  BY UnsubmittedIs, UnsubmittedWillBe
<1> QED
  BY <1>1 DEF Inbox!inboxVars

\* An update ends, and unless it is in a hurry it is remembered on top of the others or fails.
LEMMA UpdateEndsRefines == ASSUME MemoryInv, TakenOnce, NEW n \in Conversations, UpdateEnds(n)
                           PROVE  n \in InState({"queued", "asked"}) /\ (Inbox!Fail(n) \/ Inbox!Remember(n) \/ Inbox!Undo(n))
<1>1. /\ job[n] \in {"queued", "asked"} /\ job'[n] = "done"
      /\ \A m \in Conversations : m # n => job'[m] = job[m]
      /\ sections' = sections \/ (job[n] = "asked" /\ sections' = read[n].sections \cup {n})
      /\ UNCHANGED <<added, queue, batches, overlap>>
  BY UpdateEndsIs
<1>2. \A b \in DOMAIN batches : \A i \in DOMAIN batches[b].left : batches[b].left[i].conv \in Conversations
  BY MemoryKnown DEF MemoryInv, Added
<1>3. \A e : ToHand(e)' <=> ToHand(e)
  BY <1>1, <1>2 DEF ToHand
<1>4. Unsubmitted' = Unsubmitted
  BY <1>3, UnsubmittedIs, UnsubmittedWillBe
<1>5. /\ n \in InState({"queued", "asked"})
      /\ InState({"queued", "asked"})' = InState({"queued", "asked"}) \ {n}
      /\ InState({"done"})' = InState({"done"}) \cup {n}
  BY <1>1 DEF InState
<1>6. Inbox!Done(n)
  BY <1>1, <1>4, <1>5 DEF Inbox!Done
<1>7. CASE sections' = sections
  BY <1>5, <1>6, <1>7 DEF Inbox!Fail
<1>8. CASE job[n] = "asked" /\ sections' = read[n].sections \cup {n}
  <2>1. CASE overlap
    BY <1>5, <1>6, <1>8, <2>1 DEF Inbox!Undo, TakenOnce, CoversDone
  <2>2. CASE ~overlap
    BY <1>5, <1>6, <1>8, <2>2 DEF Inbox!Remember, MemoryInv, OneAtATime
  <2> QED
    BY <2>1, <2>2
<1> QED
  BY <1>1, <1>5, <1>7, <1>8

\* Every step of the queue and the updater is one of the inbox, or none.
LEMMA QueueRefines == ASSUME MemoryInv, TakenOnce, [MemoryNext]_memoryVars PROVE [Inbox!Next]_(Inbox!inboxVars)
<1>1. CASE \E t \in ChatThreads : AfterAgent(t)
  <2>1. PICK t \in ChatThreads, s \in SignalSets : Add(t, s)
    BY <1>1 DEF AfterAgent
  <2>2. s \in SUBSET Signals
    BY DEF SignalSets
  <2> QED
    BY <2>1, <2>2, AddRefines DEF Inbox!Next
<1>2. CASE TimerFires \/ ProcessLater \/ ProcessNothing \/ Flush \/ UNCHANGED memoryVars
  <2>1. UNCHANGED <<added, queue, batches, job, sections, overlap>>
    BY <1>2, TimerSteps
  <2>2. \A e : ToHand(e)' <=> ToHand(e)
    BY <2>1 DEF ToHand
  <2> QED
    BY <2>1, <2>2, StillInInbox DEF InState
<1>3. CASE ProcessBatch \/ Clear
  BY <1>3, ProcessBatchRefines, ClearRefines DEF Inbox!Next
<1>4. ASSUME NEW b \in DOMAIN batches, BatchNext(b) PROVE [Inbox!Next]_(Inbox!inboxVars)
  <2>1. CASE Submit(b)
    BY <2>1, SubmitRefines DEF Inbox!Next
  <2>2. CASE Collected(b, FALSE) \/ Collected(b, TRUE)
    BY <2>2, CollectedRefines DEF Inbox!Next
  <2>3. CASE CloseBatch(b)
    <3>1. /\ UNCHANGED <<added, queue, job, sections, overlap>> /\ DOMAIN batches' = DOMAIN batches
          /\ \A a \in DOMAIN batches : batches'[a].left = batches[a].left
      BY <2>3, CloseBatchIs
    <3>2. \A e : ToHand(e)' <=> ToHand(e)
      BY <3>1 DEF ToHand
    <3> QED
      BY <3>1, <3>2, StillInInbox DEF InState
  <2> QED
    BY <1>4, <2>1, <2>2, <2>3 DEF BatchNext
<1>5. ASSUME NEW n \in Conversations, ReadMemory(n) PROVE UNCHANGED Inbox!inboxVars
  <2>1. /\ job[n] = "queued" /\ job'[n] = "asked" /\ \A m \in Conversations : m # n => job'[m] = job[m]
        /\ UNCHANGED <<added, queue, batches, sections, overlap>>
    BY <1>5, ReadMemoryIs
  <2>2. \A b \in DOMAIN batches : \A i \in DOMAIN batches[b].left : batches[b].left[i].conv \in Conversations
    BY MemoryKnown DEF MemoryInv, Added
  <2>3. \A e : ToHand(e)' <=> ToHand(e)
    BY <2>1, <2>2 DEF ToHand
  <2>4. UNCHANGED <<InState({"queued", "asked"}), InState({"done"})>>
    BY <2>1 DEF InState
  <2> QED
    BY <2>1, <2>3, <2>4, StillInInbox
<1>6. ASSUME NEW n \in Conversations, UpdateEnds(n) PROVE Inbox!Next
  BY <1>6, UpdateEndsRefines DEF Inbox!Next
<1> QED
  BY <1>1, <1>2, <1>3, <1>4, <1>5, <1>6 DEF MemoryNext, LockTaken

\* Unless the queue is in a hurry, what the updater has or had is older than what is to be
\* handed over, and that is older than what may still be replaced.
InboxOrdered ==
    \/ overlap
    \/ /\ \A n \in InState({"queued", "asked"}) \cup InState({"done"}), e \in Unsubmitted \cup ToSet(queue) : n < e.conv
       /\ \A e \in Unsubmitted, f \in ToSet(queue) : e.conv < f.conv

\* Every step of the inbox keeps its order.
LEMMA InboxKeeps == ASSUME MemoryInv, TakenOnce, InboxOrdered, [Inbox!Next]_(Inbox!inboxVars) PROVE InboxOrdered'
<1> DEFINE T == Unsubmitted
           W == ToSet(queue)
           H == InState({"queued", "asked"})
           O == InState({"done"})
<1>1. /\ Len(added) \in Nat
      /\ \A e \in T \cup W : e.conv \in 1 .. Len(added)
      /\ \A n \in H \cup O : n \in 1 .. Len(added)
      /\ \A e, f \in T : e.conv = f.conv => e = f
  <2>1. \A e \in W : e.conv \in 1 .. Len(added)
    BY DEF MemoryInv, Added, ToSet
  <2>2. \A n \in H \cup O : n \in 1 .. Len(added)
    BY DEF MemoryInv, Added, InState
  <2> QED
    BY <2>1, <2>2, MemoryKnown, UnsubmittedFacts
<1>2. ~overlap => /\ \A n \in H \cup O, e \in T \cup W : n < e.conv
                  /\ \A e \in T, f \in W : e.conv < f.conv
  BY DEF InboxOrdered
<1>3. InboxOrdered' <=> \/ overlap'
                        \/ /\ \A n \in H' \cup O', e \in T' \cup W' : n < e.conv
                           /\ \A e \in T', f \in W' : e.conv < f.conv
  BY DEF InboxOrdered
<1>4. ASSUME NEW t \in ChatThreads, NEW s \in SUBSET Signals, Inbox!Say(t, s) PROVE InboxOrdered'
  <2> DEFINE old == {e \in W : added[e.conv] = t}
             new == [conv |-> Len(added) + 1, signals |-> s \cup UNION {e.signals : e \in old}]
  <2>1. /\ W' = (W \ old) \cup {new} /\ T' = T /\ H' = H /\ O' = O /\ overlap' = overlap
    BY <1>4 DEF Inbox!Say
  <2>2. new.conv = Len(added) + 1
    OBVIOUS
  <2> HIDE DEF new, old, T, W, H, O
  <2>3. \A n \in H \cup O : n < new.conv
    BY <1>1, <2>2
  <2>4. \A e \in T : e.conv < new.conv
    BY <1>1, <2>2
  <2> QED
    BY <1>2, <1>3, <2>1, <2>3, <2>4
<1>5. CASE Inbox!Take
  <2>1. /\ overlap \/ (T = {} /\ H = {})
        /\ T' = T \cup W /\ W' = {} /\ H' = H /\ O' = O /\ overlap' = overlap
    BY <1>5 DEF Inbox!Take
  <2> HIDE DEF T, W, H, O
  <2> QED
    BY <1>2, <1>3, <2>1
<1>6. ASSUME NEW e \in T, Inbox!Hand(e) PROVE InboxOrdered'
  <2>1. /\ overlap \/ (H = {} /\ \A f \in T : e.conv <= f.conv)
        /\ T' = T \ {e} /\ H' = H \cup {e.conv} /\ W' = W /\ O' = O /\ overlap' = overlap
    BY <1>6 DEF Inbox!Hand
  <2> HIDE DEF T, W, H, O
  <2>2. ASSUME ~overlap, NEW f \in T \ {e} PROVE e.conv < f.conv
    <3>1. e.conv # f.conv /\ e.conv <= f.conv /\ e.conv \in 1 .. Len(added) /\ f.conv \in 1 .. Len(added)
      BY <1>1, <1>6, <2>1, <2>2
    <3> QED
      BY <1>1, <3>1
  <2>3. \A n \in H \cup O : ~overlap => \A f \in T \cup W : n < f.conv
    BY <1>2
  <2> QED
    BY <1>2, <1>3, <1>6, <2>1, <2>2, <2>3
<1>7. ASSUME NEW n \in H, Inbox!Done(n) PROVE InboxOrdered'
  <2>1. T' = T /\ W' = W /\ H' = H \ {n} /\ O' = O \cup {n} /\ overlap' = overlap
    BY <1>7 DEF Inbox!Done
  <2> HIDE DEF T, W, H, O
  <2> QED
    BY <1>2, <1>3, <1>7, <2>1
<1>8. CASE Inbox!Drop
  <2>1. T' = T /\ W' = {} /\ H' = H /\ O' = O /\ overlap' \in {overlap, TRUE}
    BY <1>8 DEF Inbox!Drop
  <2>2. overlap => overlap'
    BY <2>1, Zenon
  <2> HIDE DEF T, W, H, O
  <2> QED
    BY <1>2, <1>3, <2>1, <2>2
<1>9. CASE Inbox!Hurry \/ UNCHANGED Inbox!inboxVars
  BY <1>2, <1>3, <1>9 DEF Inbox!Hurry, Inbox!inboxVars
<1>10. CASE Inbox!Next
  BY <1>4, <1>5, <1>6, <1>7, <1>8, <1>9, <1>10 DEF Inbox!Next, Inbox!Fail, Inbox!Remember, Inbox!Undo
<1> QED
  BY <1>9, <1>10

\* The memory queue is an inbox: nothing is handed over twice, nor out of order, whatever
\* is added, flushed and cleared while a batch is processed, unless a wait timed out or
\* clear() let go of a batch (queue.py, updater.py).
THEOREM QueueKeepsTheInbox == MemorySpec => QueueIsAnInbox
<1>1. MemoryInit => MemoryInv /\ TakenOnce /\ Inbox!Init
  <2> SUFFICES ASSUME MemoryInit PROVE TakenOnce /\ Inbox!Init
    BY MemoryInitially
  <2>1. /\ DOMAIN queue = {} /\ DOMAIN batches = {} /\ sections = {} /\ added = <<>> /\ overlap = FALSE
        /\ \A n \in Conversations : job[n] = "none" /\ read[n].sections = {}
    BY DEF MemoryInit, Nothing
  <2>2. TakenOnce
    BY <2>1 DEF TakenOnce, LeftOnce, InOrder, CoversDone
  <2>3. InState({"queued", "asked"}) = {} /\ InState({"done"}) = {} /\ ToSet(queue) = {}
    BY <2>1 DEF InState, ToSet
  <2>4. Unsubmitted = {}
    BY <2>1, UnsubmittedIs DEF ToHand
  <2> QED
    BY <2>1, <2>2, <2>3, <2>4 DEF Inbox!Init
<1>2. MemoryInv /\ [MemoryNext]_memoryVars => MemoryInv'
  BY MemoryInductive
<1>3. MemoryInv /\ TakenOnce /\ [MemoryNext]_memoryVars => TakenOnce' /\ [Inbox!Next]_(Inbox!inboxVars)
  BY TakenKeeps, QueueRefines
<1> QED
  BY <1>1, <1>2, <1>3, PTL DEF MemorySpec, QueueIsAnInbox, Inbox!Spec

\* Whatever is added, flushed and cleared meanwhile, a conversation is queued, updated or
\* given up and its signals are with it, and the updater gets each once; and unless two
\* batches overlap, in order, and no update loses or doubles a fact (queue.py, updater.py).
THEOREM MemoryUpdatedOnce == MemorySpec => [](MemoryTypeOK /\ MemoryHolds)
<1>1. MemoryInit => MemoryInv /\ TakenOnce /\ InboxOrdered
  <2> SUFFICES ASSUME MemoryInit PROVE TakenOnce /\ InboxOrdered
    BY MemoryInitially
  <2>1. /\ DOMAIN queue = {} /\ DOMAIN batches = {} /\ sections = {}
        /\ \A n \in Conversations : job[n] = "none" /\ read[n].sections = {}
    BY DEF MemoryInit, Nothing
  <2>2. TakenOnce
    BY <2>1 DEF TakenOnce, LeftOnce, InOrder, CoversDone
  <2>3. InState({"queued", "asked"}) = {} /\ InState({"done"}) = {}
    BY <2>1 DEF InState
  <2>4. Unsubmitted = {}
    BY <2>1, UnsubmittedIs DEF ToHand
  <2> QED
    BY <2>2, <2>3, <2>4 DEF InboxOrdered
<1>2. MemoryInv /\ [MemoryNext]_memoryVars => MemoryInv'
  BY MemoryInductive
<1>3. MemoryInv /\ TakenOnce /\ InboxOrdered /\ [MemoryNext]_memoryVars => TakenOnce' /\ InboxOrdered'
  BY TakenKeeps, QueueRefines, InboxKeeps
<1>4. MemoryInv /\ TakenOnce /\ InboxOrdered => MemoryTypeOK /\ MemoryHolds
  <2> SUFFICES ASSUME MemoryInv, TakenOnce, InboxOrdered PROVE MemoryTypeOK /\ MemoryHolds
    OBVIOUS
  <2>1. \A e \in Unsubmitted \cup ToSet(queue) : job[e.conv] = "none"
    BY UnsubmittedFacts DEF MemoryInv, EachInOnePlace, ConvsIn, ToSet
  <2>2. Inbox!HandedOnce
    BY <2>1 DEF Inbox!HandedOnce, InState
  <2>3. Inbox!AsSaid
    BY DEF Inbox!AsSaid, InboxOrdered
  <2> QED
    BY <2>2, <2>3, MemoryImplied DEF MemoryHolds
<1> QED
  BY <1>1, <1>2, <1>3, <1>4, PTL DEF MemorySpec

-----------------------------------------------------------------------------
(***************************************************************************)
(* All together. A behaviour of MCBackground moves one component, so every *)
(* component follows its own specification.                                *)
(***************************************************************************)

\* Every component begins as it would alone.
LEMMA ComponentsInit == BackgroundInit =>
    /\ JournalInit /\ MemoryInit /\ SandboxInit /\ SkillsInit /\ CacheInit /\ StreamInit /\ StorageInit
BY DEF BackgroundInit

\* Whichever component moves, each takes one of its steps or none.
LEMMA ComponentsStep == [BackgroundNext]_<<part, jobVars, sharedVars>> =>
    /\ [JournalNext]_journalVars /\ [MemoryNext]_memoryVars /\ [SandboxNext]_sandboxVars
    /\ [SkillsNext]_skillVars /\ [CacheNext]_cacheVars /\ [StreamNext]_redisVars /\ [StorageNext]_storageVars
<1> DEFINE Goal == /\ [JournalNext]_journalVars /\ [MemoryNext]_memoryVars /\ [SandboxNext]_sandboxVars
                   /\ [SkillsNext]_skillVars /\ [CacheNext]_cacheVars
                   /\ [StreamNext]_redisVars /\ [StorageNext]_storageVars
<1>1. UNCHANGED jobVars => UNCHANGED journalVars /\ UNCHANGED memoryVars /\ UNCHANGED sandboxVars
  BY DEF jobVars
<1>2. UNCHANGED sharedVars =>
      /\ UNCHANGED skillVars /\ UNCHANGED cacheVars /\ UNCHANGED redisVars /\ UNCHANGED storageVars
  BY DEF sharedVars
<1>3. ProcessStep => [JournalNext]_journalVars /\ [MemoryNext]_memoryVars /\ [SandboxNext]_sandboxVars
  BY DEF ProcessStep
<1>4. SharedStep =>
      /\ [SkillsNext]_skillVars /\ [CacheNext]_cacheVars /\ [StreamNext]_redisVars /\ [StorageNext]_storageVars
  BY DEF SharedStep
<1>5. ASSUME BackgroundNext PROVE Goal
  BY <1>1, <1>2, <1>3, <1>4, <1>5 DEF BackgroundNext
<1>6. UNCHANGED <<part, jobVars, sharedVars>> => Goal
  BY <1>1, <1>2
<1> QED BY <1>5, <1>6

\* Each component does in MCBackground what its own specification says.
LEMMA ComponentsFollow ==
  BackgroundSpec => /\ JournalSpec /\ MemorySpec /\ SandboxSpec
                    /\ SkillsSpec /\ CacheSpec /\ StreamSpec /\ StorageSpec
BY ComponentsInit, ComponentsStep, PTL
   DEF BackgroundSpec, JournalSpec, MemorySpec, SandboxSpec, SkillsSpec, CacheSpec, StreamSpec, StorageSpec

\* All components are typed, whichever moves.
THEOREM BackgroundTyped == BackgroundSpec => []BackgroundTypeOK
<1>1. (/\ JournalTypeOK /\ MemoryTypeOK /\ SandboxTypeOK /\ SkillsTypeOK /\ CacheTypeOK
       /\ StreamTypeOK /\ StorageTypeOK) => BackgroundTypeOK
  BY DEF BackgroundTypeOK
<1> QED BY <1>1, ComponentsFollow, JournalTyped, MemoryUpdatedOnce, SandboxesAccounted, SkillsTyped, CacheTyped,
           NoReaderMissesWhatWasThere, PoolAndCheckpointerMadeOnce, PTL

\* The journal, the queue of memory updates and the stream over Redis do what their abstract
\* specifications promise, whichever of the components moves (runtime/journal.py,
\* agents/memory/queue.py, core/redis_stream.py).
THEOREM PromisesAreKept == BackgroundSpec => PromisesKept
BY ComponentsFollow, JournalKeepsTheLine, QueueKeepsTheInbox, RedisStreamIsOrdered, PTL DEF PromisesKept
=============================================================================

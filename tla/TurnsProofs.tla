---------------------------- MODULE TurnsProofs -----------------------------
(***************************************************************************)
(* What happens within the turns of a thread and around them: the guard    *)
(* against loops, the turns themselves, the reminders of todos, and the    *)
(* records and the files of a thread, for any number of messages, tools,   *)
(* calls, runs, titles, threads and files, and any thresholds. At the end, *)
(* the components of MCAgents, together.                                   *)
(***************************************************************************)
EXTENDS MCAgents, AgentsProofs, Lemmas

-----------------------------------------------------------------------------
(***************************************************************************)
(* The loop guard. What it remembers of a thread is compared with its      *)
(* whole era: the history is the end of it, a set of calls is warned of    *)
(* before it is in the history too often, a tool before its count is too   *)
(* large, and the counts hold all calls that passed. A new response is the *)
(* only one for which anything changes; a thread that is forgotten begins  *)
(* another era.                                                            *)
(***************************************************************************)

\* The history of t is the end of its era, all of it or a whole window.
Gone(t) == Len(era[t]) - Len(history[t])
Recent(t) ==
    /\ Gone(t) \in Nat
    /\ Gone(t) > 0 => Len(history[t]) = WindowSize
    /\ \A k \in DOMAIN history[t] : history[t][k] = Hash(era[t][Gone(t) + k].calls)

\* The responses in the window of the i-th one that call the same.
Alike(t, i) ==
    {j \in DOMAIN era[t] : j \in i - WindowSize + 1 .. i /\ Hash(era[t][j].calls) = Hash(era[t][i].calls)}

\* Whatever was not stopped was not too often within its window.
Stopped(t) == \A i \in DOMAIN era[t] : era[t][i].verdict # "stop" => Cardinality(Alike(t, i)) < StopAt

\* Whatever is in the window often enough was warned of.
HashesWarned(t) == \A h \in Hashes :
    /\ Count(history[t], h) >= WarnAt => h \in warned[t]
    /\ h \in warned[t] => \E j \in DOMAIN era[t] : era[t][j].verdict = "warn" /\ Hash(era[t][j].calls) = h

\* So was a tool that was called often enough.
ToolsWarned(t) == \A n \in Tools :
    /\ n \notin freqWarned[t] => freq[t][n] < FreqWarn[n]
    /\ n \in freqWarned[t] => \E j \in DOMAIN era[t] : era[t][j].verdict = "freq warn" /\ Count(era[t][j].calls, n) > 0

\* All calls that passed are counted.
PassesCounted(t) == \A n \in Tools :
    /\ IsFiniteSet(Passed(era[t], n))
    /\ Cardinality(Passed(era[t], n)) <= freq[t][n] /\ Cardinality(Passed(era[t], n)) < FreqStop[n]

WarnedIn(e) == \A i \in DOMAIN e :
    /\ e[i].verdict = "stop" =>
           \E j \in 1 .. i - 1 : e[j].verdict = "warn" /\ Hash(e[j].calls) = Hash(e[i].calls)
    /\ e[i].verdict = "freq stop" =>
           \E j \in 1 .. i - 1 : /\ e[j].verdict = "freq warn"
                                 /\ \E n \in Tools : Count(e[j].calls, n) > 0 /\ Count(e[i].calls, n) > 0
Warned(t) == WarnedIn(era[t])

Guarded(t) == Recent(t) /\ Stopped(t) /\ HashesWarned(t) /\ ToolsWarned(t) /\ PassesCounted(t) /\ Warned(t)

LoopInv == LoopTypeOK /\ \A t \in LoopThreads : Guarded(t)

\* A count is a number.
LEMMA CountIs == ASSUME NEW S, NEW s \in Seq(S), NEW e
                 PROVE  /\ IsFiniteSet({i \in DOMAIN s : s[i] = e}) /\ Count(s, e) \in Nat
                        /\ Count(s, e) > 0 <=> \E i \in DOMAIN s : s[i] = e
<1> DEFINE O == {i \in DOMAIN s : s[i] = e}
<1>1. Len(s) \in Nat /\ DOMAIN s = 1 .. Len(s)
  OBVIOUS
<1>2. IsFiniteSet(1 .. Len(s))
  BY <1>1, FS_Interval
<1>3. IsFiniteSet(O)
  BY <1>1, <1>2, FS_Subset
<1>4. Cardinality(O) \in Nat /\ (Cardinality(O) = 0 <=> O = {})
  BY <1>3, FS_CardinalityType, FS_EmptySet
<1>5. O # {} <=> \E i \in DOMAIN s : s[i] = e
  OBVIOUS
<1>6. Count(s, e) = Cardinality(O)
  BY DEF Count
<1> HIDE DEF O
<1>7. Count(s, e) \in Nat /\ (Count(s, e) > 0 <=> O # {})
  BY <1>4, <1>6
<1> QED
  BY <1>3, <1>5, <1>7 DEF O

\* A set of numbers that is moved keeps its size.
LEMMA Moved == ASSUME NEW A \in SUBSET Nat, NEW d \in Nat, IsFiniteSet(A)
               PROVE  /\ IsFiniteSet({a + d : a \in A})
                      /\ Cardinality({a + d : a \in A}) = Cardinality(A)
<1> DEFINE B == {a + d : a \in A}
           f == [a \in A |-> a + d]
<1>1. f \in Bijection(A, B)
  <2>1. f \in [A -> B]
    OBVIOUS
  <2>2. \A a, b \in A : f[a] = f[b] => a = b
    OBVIOUS
  <2>3. \A b \in B : \E a \in A : f[a] = b
    OBVIOUS
  <2> HIDE DEF f, B
  <2> QED
    BY <2>1, <2>2, <2>3 DEF Bijection, Injection, Surjection, IsInjective
<1> HIDE DEF f, B
<1>2. IsFiniteSet(B) /\ Cardinality(B) = Cardinality(A)
  <2>1. ExistsBijection(A, B)
    BY <1>1 DEF ExistsBijection
  <2> QED
    BY <2>1, FS_Bijection
<1> QED
  BY <1>2 DEF B

\* What the first k calls have of n.
LEMMA CountPrefix == ASSUME NEW S, NEW s \in Seq(S), NEW k \in 0 .. Len(s), NEW e
                     PROVE  Count(SubSeq(s, 1, k), e) = Cardinality({i \in 1 .. k : s[i] = e})
<1>1. Len(s) \in Nat /\ SubSeq(s, 1, k) \in Seq(S) /\ DOMAIN SubSeq(s, 1, k) = 1 .. k
      /\ \A i \in 1 .. k : SubSeq(s, 1, k)[i] = s[i]
  OBVIOUS
<1>2. {i \in DOMAIN SubSeq(s, 1, k) : SubSeq(s, 1, k)[i] = e} = {i \in 1 .. k : s[i] = e}
  BY <1>1
<1> QED
  BY <1>2 DEF Count

\* By how much the window of t slides.
Slid(t, calls) == Len(history[t]) + 1 - Len(Window(t, calls))

\* What the types say of a thread and a response.
LEMMA ThreadTyped == ASSUME LoopInv, NEW t \in LoopThreads, NEW calls \in Responses
    PROVE  /\ history[t] \in Seq(Hashes) /\ Len(history[t]) \in 0 .. WindowSize /\ Hash(calls) \in Hashes
           /\ warned[t] \in SUBSET Hashes /\ freqWarned[t] \in SUBSET Tools /\ freq[t] \in [Tools -> Nat]
           /\ era[t] \in Seq([calls : Responses, verdict : Verdicts])
           /\ Len(era[t]) \in Nat /\ DOMAIN era[t] = 1 .. Len(era[t]) /\ DOMAIN history[t] = 1 .. Len(history[t])
           /\ calls \in Seq(Tools) /\ Len(calls) \in Nat /\ DOMAIN calls = 1 .. Len(calls)
           /\ WarnAt \in Nat \ {0} /\ StopAt \in Nat /\ WindowSize \in Nat /\ WarnAt < StopAt /\ StopAt <= WindowSize
           /\ MaxTracked \in Nat \ {0} /\ MaxTracks \in Nat
<1>1. /\ history[t] \in Seq(Hashes) /\ Len(history[t]) <= WindowSize
      /\ warned[t] \in SUBSET Hashes /\ freqWarned[t] \in SUBSET Tools /\ freq[t] \in [Tools -> Nat]
      /\ era[t] \in Seq([calls : Responses, verdict : Verdicts])
  BY DEF LoopInv, LoopTypeOK
<1>2. Hash(calls) \in Hashes
  BY DEF Hashes
<1>3. calls \in Seq(Tools)
  BY LoopAssumption
<1>4. /\ WarnAt \in Nat \ {0} /\ StopAt \in Nat /\ WindowSize \in Nat /\ WarnAt < StopAt /\ StopAt <= WindowSize
      /\ MaxTracked \in Nat \ {0} /\ MaxTracks \in Nat
  BY LoopAssumption
<1>5. Len(history[t]) \in 0 .. WindowSize
  BY <1>1, <1>4
<1> QED
  BY <1>1, <1>2, <1>3, <1>4, <1>5

\* The window: the history and the response, without the oldest one if they are too many.
LEMMA WindowIs == ASSUME LoopInv, NEW t \in LoopThreads, NEW calls \in Responses
    PROVE  /\ Window(t, calls) \in Seq(Hashes) /\ Len(Window(t, calls)) \in 1 .. WindowSize
           /\ Slid(t, calls) \in {0, 1} /\ (Slid(t, calls) = 1 => Len(Window(t, calls)) = WindowSize)
           /\ \A k \in 1 .. Len(Window(t, calls)) :
                 Window(t, calls)[k] = IF k + Slid(t, calls) = Len(history[t]) + 1 THEN Hash(calls)
                                       ELSE history[t][k + Slid(t, calls)]
<1> DEFINE H == history[t]
           h == Hash(calls)
           A == Append(H, h)
<1>1. H \in Seq(Hashes) /\ Len(H) \in 0 .. WindowSize /\ h \in Hashes /\ WindowSize \in Nat /\ WindowSize > 0
  BY ThreadTyped
<1>2. Window(t, calls) = LastOf(A, WindowSize)
  BY DEF Window
<1> HIDE DEF H, h
<1>3. A \in Seq(Hashes) /\ Len(A) = Len(H) + 1 /\ Len(H) \in Nat
      /\ \A i \in 1 .. Len(H) + 1 : A[i] = IF i = Len(H) + 1 THEN h ELSE H[i]
  BY <1>1
<1> HIDE DEF A
<1>4. CASE Len(A) > WindowSize
  <2>1. Len(H) = WindowSize /\ Window(t, calls) = SubSeq(A, 2, WindowSize + 1)
    <3>1. Len(H) = WindowSize /\ Len(A) = WindowSize + 1 /\ Len(A) - WindowSize + 1 = 2
      BY <1>1, <1>3, <1>4
    <3>2. Window(t, calls) = SubSeq(A, Len(A) - WindowSize + 1, Len(A))
      BY <1>2, <1>4 DEF LastOf
    <3> QED
      BY <3>1, <3>2
  <2>2. SubSeq(A, 2, WindowSize + 1) \in Seq(Hashes) /\ Len(SubSeq(A, 2, WindowSize + 1)) = WindowSize
        /\ \A k \in 1 .. WindowSize : SubSeq(A, 2, WindowSize + 1)[k] = A[k + 1]
    BY <1>1, <1>3, <2>1
  <2>3. Slid(t, calls) = 1
    BY <1>1, <2>1, <2>2 DEF Slid, H
  <2> QED
    BY <1>1, <1>3, <2>1, <2>2, <2>3 DEF H, h
<1>5. CASE ~(Len(A) > WindowSize)
  <2>1. Window(t, calls) = A
    BY <1>2, <1>5 DEF LastOf
  <2>2. Slid(t, calls) = 0
    BY <1>3, <2>1 DEF Slid, H
  <2> QED
    BY <1>1, <1>3, <1>5, <2>1, <2>2 DEF H, h
<1> QED
  BY <1>4, <1>5

\* A response adds one to its own count at most, and nothing to another.
LEMMA CountGrows == ASSUME LoopInv, NEW t \in LoopThreads, NEW calls \in Responses, NEW e \in Hashes
    PROVE  /\ Count(Window(t, calls), e) <= Count(history[t], e) + 1
           /\ e # Hash(calls) => Count(Window(t, calls), e) <= Count(history[t], e)
           /\ Count(Window(t, calls), e) \in Nat /\ Count(history[t], e) \in Nat
<1> DEFINE H == history[t]
           W == Window(t, calls)
           c == Slid(t, calls)
           D == {k \in DOMAIN W : W[k] = e}
           O == {i \in DOMAIN H : H[i] = e}
           M == {k + c : k \in D}
           last == Len(H) + 1
<1>1. H \in Seq(Hashes) /\ Len(H) \in Nat /\ DOMAIN H = 1 .. Len(H)
  BY ThreadTyped
<1>2. W \in Seq(Hashes) /\ Len(W) \in Nat /\ DOMAIN W = 1 .. Len(W) /\ c \in Nat /\ c = last - Len(W)
      /\ \A k \in 1 .. Len(W) : W[k] = IF k + c = last THEN Hash(calls) ELSE H[k + c]
  BY WindowIs, <1>1 DEF Slid
<1> HIDE DEF H, W, c
<1>3. IsFiniteSet(D) /\ Cardinality(D) \in Nat /\ IsFiniteSet(O) /\ Cardinality(O) \in Nat
      /\ Count(W, e) = Cardinality(D) /\ Count(H, e) = Cardinality(O)
  <2>1. Count(W, e) = Cardinality(D) /\ Count(H, e) = Cardinality(O)
    BY DEF Count
  <2>2. IsFiniteSet(D) /\ Count(W, e) \in Nat
    <3>1. W \in Seq(Hashes)
      BY <1>2
    <3> QED
      BY <3>1, CountIs
  <2>3. IsFiniteSet(O) /\ Count(H, e) \in Nat
    BY <1>1, CountIs
  <2> QED
    BY <2>1, <2>2, <2>3
<1>4. IsFiniteSet(M) /\ Cardinality(M) = Cardinality(D)
  <2>1. D \in SUBSET Nat
    BY <1>2
  <2> HIDE DEF D
  <2> QED
    BY <1>2, <1>3, <2>1, Moved
<1>5. M \subseteq O \cup {last} /\ (e # Hash(calls) => M \subseteq O)
  <2>1. ASSUME NEW k \in D PROVE k + c \in O \/ (k + c = last /\ e = Hash(calls))
    <3>1. k \in 1 .. Len(W) /\ W[k] = e /\ k + c \in 1 .. last
      BY <1>1, <1>2
    <3> QED
      BY <1>1, <1>2, <3>1
  <2> HIDE DEF D, O, last
  <2>2. M = {k + c : k \in D}
    OBVIOUS
  <2> HIDE DEF M
  <2>3. M \subseteq O \cup {last}
    BY <2>1, <2>2
  <2>4. e # Hash(calls) => M \subseteq O
    BY <2>1, <2>2
  <2> QED
    BY <2>3, <2>4
<1> HIDE DEF D, O, M, last
<1>6. IsFiniteSet(O \cup {last}) /\ Cardinality(O \cup {last}) <= Cardinality(O) + 1
  <2>1. IsFiniteSet(O \cup {last}) /\ Cardinality(O \cup {last}) \in {Cardinality(O), Cardinality(O) + 1}
    BY <1>3, FS_AddElement
  <2> QED
    BY <1>3, <2>1
<1>7. Cardinality(M) <= Cardinality(O \cup {last}) /\ Cardinality(O \cup {last}) \in Nat
  BY <1>5, <1>6, FS_Subset, FS_CardinalityType
<1>8. e # Hash(calls) => Cardinality(M) <= Cardinality(O)
  BY <1>3, <1>5, FS_Subset
<1>9. Count(W, e) <= Count(H, e) + 1 /\ (e # Hash(calls) => Count(W, e) <= Count(H, e))
      /\ Count(W, e) \in Nat /\ Count(H, e) \in Nat
  BY <1>3, <1>4, <1>6, <1>7, <1>8
<1> QED
  BY <1>9 DEF H, W

\* Which verdict there is, by the two layers.
LEMMA Verdicted == ASSUME LoopInv, NEW t \in LoopThreads, NEW calls \in Responses
    PROVE  /\ Verdict(t, calls) \in Verdicts
           /\ Verdict(t, calls) = "stop" <=> Count(Window(t, calls), Hash(calls)) >= StopAt
           /\ Verdict(t, calls) = "warn" => Count(Window(t, calls), Hash(calls)) < StopAt
           /\ Count(Window(t, calls), Hash(calls)) \in WarnAt .. StopAt - 1 /\ Hash(calls) \notin warned[t]
                 => Verdict(t, calls) = "warn"
           /\ Verdict(t, calls) \in {"pass", "freq warn", "freq stop"} =>
                 HashVerdict(t, calls) = "pass" /\ Verdict(t, calls) = FreqVerdict(t, calls)
           /\ FreqVerdict(t, calls) \in {"pass", "freq warn", "freq stop"}
           /\ HashVerdict(t, calls) \in {"pass", "warn", "stop"}
<1> DEFINE count == Count(Window(t, calls), Hash(calls))
<1>1. count \in Nat /\ StopAt \in Nat /\ WarnAt \in Nat /\ WarnAt < StopAt
  BY ThreadTyped, CountGrows
<1>2. HashVerdict(t, calls) = IF count >= StopAt THEN "stop"
                              ELSE IF count >= WarnAt /\ Hash(calls) \notin warned[t] THEN "warn" ELSE "pass"
  BY DEF HashVerdict
<1>3. FreqVerdict(t, calls) \in {"pass", "freq warn", "freq stop"}
  BY DEF FreqVerdict
<1>4. Verdict(t, calls) = IF HashVerdict(t, calls) = "pass" THEN FreqVerdict(t, calls) ELSE HashVerdict(t, calls)
  BY DEF Verdict
<1> HIDE DEF count
<1>5. /\ HashVerdict(t, calls) \in {"pass", "warn", "stop"}
      /\ HashVerdict(t, calls) = "stop" <=> count >= StopAt
      /\ HashVerdict(t, calls) = "warn" => count < StopAt
      /\ count \in WarnAt .. StopAt - 1 /\ Hash(calls) \notin warned[t] => HashVerdict(t, calls) = "warn"
  BY <1>1, <1>2
<1>6. /\ Verdict(t, calls) = "stop" <=> HashVerdict(t, calls) = "stop"
      /\ Verdict(t, calls) = "warn" <=> HashVerdict(t, calls) = "warn"
      /\ Verdict(t, calls) \in Verdicts
      /\ Verdict(t, calls) \in {"pass", "freq warn", "freq stop"} =>
            HashVerdict(t, calls) = "pass" /\ Verdict(t, calls) = FreqVerdict(t, calls)
  BY <1>3, <1>4, <1>5 DEF Verdicts
<1> QED
  BY <1>3, <1>5, <1>6 DEF count

\* Counting k calls: the counts are numbers, they grow, and one call adds one to its tool.
LEMMA CountedIs == ASSUME LoopInv, NEW t \in LoopThreads, NEW calls \in Responses, NEW k \in 0 .. Len(calls)
    PROVE  /\ Counted(t, calls, k) \in [Tools -> Nat]
           /\ \A n \in Tools :
                 /\ Counted(t, calls, k)[n] = freq[t][n] + Cardinality({i \in 1 .. k : calls[i] = n})
                 /\ Cardinality({i \in 1 .. k : calls[i] = n}) \in Nat
                 /\ freq[t][n] <= Counted(t, calls, k)[n]
<1>1. calls \in Seq(Tools) /\ freq[t] \in [Tools -> Nat] /\ Len(calls) \in Nat
  BY ThreadTyped
<1>2. ASSUME NEW n \in Tools
      PROVE  /\ Count(SubSeq(calls, 1, k), n) = Cardinality({i \in 1 .. k : calls[i] = n})
             /\ Cardinality({i \in 1 .. k : calls[i] = n}) \in Nat
  <2>1. Count(SubSeq(calls, 1, k), n) = Cardinality({i \in 1 .. k : calls[i] = n})
    BY <1>1, CountPrefix
  <2>2. SubSeq(calls, 1, k) \in Seq(Tools)
    BY <1>1
  <2>3. Count(SubSeq(calls, 1, k), n) \in Nat
    BY <2>2, CountIs
  <2> QED
    BY <2>1, <2>3
<1>3. \A n \in Tools : Counted(t, calls, k)[n] = freq[t][n] + Cardinality({i \in 1 .. k : calls[i] = n})
  BY <1>2 DEF Counted
<1>4. Counted(t, calls, k) = [n \in Tools |-> Counted(t, calls, k)[n]]
  BY DEF Counted
<1>5. \A n \in Tools : Counted(t, calls, k)[n] \in Nat /\ freq[t][n] <= Counted(t, calls, k)[n]
  <2>1. ASSUME NEW n \in Tools PROVE Counted(t, calls, k)[n] \in Nat /\ freq[t][n] <= Counted(t, calls, k)[n]
    <3> DEFINE m == Cardinality({i \in 1 .. k : calls[i] = n})
    <3>1. m \in Nat /\ Counted(t, calls, k)[n] = freq[t][n] + m /\ freq[t][n] \in Nat
      BY <1>1, <1>2, <1>3
    <3> HIDE DEF m
    <3> QED
      BY <3>1
  <2> QED
    BY <2>1
<1>6. Counted(t, calls, k) \in [Tools -> Nat]
  BY <1>4, <1>5
<1> QED
  BY <1>2, <1>3, <1>5, <1>6

\* While no call trips, no tool has been called too often: look at its last call.
LEMMA Untripped == ASSUME LoopInv, NEW t \in LoopThreads, NEW calls \in Responses, NEW k \in 0 .. Len(calls),
                          \A j \in 1 .. k : ~Trips(t, calls, j), NEW n \in Tools
    PROVE  /\ n \notin freqWarned[t] => Counted(t, calls, k)[n] < FreqWarn[n]
           /\ (\E i \in 1 .. k : calls[i] = n) => Counted(t, calls, k)[n] < FreqStop[n]
<1> DEFINE O == {i \in 1 .. k : calls[i] = n}
<1>1. k \in Nat /\ Len(calls) \in Nat /\ freq[t] \in [Tools -> Nat] /\ FreqWarn[n] \in Nat /\ FreqStop[n] \in Nat
      /\ FreqWarn[n] < FreqStop[n]
  <2>1. k \in Nat /\ Len(calls) \in Nat /\ freq[t] \in [Tools -> Nat]
    BY ThreadTyped
  <2>2. FreqWarn[n] \in Nat /\ FreqStop[n] \in Nat /\ FreqWarn[n] < FreqStop[n]
    BY LoopAssumption
  <2> QED
    BY <2>1, <2>2
<1>2. CASE O = {}
  <2>1. Cardinality(O) = 0
    BY <1>2, FS_EmptySet
  <2>2. Counted(t, calls, k)[n] = freq[t][n] + Cardinality(O)
    BY CountedIs
  <2>3. freq[t][n] \in Nat
    BY <1>1
  <2> HIDE DEF O
  <2>4. Counted(t, calls, k)[n] = freq[t][n]
    BY <2>1, <2>2, <2>3
  <2>5. n \notin freqWarned[t] => freq[t][n] < FreqWarn[n]
    BY DEF LoopInv, Guarded, ToolsWarned
  <2> QED
    BY <1>2, <2>4, <2>5 DEF O
<1>3. CASE O # {}
  <2> DEFINE B == {k - i : i \in O}
  <2>1. B \in SUBSET Nat /\ B # {}
    BY <1>1, <1>3
  <2>2. PICK b \in B : \A c \in B : b <= c
    <3> HIDE DEF B
    <3> QED
      BY <2>1, Least
  <2>3. PICK j \in O : b = k - j
    OBVIOUS
  <2>4. j \in 1 .. k /\ j \in 1 .. Len(calls) /\ calls[j] = n /\ \A i \in O : i <= j
    <3>1. j \in 1 .. k /\ calls[j] = n
      OBVIOUS
    <3>2. ASSUME NEW i \in O PROVE i <= j
      <4>1. k - j <= k - i
        BY <2>2, <2>3
      <4> QED
        BY <1>1, <4>1
    <3> QED
      BY <1>1, <3>1, <3>2
  <2>5. {i \in 1 .. j : calls[i] = n} = O
    BY <1>1, <2>4
  <2>6. Counted(t, calls, j)[n] = freq[t][n] + Cardinality({i \in 1 .. j : calls[i] = n})
    <3>1. j \in 0 .. Len(calls)
      BY <1>1, <2>4
    <3> QED
      BY <3>1, CountedIs
  <2>7. Counted(t, calls, k)[n] = freq[t][n] + Cardinality(O)
    BY CountedIs
  <2>8. Counted(t, calls, j)[n] = Counted(t, calls, k)[n] /\ Counted(t, calls, k)[n] \in Nat
    <3>1. Counted(t, calls, k)[n] \in Nat
      BY CountedIs
    <3> QED
      BY <2>5, <2>6, <2>7, <3>1
  <2>9. ~Trips(t, calls, j)
    BY <2>4
  <2>10. ~(Counted(t, calls, j)[n] >= FreqStop[n])
         /\ ~(Counted(t, calls, j)[n] >= FreqWarn[n] /\ n \notin freqWarned[t])
    BY <2>4, <2>9 DEF Trips
  <2> QED
    BY <1>1, <2>8, <2>10
<1> QED
  BY <1>2, <1>3

\* The calls that a response adds to what is counted.
Total(t, calls) ==
    IF HashVerdict(t, calls) # "pass" THEN freq[t]
    ELSE Counted(t, calls, IF Tripping(t, calls) = {} THEN Len(calls) ELSE LeastOf(Tripping(t, calls)))

\* The tool that is warned of.
ToldOf(t, calls) == IF Verdict(t, calls) = "freq warn" THEN {calls[LeastOf(Tripping(t, calls))]} ELSE {}

\* The call that trips first.
LEMMA FirstTrip == ASSUME LoopInv, NEW t \in LoopThreads, NEW calls \in Responses, Tripping(t, calls) # {}
    PROVE  /\ LeastOf(Tripping(t, calls)) \in DOMAIN calls /\ Trips(t, calls, LeastOf(Tripping(t, calls)))
           /\ \A j \in DOMAIN calls : j < LeastOf(Tripping(t, calls)) => ~Trips(t, calls, j)
<1> DEFINE T == Tripping(t, calls)
<1>1. T \in SUBSET Nat
  BY ThreadTyped DEF Tripping
<1>2. \E k \in T : \A j \in T : k <= j
  <2> HIDE DEF T
  <2> QED
    BY <1>1, Least DEF T
<1>3. LeastOf(T) \in T /\ \A j \in T : LeastOf(T) <= j
  BY <1>2 DEF LeastOf
<1>4. LeastOf(T) \in DOMAIN calls /\ Trips(t, calls, LeastOf(T))
  BY <1>3 DEF Tripping
<1>5. ASSUME NEW j \in DOMAIN calls, j < LeastOf(T) PROVE ~Trips(t, calls, j)
  <2>1. j \in Nat /\ LeastOf(T) \in Nat
    BY <1>4, ThreadTyped
  <2>2. j \notin T
    BY <1>3, <1>5, <2>1
  <2> QED
    BY <2>2 DEF Tripping
<1> QED
  BY <1>4, <1>5

\* The frequencies after a response: tools that were not warned of are below their limit,
\* and all tools of a response that passes are below theirs.
LEMMA Frequencies == ASSUME LoopInv, NEW t \in LoopThreads, NEW calls \in Responses
    PROVE  /\ Total(t, calls) \in [Tools -> Nat]
           /\ \A n \in Tools : freq[t][n] <= Total(t, calls)[n]
           /\ \A n \in Tools : n \notin freqWarned[t] \cup ToldOf(t, calls) => Total(t, calls)[n] < FreqWarn[n]
           /\ \A n \in ToldOf(t, calls) : n \in Tools /\ Count(calls, n) > 0
           /\ Verdict(t, calls) = "freq stop" => \E n \in freqWarned[t] : Count(calls, n) > 0
           /\ Verdict(t, calls) = "pass" => \A n \in Tools :
                 /\ Total(t, calls)[n] = freq[t][n] + Count(calls, n)
                 /\ Count(calls, n) > 0 => Total(t, calls)[n] < FreqStop[n]
<1>1. /\ calls \in Seq(Tools) /\ Len(calls) \in Nat /\ DOMAIN calls = 1 .. Len(calls)
      /\ freq[t] \in [Tools -> Nat] /\ freqWarned[t] \subseteq Tools
  BY ThreadTyped
<1>2. \A n \in Tools : FreqWarn[n] \in Nat /\ FreqStop[n] \in Nat /\ FreqWarn[n] < FreqStop[n]
  BY LoopAssumption
<1>3. \A n \in Tools : n \notin freqWarned[t] => freq[t][n] < FreqWarn[n]
  BY DEF LoopInv, Guarded, ToolsWarned
<1>4. /\ Verdict(t, calls) \in Verdicts
      /\ Verdict(t, calls) \in {"pass", "freq warn", "freq stop"} =>
            HashVerdict(t, calls) = "pass" /\ Verdict(t, calls) = FreqVerdict(t, calls)
  BY Verdicted
<1>5. CASE HashVerdict(t, calls) # "pass"
  <2>1. Total(t, calls) = freq[t]
    BY <1>5 DEF Total
  <2>2. Verdict(t, calls) \notin {"pass", "freq warn", "freq stop"}
    BY <1>4, <1>5
  <2>3. ToldOf(t, calls) = {}
    BY <2>2 DEF ToldOf
  <2>4. \A n \in Tools : freq[t][n] <= freq[t][n]
    BY <1>1
  <2> QED
    BY <1>1, <1>3, <2>1, <2>2, <2>3, <2>4
<1>6. CASE HashVerdict(t, calls) = "pass" /\ Tripping(t, calls) = {}
  <2>1. Total(t, calls) = Counted(t, calls, Len(calls))
    BY <1>6 DEF Total
  <2>2. Verdict(t, calls) = "pass"
    BY <1>6 DEF Verdict, FreqVerdict
  <2>3. ToldOf(t, calls) = {}
    BY <2>2 DEF ToldOf
  <2>4. Len(calls) \in 0 .. Len(calls) /\ \A j \in 1 .. Len(calls) : ~Trips(t, calls, j)
    BY <1>1, <1>6 DEF Tripping
  <2>5. \A n \in Tools :
            /\ n \notin freqWarned[t] => Counted(t, calls, Len(calls))[n] < FreqWarn[n]
            /\ (\E i \in 1 .. Len(calls) : calls[i] = n) => Counted(t, calls, Len(calls))[n] < FreqStop[n]
    BY <2>4, Untripped
  <2>6. /\ Counted(t, calls, Len(calls)) \in [Tools -> Nat]
        /\ \A n \in Tools :
              /\ Counted(t, calls, Len(calls))[n] = freq[t][n] + Cardinality({i \in 1 .. Len(calls) : calls[i] = n})
              /\ freq[t][n] <= Counted(t, calls, Len(calls))[n]
    BY <2>4, CountedIs
  <2>7. \A n \in Tools : Count(calls, n) = Cardinality({i \in 1 .. Len(calls) : calls[i] = n})
    BY <1>1 DEF Count
  <2>8. \A n \in Tools : Count(calls, n) > 0 <=> \E i \in 1 .. Len(calls) : calls[i] = n
    BY <1>1, CountIs
  <2> QED
    BY <2>1, <2>2, <2>3, <2>5, <2>6, <2>7, <2>8
<1>7. CASE HashVerdict(t, calls) = "pass" /\ Tripping(t, calls) # {}
  <2> DEFINE k == LeastOf(Tripping(t, calls))
             n == calls[k]
  <2>1. k \in DOMAIN calls /\ Trips(t, calls, k) /\ \A j \in DOMAIN calls : j < k => ~Trips(t, calls, j)
    BY <1>7, FirstTrip
  <2>2. Total(t, calls) = Counted(t, calls, k)
    BY <1>7 DEF Total
  <2>3. Verdict(t, calls) = IF Counted(t, calls, k)[n] >= FreqStop[n] THEN "freq stop" ELSE "freq warn"
    BY <1>7 DEF Verdict, FreqVerdict
  <2>4. ToldOf(t, calls) = IF Verdict(t, calls) = "freq warn" THEN {n} ELSE {}
    BY DEF ToldOf
  <2>d. Counted(t, calls, k)[n] >= FreqStop[n] \/ (Counted(t, calls, k)[n] >= FreqWarn[n] /\ n \notin freqWarned[t])
    BY <2>1 DEF Trips
  <2> HIDE DEF k
  <2>5. k \in 1 .. Len(calls) /\ k \in 0 .. Len(calls) /\ k - 1 \in 0 .. Len(calls) /\ n \in Tools
        /\ \A j \in 1 .. k - 1 : ~Trips(t, calls, j)
    BY <1>1, <2>1
  <2>6. /\ Counted(t, calls, k) \in [Tools -> Nat]
        /\ \A m \in Tools :
              /\ Counted(t, calls, k)[m] = freq[t][m] + Cardinality({i \in 1 .. k : calls[i] = m})
              /\ freq[t][m] <= Counted(t, calls, k)[m]
    BY <2>5, CountedIs
  <2>7. \A m \in Tools :
            /\ m \notin freqWarned[t] => Counted(t, calls, k - 1)[m] < FreqWarn[m]
            /\ Counted(t, calls, k - 1)[m] = freq[t][m] + Cardinality({i \in 1 .. k - 1 : calls[i] = m})
            /\ Cardinality({i \in 1 .. k - 1 : calls[i] = m}) \in Nat
    <3>1. \A m \in Tools : m \notin freqWarned[t] => Counted(t, calls, k - 1)[m] < FreqWarn[m]
      BY <2>5, Untripped
    <3>2. \A m \in Tools :
              /\ Counted(t, calls, k - 1)[m] = freq[t][m] + Cardinality({i \in 1 .. k - 1 : calls[i] = m})
              /\ Cardinality({i \in 1 .. k - 1 : calls[i] = m}) \in Nat
      BY ZenonT(30), <2>5, CountedIs
    <3> QED
      BY <3>1, <3>2
  <2>8. ASSUME NEW m \in Tools, m # n PROVE Counted(t, calls, k)[m] = Counted(t, calls, k - 1)[m]
    <3>1. {i \in 1 .. k : calls[i] = m} = {i \in 1 .. k - 1 : calls[i] = m}
      BY <1>1, <2>5, <2>8
    <3> QED
      BY <2>6, <2>7, <3>1
  <2>9. n \notin freqWarned[t] => Counted(t, calls, k)[n] < FreqStop[n]
    <3> DEFINE O == {i \in 1 .. k - 1 : calls[i] = n}
    <3>1. {i \in 1 .. k : calls[i] = n} = O \cup {k} /\ k \notin O
      BY <1>1, <2>5
    <3>2. IsFiniteSet(O)
      <4>1. k - 1 \in Int /\ 1 \in Int
        BY <2>5
      <4>2. IsFiniteSet(1 .. k - 1)
        BY <4>1, FS_Interval
      <4> QED
        BY <4>2, FS_Subset
    <3>3. Counted(t, calls, k)[n] = freq[t][n] + Cardinality(O \cup {k})
      BY <2>5, <2>6, <3>1
    <3>4. Counted(t, calls, k - 1)[n] = freq[t][n] + Cardinality(O) /\ Cardinality(O) \in Nat
          /\ (n \notin freqWarned[t] => Counted(t, calls, k - 1)[n] < FreqWarn[n])
      BY <2>5, <2>7
    <3> HIDE DEF O
    <3>5. Cardinality(O \cup {k}) = Cardinality(O) + 1
      BY <3>1, <3>2, FS_AddElement
    <3>6. freq[t][n] \in Nat /\ FreqWarn[n] \in Nat /\ FreqStop[n] \in Nat /\ FreqWarn[n] < FreqStop[n]
      BY <1>1, <1>2, <2>5
    <3> QED
      BY <3>3, <3>4, <3>5, <3>6
  <2>10. Count(calls, n) > 0
    BY <1>1, <2>5, CountIs
  <2>11. Counted(t, calls, k)[n] \in Nat /\ FreqStop[n] \in Nat
    BY <1>2, <2>5, <2>6
  <2>12. Verdict(t, calls) = "freq stop" => n \in freqWarned[t]
    <3>1. Counted(t, calls, k)[n] >= FreqStop[n] => ~(Counted(t, calls, k)[n] < FreqStop[n])
      BY <2>11
    <3> QED
      BY <2>3, <2>9, <3>1
  <2>13. Verdict(t, calls) # "freq warn" => Verdict(t, calls) = "freq stop"
    BY <2>3
  <2> HIDE DEF n
  <2>14. ASSUME NEW m \in Tools, m \notin freqWarned[t] \cup ToldOf(t, calls) PROVE Counted(t, calls, k)[m] < FreqWarn[m]
    <3>1. m # n
      BY <2>4, <2>12, <2>13, <2>14
    <3> QED
      BY <2>7, <2>8, <2>14, <3>1
  <2>15. \A m \in ToldOf(t, calls) : m \in Tools /\ Count(calls, m) > 0
    BY <2>4, <2>5, <2>10
  <2>16. Verdict(t, calls) # "pass"
    BY <2>3
  <2> QED
    BY <2>2, <2>6, <2>10, <2>12, <2>14, <2>15, <2>16
<1> QED
  BY <1>5, <1>6, <1>7

\* What Track makes of its own thread, which is not the one that it evicts.
LEMMA TrackIs == ASSUME LoopInv, NEW t \in LoopThreads, NEW calls \in Responses, Track(t, calls)
    PROVE  /\ history'[t] = Window(t, calls) /\ freq'[t] = Total(t, calls)
           /\ freqWarned'[t] = freqWarned[t] \cup ToldOf(t, calls)
           /\ warned'[t] = warned[t] \cup IF Verdict(t, calls) = "warn" THEN {Hash(calls)} ELSE {}
           /\ era'[t] = Append(era[t], [calls |-> calls, verdict |-> Verdict(t, calls)])
           /\ \A u \in LoopThreads \ {t} :
                 \/ /\ history'[u] = history[u] /\ warned'[u] = warned[u] /\ freq'[u] = freq[u]
                    /\ freqWarned'[u] = freqWarned[u] /\ era'[u] = era[u]
                 \/ /\ history'[u] = <<>> /\ warned'[u] = {} /\ freq'[u] = NoCalls
                    /\ freqWarned'[u] = {} /\ era'[u] = <<>>
           /\ history' \in [LoopThreads -> Seq(Hashes)] /\ warned' \in [LoopThreads -> SUBSET Hashes]
           /\ freq' \in [LoopThreads -> [Tools -> Nat]] /\ freqWarned' \in [LoopThreads -> SUBSET Tools]
           /\ era' \in [LoopThreads -> Seq([calls : Responses, verdict : Verdicts])]
<1> DEFINE out == Evicted(t)
           H == Forgotten(out, history, <<>>)
           W == Forgotten(out, warned, {})
           F == Forgotten(out, freq, NoCalls)
           N == Forgotten(out, freqWarned, {})
           E == Forgotten(out, era, <<>>)
<1>1. /\ history \in [LoopThreads -> Seq(Hashes)] /\ warned \in [LoopThreads -> SUBSET Hashes]
      /\ freq \in [LoopThreads -> [Tools -> Nat]] /\ freqWarned \in [LoopThreads -> SUBSET Tools]
      /\ era \in [LoopThreads -> Seq([calls : Responses, verdict : Verdicts])]
  BY DEF LoopInv, LoopTypeOK
<1>2. t \notin Evicted(t)
  <2>1. used \in Seq(LoopThreads) /\ MaxTracked \in Nat \ {0}
    BY ThreadTyped DEF LoopInv, LoopTypeOK
  <2>2. Len(used) = MaxTracked => 1 \in DOMAIN used
    BY <2>1
  <2> QED
    BY <2>2 DEF Evicted
<1>3. /\ H \in [LoopThreads -> Seq(Hashes)] /\ W \in [LoopThreads -> SUBSET Hashes]
      /\ F \in [LoopThreads -> [Tools -> Nat]] /\ N \in [LoopThreads -> SUBSET Tools]
      /\ E \in [LoopThreads -> Seq([calls : Responses, verdict : Verdicts])]
  <2>1. <<>> \in Seq(Hashes) /\ <<>> \in Seq([calls : Responses, verdict : Verdicts]) /\ NoCalls \in [Tools -> Nat]
    BY DEF NoCalls
  <2>2. H \in [LoopThreads -> Seq(Hashes)]
    BY <1>1, <2>1 DEF Forgotten
  <2>3. W \in [LoopThreads -> SUBSET Hashes] /\ N \in [LoopThreads -> SUBSET Tools]
    BY <1>1 DEF Forgotten
  <2>4. F \in [LoopThreads -> [Tools -> Nat]]
    BY <1>1, <2>1 DEF Forgotten
  <2>5. E \in [LoopThreads -> Seq([calls : Responses, verdict : Verdicts])]
    BY <1>1, <2>1 DEF Forgotten
  <2> QED
    BY <2>2, <2>3, <2>4, <2>5
<1>4. /\ H[t] = history[t] /\ W[t] = warned[t] /\ F[t] = freq[t] /\ N[t] = freqWarned[t] /\ E[t] = era[t]
  BY <1>2 DEF Forgotten
<1>5. \A u \in LoopThreads :
         \/ H[u] = history[u] /\ W[u] = warned[u] /\ F[u] = freq[u] /\ N[u] = freqWarned[u] /\ E[u] = era[u]
         \/ H[u] = <<>> /\ W[u] = {} /\ F[u] = NoCalls /\ N[u] = {} /\ E[u] = <<>>
  BY DEF Forgotten
<1>6. /\ Window(t, calls) \in Seq(Hashes) /\ Hash(calls) \in Hashes /\ Total(t, calls) \in [Tools -> Nat]
      /\ ToldOf(t, calls) \subseteq Tools /\ Verdict(t, calls) \in Verdicts
  <2>1. Window(t, calls) \in Seq(Hashes)
    BY WindowIs
  <2>2. Hash(calls) \in Hashes
    BY ThreadTyped
  <2>3. Total(t, calls) \in [Tools -> Nat] /\ ToldOf(t, calls) \subseteq Tools
    BY Frequencies
  <2> QED
    BY <2>1, <2>2, <2>3, Verdicted
<1> DEFINE w == IF Verdict(t, calls) = "warn" THEN {Hash(calls)} ELSE {}
           e == [calls |-> calls, verdict |-> Verdict(t, calls)]
<1>7. /\ history' = [H EXCEPT ![t] = Window(t, calls)]
      /\ freq' = [F EXCEPT ![t] = Total(t, calls)]
      /\ era' = [E EXCEPT ![t] = Append(E[t], e)]
  BY DEF Track, Total
<1>8. warned' = [W EXCEPT ![t] = W[t] \cup w]
  <2>1. {Hash(calls) : v \in {Verdict(t, calls)} \cap {"warn"}} = w
    OBVIOUS
  <2>2. warned' = [W EXCEPT ![t] = W[t] \cup {Hash(calls) : v \in {Verdict(t, calls)} \cap {"warn"}}]
    BY DEF Track, WarningsWithout
  <2> QED
    BY <2>1, <2>2
<1>9. freqWarned' = [N EXCEPT ![t] = N[t] \cup ToldOf(t, calls)]
  BY DEF Track, ToldOf
<1>10. w \in SUBSET Hashes /\ e \in [calls : Responses, verdict : Verdicts]
  BY <1>6
<1> HIDE DEF H, W, F, N, E, w, e
<1>11. Append(E[t], e) \in Seq([calls : Responses, verdict : Verdicts])
  <2>1. E[t] \in Seq([calls : Responses, verdict : Verdicts])
    BY <1>3
  <2> QED
    BY <1>10, <2>1, AppendProperties
<1>12. history' \in [LoopThreads -> Seq(Hashes)] /\ history'[t] = Window(t, calls)
       /\ \A u \in LoopThreads \ {t} : history'[u] = H[u]
  BY <1>3, <1>6, <1>7
<1>13. warned' \in [LoopThreads -> SUBSET Hashes] /\ warned'[t] = warned[t] \cup w
       /\ \A u \in LoopThreads \ {t} : warned'[u] = W[u]
  BY <1>3, <1>4, <1>8, <1>10
<1>14. freq' \in [LoopThreads -> [Tools -> Nat]] /\ freq'[t] = Total(t, calls)
       /\ \A u \in LoopThreads \ {t} : freq'[u] = F[u]
  BY <1>3, <1>6, <1>7
<1>15. freqWarned' \in [LoopThreads -> SUBSET Tools] /\ freqWarned'[t] = freqWarned[t] \cup ToldOf(t, calls)
       /\ \A u \in LoopThreads \ {t} : freqWarned'[u] = N[u]
  BY <1>3, <1>4, <1>6, <1>9
<1>16. era' \in [LoopThreads -> Seq([calls : Responses, verdict : Verdicts])] /\ era'[t] = Append(era[t], e)
       /\ \A u \in LoopThreads \ {t} : era'[u] = E[u]
  BY <1>3, <1>4, <1>7, <1>11
<1>17. ASSUME NEW u \in LoopThreads \ {t}
       PROVE  \/ /\ history'[u] = history[u] /\ warned'[u] = warned[u] /\ freq'[u] = freq[u]
                 /\ freqWarned'[u] = freqWarned[u] /\ era'[u] = era[u]
              \/ /\ history'[u] = <<>> /\ warned'[u] = {} /\ freq'[u] = NoCalls
                 /\ freqWarned'[u] = {} /\ era'[u] = <<>>
  BY ZenonT(30), <1>5, <1>12, <1>13, <1>14, <1>15, <1>16
<1> QED
  BY <1>12, <1>13, <1>14, <1>15, <1>16, <1>17 DEF w, e

\* One entry more in the era.
LEMMA EraGrows == ASSUME LoopInv, NEW t \in LoopThreads, NEW calls \in Responses, Track(t, calls)
    PROVE  /\ Len(era'[t]) = Len(era[t]) + 1 /\ DOMAIN era'[t] = 1 .. Len(era[t]) + 1
           /\ \A i \in DOMAIN era[t] : i \in DOMAIN era'[t] /\ era'[t][i] = era[t][i]
           /\ \A i \in DOMAIN era'[t] : i \in DOMAIN era[t] \/ i = Len(era[t]) + 1
           /\ Len(era[t]) + 1 \in DOMAIN era'[t] /\ Len(era[t]) + 1 \notin DOMAIN era[t]
           /\ era'[t][Len(era[t]) + 1].calls = calls /\ era'[t][Len(era[t]) + 1].verdict = Verdict(t, calls)
<1> DEFINE e == [calls |-> calls, verdict |-> Verdict(t, calls)]
<1>1. era[t] \in Seq([calls : Responses, verdict : Verdicts]) /\ Len(era[t]) \in Nat /\ DOMAIN era[t] = 1 .. Len(era[t])
  BY ThreadTyped
<1>2. era'[t] = Append(era[t], e) /\ e \in [calls : Responses, verdict : Verdicts]
  BY TrackIs, Verdicted
<1>3. e.calls = calls /\ e.verdict = Verdict(t, calls)
  OBVIOUS
<1> HIDE DEF e
<1>4. Len(era'[t]) = Len(era[t]) + 1 /\ DOMAIN era'[t] = 1 .. Len(era[t]) + 1
      /\ (\A i \in 1 .. Len(era[t]) : era'[t][i] = era[t][i]) /\ era'[t][Len(era[t]) + 1] = e
  BY <1>1, <1>2, AppendProperties
<1> QED
  BY <1>1, <1>3, <1>4

\* The history is still the end of the era, and its count of a response that of the window.
LEMMA TrackRecent == ASSUME LoopInv, NEW t \in LoopThreads, NEW calls \in Responses, Track(t, calls)
    PROVE  /\ Recent(t)'
           /\ \A i \in Nat : i = Len(era[t]) + 1 =>
                 Cardinality(Alike(t, i)') = Count(Window(t, calls), Hash(calls))
<1> DEFINE H == history[t]
           W == Window(t, calls)
           L == Len(era[t])
           c == Slid(t, calls)
           h == Hash(calls)
           d == L - Len(H)
           e == d + c
<1>1. H \in Seq(Hashes) /\ Len(H) \in 0 .. WindowSize /\ L \in Nat /\ WindowSize \in Nat /\ WindowSize > 0
      /\ DOMAIN era[t] = 1 .. L /\ DOMAIN H = 1 .. Len(H)
  BY ThreadTyped
<1>2. W \in Seq(Hashes) /\ Len(W) \in 1 .. WindowSize /\ c \in {0, 1} /\ c = Len(H) + 1 - Len(W)
      /\ (c = 1 => Len(W) = WindowSize) /\ DOMAIN W = 1 .. Len(W)
  BY WindowIs DEF Slid
<1>3. \A k \in 1 .. Len(W) : W[k] = IF k + c = Len(H) + 1 THEN h ELSE H[k + c]
  BY WindowIs
<1>4. d \in Nat /\ (d > 0 => Len(H) = WindowSize) /\ \A k \in 1 .. Len(H) : H[k] = Hash(era[t][d + k].calls)
  BY <1>1 DEF LoopInv, Guarded, Recent, Gone
<1>5. Len(era'[t]) = L + 1 /\ DOMAIN era'[t] = 1 .. L + 1 /\ history'[t] = W
      /\ (\A i \in 1 .. L : era'[t][i] = era[t][i]) /\ era'[t][L + 1].calls = calls
  BY ZenonT(30), <1>1, EraGrows, TrackIs
<1> DEFINE l == Len(H)
           w == Len(W)
<1>n. /\ l \in Nat /\ l <= WindowSize /\ L \in Nat /\ WindowSize \in Nat
      /\ w \in Nat /\ w >= 1 /\ w <= WindowSize /\ c \in {0, 1} /\ c = l + 1 - w /\ (c = 1 => w = WindowSize)
      /\ d = L - l /\ d \in Nat /\ (d > 0 => l = WindowSize)
  <2>1. d = L - l /\ d \in Nat /\ (d > 0 => l = WindowSize)
    BY <1>4
  <2>2. w \in Nat /\ w >= 1 /\ w <= WindowSize /\ c \in {0, 1} /\ c = l + 1 - w /\ (c = 1 => w = WindowSize)
    <3>1. w \in 1 .. WindowSize /\ c \in {0, 1} /\ c = l + 1 - w /\ (c = 1 => w = WindowSize)
      BY <1>2
    <3>2. WindowSize \in Nat
      BY <1>1
    <3> HIDE DEF w, c, l
    <3> QED
      BY <3>1, <3>2
  <2>3. l \in Nat /\ l <= WindowSize /\ L \in Nat /\ WindowSize \in Nat
    BY <1>1
  <2> QED
    BY <2>1, <2>2, <2>3
<1> HIDE DEF H, W, L, c, h, l, w, d
<1>6. e \in Nat /\ e = L + 1 - w /\ (e > 0 => w = WindowSize)
  BY <1>n
<1>e. e = d + c
  OBVIOUS
<1> HIDE DEF e
<1>7. ASSUME NEW k \in 1 .. w PROVE W[k] = Hash(era'[t][e + k].calls)
  <2>1. CASE k + c = l + 1
    <3>1. e + k = L + 1
      BY <1>n, <1>e, <2>1
    <3>2. W[k] = h
      BY <1>3, <2>1 DEF l, w
    <3> QED
      BY <1>5, <3>1, <3>2 DEF h
  <2>2. CASE k + c # l + 1
    <3>1. k + c \in 1 .. l /\ e + k = d + (k + c) /\ e + k \in 1 .. L
      BY <1>n, <1>e, <2>2
    <3>2. W[k] = H[k + c]
      BY <1>3, <2>2 DEF l, w
    <3>3. H[k + c] = Hash(era[t][d + (k + c)].calls)
      BY <1>4, <3>1 DEF l
    <3> QED
      BY <1>5, <3>1, <3>2, <3>3
  <2> QED
    BY <2>1, <2>2
<1>8. Gone(t)' = e
  <2>1. Gone(t)' = Len(era'[t]) - Len(history'[t])
    BY DEF Gone
  <2>2. Len(era'[t]) = L + 1 /\ Len(history'[t]) = w
    BY <1>5 DEF w
  <2> QED
    BY <1>n, <1>6, <2>1, <2>2
<1>9. Recent(t)'
  <2>1. \A k \in DOMAIN W : W[k] = Hash(era'[t][e + k].calls)
    BY <1>2, <1>7 DEF w
  <2> QED
    BY <1>5, <1>6, <1>8, <2>1 DEF Recent, w
<1> DEFINE D == {k \in DOMAIN W : W[k] = h}
           M == {k + e : k \in D}
<1>10. ASSUME NEW i \in Nat, i = L + 1 PROVE Alike(t, i)' = M
  <2> DEFINE A == Alike(t, i)'
  <2>0. \A j : j \in A <=> j \in 1 .. L + 1 /\ j \in i - WindowSize + 1 .. i /\ Hash(era'[t][j].calls) = h
    <3>1. \A j : j \in A <=> j \in DOMAIN era'[t] /\ j \in i - WindowSize + 1 .. i
                             /\ Hash(era'[t][j].calls) = Hash(era'[t][i].calls)
      BY DEF Alike
    <3>2. DOMAIN era'[t] = 1 .. L + 1 /\ era'[t][i].calls = calls
      BY <1>5, <1>10
    <3>3. Hash(era'[t][i].calls) = h
      BY <3>2 DEF h
    <3> HIDE DEF A
    <3> QED
      BY <3>1, <3>2, <3>3
  <2>1. ASSUME NEW j \in A PROVE j \in M
    <3>1. j \in 1 .. L + 1 /\ j \in i - WindowSize + 1 .. i /\ Hash(era'[t][j].calls) = h
      BY <2>0, <2>1
    <3>2. j - e \in 1 .. w /\ j = (j - e) + e /\ j = e + (j - e)
      BY <1>n, <1>6, <1>10, <3>1
    <3>3. W[j - e] = h
      BY <1>7, <3>1, <3>2
    <3>4. j - e \in D
      BY <1>2, <3>2, <3>3 DEF w
    <3> QED
      BY <3>2, <3>4
  <2>2. ASSUME NEW k \in D PROVE k + e \in A
    <3>1. k \in 1 .. w /\ W[k] = h
      BY <1>2 DEF w
    <3>2. k + e \in 1 .. L + 1 /\ k + e \in i - WindowSize + 1 .. i /\ k + e = e + k
      BY <1>n, <1>6, <1>10, <3>1
    <3>3. Hash(era'[t][k + e].calls) = h
      BY <1>7, <3>1, <3>2
    <3> QED
      BY <2>0, <3>2, <3>3
  <2> HIDE DEF A, D
  <2> QED
    BY <2>1, <2>2 DEF A
<1>11. IsFiniteSet(D) /\ D \in SUBSET Nat
  <2>1. IsFiniteSet(1 .. w)
    <3>1. w \in Int /\ 1 \in Int
      BY <1>n
    <3> QED
      BY <3>1, FS_Interval
  <2>2. DOMAIN W = 1 .. w
    BY <1>2 DEF w
  <2>3. D \subseteq 1 .. w /\ D \in SUBSET Nat
    BY <1>n, <2>2
  <2> QED
    BY <2>1, <2>3, FS_Subset
<1>12. Count(W, h) = Cardinality(D)
  BY DEF Count
<1> HIDE DEF D
<1>13. Cardinality(M) = Cardinality(D)
  BY <1>6, <1>11, Moved
<1> QED
  BY <1>9, <1>10, <1>12, <1>13 DEF W, h, L

\* What is let through is not too often in its window, the new response included.
LEMMA TrackStopped == ASSUME LoopInv, NEW t \in LoopThreads, NEW calls \in Responses, Track(t, calls)
    PROVE  Stopped(t)'
<1>1. /\ \A i \in DOMAIN era[t] : i \in DOMAIN era'[t] /\ era'[t][i] = era[t][i]
      /\ \A i \in DOMAIN era'[t] : i \in DOMAIN era[t] \/ i = Len(era[t]) + 1
      /\ Len(era[t]) + 1 \notin DOMAIN era[t]
      /\ era'[t][Len(era[t]) + 1].verdict = Verdict(t, calls)
  BY EraGrows
<1>2. Len(era[t]) \in Nat /\ DOMAIN era[t] = 1 .. Len(era[t]) /\ WindowSize \in Nat /\ StopAt \in Nat
  BY ThreadTyped
<1>3. \A i \in DOMAIN era[t] : era[t][i].verdict # "stop" => Cardinality(Alike(t, i)) < StopAt
  BY DEF LoopInv, Guarded, Stopped
<1>4. ASSUME NEW i \in DOMAIN era[t] PROVE Alike(t, i)' = Alike(t, i)
  <2>1. ASSUME NEW j \in i - WindowSize + 1 .. i, j \in DOMAIN era'[t] PROVE j \in DOMAIN era[t]
    <3>1. j # Len(era[t]) + 1
      BY <1>2, <2>1
    <3> QED
      BY <1>1, <2>1, <3>1
  <2>2. \A j \in i - WindowSize + 1 .. i : j \in DOMAIN era'[t] <=> j \in DOMAIN era[t]
    BY <1>1, <2>1
  <2>3. \A j \in DOMAIN era[t] : era'[t][j] = era[t][j]
    BY <1>1
  <2> QED
    BY <2>2, <2>3 DEF Alike
<1>5. ASSUME NEW i \in DOMAIN era'[t], era'[t][i].verdict # "stop" PROVE Cardinality(Alike(t, i)') < StopAt
  <2>1. CASE i \in DOMAIN era[t]
    BY <1>1, <1>3, <1>4, <1>5, <2>1
  <2>2. CASE i = Len(era[t]) + 1
    <3>1. Cardinality(Alike(t, i)') = Count(Window(t, calls), Hash(calls))
      BY <1>2, <2>2, TrackRecent
    <3>2. ~(Count(Window(t, calls), Hash(calls)) >= StopAt)
      BY <1>1, <1>5, <2>2, Verdicted
    <3>3. Count(Window(t, calls), Hash(calls)) \in Nat
      BY CountGrows, ThreadTyped
    <3> QED
      BY <1>2, <3>1, <3>2, <3>3
  <2> QED
    BY <1>1, <2>1, <2>2
<1> QED
  BY <1>5 DEF Stopped

\* The warnings that were given are remembered, of hashes and of tools.
LEMMA TrackWarned == ASSUME LoopInv, NEW t \in LoopThreads, NEW calls \in Responses, Track(t, calls)
    PROVE  HashesWarned(t)' /\ ToolsWarned(t)'
<1> DEFINE h == Hash(calls)
           W == Window(t, calls)
           v == Verdict(t, calls)
           new == Len(era[t]) + 1
<1>1. /\ \A i \in DOMAIN era[t] : i \in DOMAIN era'[t] /\ era'[t][i] = era[t][i]
      /\ new \in DOMAIN era'[t] /\ era'[t][new].calls = calls /\ era'[t][new].verdict = v
  BY EraGrows
<1>2. /\ history'[t] = W /\ freq'[t] = Total(t, calls)
      /\ freqWarned'[t] = freqWarned[t] \cup ToldOf(t, calls)
      /\ warned'[t] = warned[t] \cup IF v = "warn" THEN {h} ELSE {}
  BY TrackIs
<1>3. \A e \in Hashes :
          /\ Count(history[t], e) >= WarnAt => e \in warned[t]
          /\ e \in warned[t] => \E j \in DOMAIN era[t] : era[t][j].verdict = "warn" /\ Hash(era[t][j].calls) = e
  BY DEF LoopInv, Guarded, HashesWarned
<1>4. WarnAt \in Nat /\ StopAt \in Nat /\ WarnAt < StopAt /\ h \in Hashes
  BY ThreadTyped
<1>5. ASSUME NEW e \in Hashes, Count(W, e) >= WarnAt PROVE e \in warned'[t]
  <2>1. /\ Count(W, e) <= Count(history[t], e) + 1 /\ (e # h => Count(W, e) <= Count(history[t], e))
        /\ Count(W, e) \in Nat /\ Count(history[t], e) \in Nat
    BY CountGrows
  <2>2. CASE Count(history[t], e) >= WarnAt
    BY <1>2, <1>3, <2>2
  <2>3. CASE ~(Count(history[t], e) >= WarnAt)
    <3> DEFINE m == Count(W, e)
               n == Count(history[t], e)
    <3>1. m <= n + 1 /\ (e # h => m <= n) /\ m \in Nat /\ n \in Nat /\ m >= WarnAt /\ ~(n >= WarnAt)
      BY <1>5, <2>1, <2>3
    <3> HIDE DEF m, n
    <3>2. e = h
      BY <1>4, <3>1
    <3>3. m \in WarnAt .. StopAt - 1
      BY <1>4, <3>1
    <3>4. h \notin warned[t] => v = "warn"
      BY <3>2, <3>3, Verdicted DEF m
    <3> QED
      BY <1>2, <3>2, <3>4
  <2> QED
    BY <2>2, <2>3
<1>6. ASSUME NEW e \in Hashes, e \in warned'[t]
      PROVE  \E j \in DOMAIN era'[t] : era'[t][j].verdict = "warn" /\ Hash(era'[t][j].calls) = e
  <2>1. CASE e \in warned[t]
    BY <1>1, <1>3, <2>1
  <2>2. CASE v = "warn" /\ e = h
    BY <1>1, <2>2
  <2> QED
    BY <1>2, <1>6, <2>1, <2>2
<1>7. HashesWarned(t)'
  <2>1. Hashes' = Hashes
    BY DEF Hashes, Hash, Count
  <2> QED
    BY <1>2, <1>5, <1>6 DEF HashesWarned
<1>8. \A n \in Tools : n \in freqWarned[t] =>
          \E j \in DOMAIN era[t] : era[t][j].verdict = "freq warn" /\ Count(era[t][j].calls, n) > 0
  BY DEF LoopInv, Guarded, ToolsWarned
<1>9. /\ \A n \in Tools : n \notin freqWarned[t] \cup ToldOf(t, calls) => Total(t, calls)[n] < FreqWarn[n]
      /\ \A n \in ToldOf(t, calls) : n \in Tools /\ Count(calls, n) > 0
  BY Frequencies
<1>10. ASSUME NEW n \in Tools, n \in freqWarned'[t]
       PROVE  \E j \in DOMAIN era'[t] : era'[t][j].verdict = "freq warn" /\ Count(era'[t][j].calls, n) > 0
  <2>1. CASE n \in freqWarned[t]
    BY <1>1, <1>8, <2>1
  <2>2. CASE n \in ToldOf(t, calls)
    <3>1. v = "freq warn"
      BY <2>2 DEF ToldOf
    <3> QED
      BY <1>1, <1>9, <2>2, <3>1
  <2> QED
    BY <1>2, <1>10, <2>1, <2>2
<1>11. ToolsWarned(t)'
  BY <1>2, <1>9, <1>10 DEF ToolsWarned
<1> QED
  BY <1>7, <1>11

\* A call that passed.
LEMMA PassedIs == ASSUME NEW e, NEW n, NEW x
    PROVE  x \in Passed(e, n) <=>
              \E i \in DOMAIN e : \E k \in DOMAIN e[i].calls :
                  x = <<i, k>> /\ e[i].verdict = "pass" /\ e[i].calls[k] = n
<1>1. ASSUME x \in Passed(e, n)
      PROVE  \E i \in DOMAIN e : \E k \in DOMAIN e[i].calls :
                 x = <<i, k>> /\ e[i].verdict = "pass" /\ e[i].calls[k] = n
  <2>1. PICK i \in DOMAIN e : x \in {i} \X DOMAIN e[i].calls
    BY <1>1 DEF Passed
  <2>2. e[x[1]].verdict = "pass" /\ e[x[1]].calls[x[2]] = n
    BY <1>1 DEF Passed
  <2>3. x = <<i, x[2]>> /\ x[1] = i /\ x[2] \in DOMAIN e[i].calls
    BY <2>1
  <2> QED
    BY <2>2, <2>3
<1>2. ASSUME NEW i \in DOMAIN e, NEW k \in DOMAIN e[i].calls, x = <<i, k>>, e[i].verdict = "pass", e[i].calls[k] = n
      PROVE  x \in Passed(e, n)
  <2>1. x \in {i} \X DOMAIN e[i].calls /\ x[1] = i /\ x[2] = k
    BY <1>2
  <2> QED
    BY <1>2, <2>1 DEF Passed
<1> QED
  BY <1>1, <1>2

\* The calls of a response that passes are counted, the calls of another are not due.
LEMMA TrackPasses == ASSUME LoopInv, NEW t \in LoopThreads, NEW calls \in Responses, Track(t, calls)
    PROVE  PassesCounted(t)'
<1> DEFINE new == Len(era[t]) + 1
           v == Verdict(t, calls)
<1>1. /\ \A i \in DOMAIN era[t] : i \in DOMAIN era'[t] /\ era'[t][i] = era[t][i]
      /\ \A i \in DOMAIN era'[t] : i \in DOMAIN era[t] \/ i = new
      /\ new \in DOMAIN era'[t] /\ new \notin DOMAIN era[t]
      /\ era'[t][new].calls = calls /\ era'[t][new].verdict = v
  BY EraGrows
<1> HIDE DEF new, v
<1>2. freq'[t] = Total(t, calls)
  BY TrackIs
<1> SUFFICES ASSUME NEW n \in Tools
             PROVE  /\ IsFiniteSet(Passed(era'[t], n))
                    /\ Cardinality(Passed(era'[t], n)) <= freq'[t][n]
                    /\ Cardinality(Passed(era'[t], n)) < FreqStop[n]
  BY DEF PassesCounted
<1> DEFINE P == Passed(era[t], n)
           Q == Passed(era'[t], n)
           C == {k \in DOMAIN calls : calls[k] = n}
           X == {<<new, k>> : k \in C}
<1>3. IsFiniteSet(P) /\ Cardinality(P) <= freq[t][n] /\ Cardinality(P) < FreqStop[n] /\ Cardinality(P) \in Nat
  <2>1. IsFiniteSet(P) /\ Cardinality(P) <= freq[t][n] /\ Cardinality(P) < FreqStop[n]
    BY DEF LoopInv, Guarded, PassesCounted
  <2> HIDE DEF P
  <2> QED
    BY <2>1, FS_CardinalityType
<1>4. FreqStop[n] \in Nat /\ freq[t][n] \in Nat /\ Total(t, calls)[n] \in Nat /\ freq[t][n] <= Total(t, calls)[n]
  <2>1. FreqStop[n] \in Nat
    BY LoopAssumption
  <2>2. freq[t] \in [Tools -> Nat]
    BY ThreadTyped
  <2>3. Total(t, calls) \in [Tools -> Nat] /\ freq[t][n] <= Total(t, calls)[n]
    BY Frequencies
  <2> QED
    BY <2>1, <2>2, <2>3
<1>5. \A x : x \in P <=> \E i \in DOMAIN era[t] : \E k \in DOMAIN era[t][i].calls :
                 x = <<i, k>> /\ era[t][i].verdict = "pass" /\ era[t][i].calls[k] = n
  BY PassedIs
<1>6. \A x : x \in Q <=> \E i \in DOMAIN era'[t] : \E k \in DOMAIN era'[t][i].calls :
                 x = <<i, k>> /\ era'[t][i].verdict = "pass" /\ era'[t][i].calls[k] = n
  BY PassedIs
<1> HIDE DEF P, Q
<1>7. ASSUME v # "pass" PROVE Q = P
  <2>1. ASSUME NEW x \in Q PROVE x \in P
    <3>1. PICK i \in DOMAIN era'[t] : \E k \in DOMAIN era'[t][i].calls :
              x = <<i, k>> /\ era'[t][i].verdict = "pass" /\ era'[t][i].calls[k] = n
      BY <1>6
    <3>2. i \in DOMAIN era[t]
      BY <1>1, <1>7, <3>1
    <3>3. era'[t][i] = era[t][i]
      BY <1>1, <3>2
    <3> QED
      BY <1>5, <3>1, <3>2, <3>3
  <2>2. ASSUME NEW x \in P PROVE x \in Q
    BY <1>1, <1>5, <1>6
  <2> QED
    BY <2>1, <2>2
<1>8. ASSUME v = "pass" PROVE Q = P \cup X /\ P \cap X = {}
  <2>1. ASSUME NEW x \in Q PROVE x \in P \/ x \in X
    <3>1. PICK i \in DOMAIN era'[t] : \E k \in DOMAIN era'[t][i].calls :
              x = <<i, k>> /\ era'[t][i].verdict = "pass" /\ era'[t][i].calls[k] = n
      BY <1>6
    <3>2. CASE i \in DOMAIN era[t]
      <4>1. era'[t][i] = era[t][i]
        BY <1>1, <3>2
      <4> QED
        BY <1>5, <3>1, <3>2, <4>1
    <3>3. CASE i = new
      <4>1. era'[t][i].calls = calls
        BY <1>1, <3>3
      <4> QED
        BY <3>1, <3>3, <4>1
    <3> QED
      BY <1>1, <3>2, <3>3
  <2>2. ASSUME NEW x \in P PROVE x \in Q /\ x \notin X
    <3>1. PICK i \in DOMAIN era[t] : \E k \in DOMAIN era[t][i].calls :
              x = <<i, k>> /\ era[t][i].verdict = "pass" /\ era[t][i].calls[k] = n
      BY <1>5
    <3>2. i \in DOMAIN era'[t] /\ era'[t][i] = era[t][i] /\ i # new
      BY <1>1
    <3>3. x \in Q
      BY <1>6, <3>1, <3>2
    <3> QED
      BY <3>1, <3>2, <3>3
  <2>3. ASSUME NEW x \in X PROVE x \in Q
    <3>1. PICK k \in DOMAIN calls : x = <<new, k>> /\ calls[k] = n
      BY <2>3
    <3> QED
      BY <1>1, <1>6, <1>8, <3>1
  <2> HIDE DEF X
  <2> QED
    BY <2>1, <2>2, <2>3
<1>9. IsFiniteSet(X) /\ Cardinality(X) = Count(calls, n) /\ Count(calls, n) \in Nat
  <2> DEFINE f == [k \in C |-> <<new, k>>]
  <2>1. IsFiniteSet(C) /\ Cardinality(C) = Count(calls, n) /\ Count(calls, n) \in Nat
    <3>1. calls \in Seq(Tools)
      BY ThreadTyped
    <3>2. IsFiniteSet(C) /\ Count(calls, n) \in Nat
      BY <3>1, CountIs
    <3> QED
      BY <3>2 DEF Count
  <2> HIDE DEF C
  <2>2. f \in [C -> X] /\ (\A a, b \in C : f[a] = f[b] => a = b) /\ \A b \in X : \E a \in C : f[a] = b
    OBVIOUS
  <2> HIDE DEF f, X
  <2>3. f \in Bijection(C, X)
    BY <2>2 DEF Bijection, Injection, Surjection, IsInjective
  <2>4. ExistsBijection(C, X)
    BY <2>3 DEF ExistsBijection
  <2> QED
    BY <2>1, <2>4, FS_Bijection
<1> HIDE DEF X, C
<1>10. CASE v # "pass"
  <2> DEFINE p == Cardinality(P)
             q == freq[t][n]
             r == Total(t, calls)[n]
  <2>1. p \in Nat /\ q \in Nat /\ r \in Nat /\ p <= q /\ q <= r
    BY <1>3, <1>4
  <2>2. Q = P
    BY <1>7, <1>10
  <2> HIDE DEF p, q, r
  <2>3. p <= r
    BY <2>1
  <2> QED
    BY <1>2, <1>3, <2>2, <2>3 DEF p, r, Q
<1>11. CASE v = "pass"
  <2>1. Q = P \cup X /\ P \cap X = {}
    BY <1>8, <1>11
  <2>2. Cardinality(P \cap X) = 0
    BY <2>1, FS_EmptySet
  <2>3. IsFiniteSet(Q) /\ Cardinality(Q) = Cardinality(P) + Cardinality(X) - Cardinality(P \cap X)
    BY <1>3, <1>9, <2>1, FS_Union
  <2>4. Total(t, calls)[n] = freq[t][n] + Count(calls, n)
        /\ (Count(calls, n) > 0 => Total(t, calls)[n] < FreqStop[n])
    BY <1>11, Frequencies DEF v
  <2> DEFINE p == Cardinality(P)
             q == freq[t][n]
             r == Total(t, calls)[n]
             s == FreqStop[n]
             a == Count(calls, n)
             z == Cardinality(Q)
  <2>5. z = p + a /\ p \in Nat /\ q \in Nat /\ r \in Nat /\ s \in Nat /\ a \in Nat /\ p <= q /\ p < s
        /\ r = q + a /\ (a > 0 => r < s)
    BY <1>3, <1>4, <1>9, <2>2, <2>3, <2>4
  <2> HIDE DEF p, q, r, s, a, z
  <2>6. z <= r /\ z < s
    BY <2>5
  <2> QED
    BY <1>2, <2>3, <2>6 DEF z, r, s, Q
<1> QED
  BY <1>10, <1>11

\* A response is stopped only when one like it was warned of, or a tool of it.
LEMMA TrackWarnsFirst == ASSUME LoopInv, NEW t \in LoopThreads, NEW calls \in Responses, Track(t, calls)
    PROVE  Warned(t)'
<1> DEFINE new == Len(era[t]) + 1
           v == Verdict(t, calls)
<1>1. /\ \A i \in DOMAIN era[t] : i \in DOMAIN era'[t] /\ era'[t][i] = era[t][i]
      /\ \A i \in DOMAIN era'[t] : i \in DOMAIN era[t] \/ i = new
      /\ new \in DOMAIN era'[t] /\ new \notin DOMAIN era[t]
      /\ era'[t][new].calls = calls /\ era'[t][new].verdict = v
  BY EraGrows
<1>2. Len(era[t]) \in Nat /\ DOMAIN era[t] = 1 .. Len(era[t]) /\ WarnAt \in Nat /\ StopAt \in Nat /\ WarnAt < StopAt
      /\ Hash(calls) \in Hashes /\ freqWarned[t] \subseteq Tools
  BY ThreadTyped
<1>3. HashesWarned(t) /\ ToolsWarned(t) /\ Warned(t)
  BY DEF LoopInv, Guarded
<1>4. ASSUME v = "stop" PROVE \E j \in DOMAIN era[t] : era[t][j].verdict = "warn" /\ Hash(era[t][j].calls) = Hash(calls)
  <2> DEFINE m == Count(Window(t, calls), Hash(calls))
             k == Count(history[t], Hash(calls))
  <2>1. m >= StopAt
    BY <1>4, Verdicted
  <2>2. m <= k + 1 /\ m \in Nat /\ k \in Nat
    BY <1>2, CountGrows
  <2> HIDE DEF m, k
  <2>3. k >= WarnAt
    BY <1>2, <2>1, <2>2
  <2> QED
    BY <1>2, <1>3, <2>3 DEF HashesWarned, k
<1>5. ASSUME v = "freq stop"
      PROVE  \E j \in DOMAIN era[t] : /\ era[t][j].verdict = "freq warn"
                                      /\ \E n \in Tools : Count(era[t][j].calls, n) > 0 /\ Count(calls, n) > 0
  <2>1. PICK n \in freqWarned[t] : Count(calls, n) > 0
    BY <1>5, Frequencies
  <2>2. n \in Tools
    BY <1>2
  <2> QED
    BY <1>3, <2>1, <2>2 DEF ToolsWarned
<1>6. \A i \in DOMAIN era[t] : i \in 1 .. new - 1 /\ 1 .. i - 1 \subseteq DOMAIN era[t]
  BY <1>2
<1> HIDE DEF new, v
<1>7. ASSUME NEW i \in DOMAIN era'[t], era'[t][i].verdict = "stop"
      PROVE  \E j \in 1 .. i - 1 : era'[t][j].verdict = "warn" /\ Hash(era'[t][j].calls) = Hash(era'[t][i].calls)
  <2>1. CASE i \in DOMAIN era[t]
    <3>1. PICK j \in 1 .. i - 1 : era[t][j].verdict = "warn" /\ Hash(era[t][j].calls) = Hash(era[t][i].calls)
      BY <1>1, <1>3, <1>7, <2>1 DEF Warned, WarnedIn
    <3>2. era'[t][j] = era[t][j] /\ era'[t][i] = era[t][i]
      BY <1>1, <1>6, <2>1
    <3> QED
      BY <3>1, <3>2
  <2>2. CASE i = new
    <3>1. PICK j \in DOMAIN era[t] : era[t][j].verdict = "warn" /\ Hash(era[t][j].calls) = Hash(calls)
      BY <1>1, <1>4, <1>7, <2>2
    <3>2. j \in 1 .. i - 1 /\ era'[t][j] = era[t][j] /\ era'[t][i].calls = calls
      BY <1>1, <1>6, <2>2
    <3> QED
      BY <3>1, <3>2
  <2> QED
    BY <1>1, <2>1, <2>2
<1>8. ASSUME NEW i \in DOMAIN era'[t], era'[t][i].verdict = "freq stop"
      PROVE  \E j \in 1 .. i - 1 :
                /\ era'[t][j].verdict = "freq warn"
                /\ \E n \in Tools : Count(era'[t][j].calls, n) > 0 /\ Count(era'[t][i].calls, n) > 0
  <2>1. CASE i \in DOMAIN era[t]
    <3>1. PICK j \in 1 .. i - 1 :
              /\ era[t][j].verdict = "freq warn"
              /\ \E n \in Tools : Count(era[t][j].calls, n) > 0 /\ Count(era[t][i].calls, n) > 0
      BY <1>1, <1>3, <1>8, <2>1 DEF Warned, WarnedIn
    <3>2. era'[t][j] = era[t][j] /\ era'[t][i] = era[t][i]
      BY <1>1, <1>6, <2>1
    <3> QED
      BY <3>1, <3>2
  <2>2. CASE i = new
    <3>1. PICK j \in DOMAIN era[t] :
              /\ era[t][j].verdict = "freq warn"
              /\ \E n \in Tools : Count(era[t][j].calls, n) > 0 /\ Count(calls, n) > 0
      BY <1>1, <1>5, <1>8, <2>2
    <3>2. j \in 1 .. i - 1 /\ era'[t][j] = era[t][j] /\ era'[t][i].calls = calls
      BY <1>1, <1>6, <2>2
    <3> QED
      BY <3>1, <3>2
  <2> QED
    BY <1>1, <2>1, <2>2
<1> QED
  BY <1>7, <1>8 DEF Warned, WarnedIn

\* A thread of which nothing is known.
Unknown(t) == history[t] = <<>> /\ warned[t] = {} /\ freq[t] = NoCalls /\ freqWarned[t] = {} /\ era[t] = <<>>

\* It is guarded.
UnknownAreGuarded == \A t \in LoopThreads : Unknown(t) => Guarded(t)

\* It is guarded.
LEMMA UnknownIs == UnknownAreGuarded
<1> SUFFICES ASSUME NEW t \in LoopThreads, Unknown(t) PROVE Guarded(t)
  BY DEF UnknownAreGuarded
<1>1. history[t] = <<>> /\ warned[t] = {} /\ freq[t] = NoCalls /\ freqWarned[t] = {} /\ era[t] = <<>>
  BY DEF Unknown
<1>2. DOMAIN <<>> = {} /\ Len(<<>>) = 0
  OBVIOUS
<1>3. Recent(t) /\ Stopped(t) /\ Warned(t)
  BY <1>1, <1>2 DEF Recent, Gone, Stopped, Warned, WarnedIn
<1>4. HashesWarned(t)
  <2>1. ASSUME NEW h \in Hashes PROVE ~(Count(<<>>, h) >= WarnAt)
    <3>1. {i \in DOMAIN <<>> : <<>>[i] = h} = {}
      BY <1>2
    <3>2. Count(<<>>, h) = 0
      BY <3>1, FS_EmptySet DEF Count
    <3>3. WarnAt \in Nat \ {0}
      BY LoopAssumption
    <3> QED
      BY <3>2, <3>3
  <2> QED
    BY <1>1, <2>1 DEF HashesWarned
<1>5. ASSUME NEW n \in Tools PROVE FreqWarn[n] \in Nat \ {0} /\ FreqStop[n] \in Nat \ {0} /\ NoCalls[n] = 0
  <2>1. FreqWarn[n] \in Nat /\ FreqStop[n] \in Nat /\ FreqWarn[n] \in 1 .. FreqStop[n] - 1
    BY LoopAssumption
  <2> QED
    BY <2>1 DEF NoCalls
<1>6. ToolsWarned(t)
  BY <1>1, <1>5 DEF ToolsWarned
<1>7. ASSUME NEW n \in Tools PROVE IsFiniteSet(Passed(<<>>, n)) /\ Cardinality(Passed(<<>>, n)) = 0
  <2>1. Passed(<<>>, n) = {}
    BY <1>2, PassedIs
  <2> QED
    BY <2>1, FS_EmptySet
<1>8. PassesCounted(t)
  BY <1>1, <1>5, <1>7 DEF PassesCounted
<1> QED
  BY <1>3, <1>4, <1>6, <1>8 DEF Guarded

\* After a step too.
LEMMA UnknownIsNext == UnknownAreGuarded'
  BY UnknownIs, PTL

\* A thread that a step leaves alone, or forgets, is guarded as before.
LEMMA OthersGuarded == ASSUME LoopInv, NEW t \in LoopThreads,
                              \/ /\ history'[t] = history[t] /\ warned'[t] = warned[t] /\ freq'[t] = freq[t]
                                 /\ freqWarned'[t] = freqWarned[t] /\ era'[t] = era[t]
                              \/ /\ history'[t] = <<>> /\ warned'[t] = {} /\ freq'[t] = NoCalls
                                 /\ freqWarned'[t] = {} /\ era'[t] = <<>>
                       PROVE  Guarded(t)'
<1>1. CASE history'[t] = <<>> /\ warned'[t] = {} /\ freq'[t] = NoCalls /\ freqWarned'[t] = {} /\ era'[t] = <<>>
  <2>1. Unknown(t)'
    BY <1>1 DEF Unknown
  <2> QED
    BY <2>1, UnknownIsNext DEF UnknownAreGuarded
<1>2. CASE /\ history'[t] = history[t] /\ warned'[t] = warned[t] /\ freq'[t] = freq[t]
           /\ freqWarned'[t] = freqWarned[t] /\ era'[t] = era[t]
  <2>1. Recent(t) /\ Stopped(t) /\ HashesWarned(t) /\ ToolsWarned(t) /\ PassesCounted(t) /\ Warned(t)
    BY DEF LoopInv, Guarded
  <2>2. Recent(t)'
    BY <1>2, <2>1 DEF Recent, Gone
  <2>7. Warned(t)'
    BY <1>2, <2>1 DEF Warned
  <2>5. \A i : Alike(t, i)' = Alike(t, i)
    BY <1>2 DEF Alike
  <2>6. Stopped(t)'
    BY <1>2, <2>1, <2>5 DEF Stopped
  <2>3. Hashes' = Hashes
    BY DEF Hashes, Hash, Count
  <2>4. HashesWarned(t)' /\ ToolsWarned(t)' /\ PassesCounted(t)'
    BY <1>2, <2>1, <2>3 DEF HashesWarned, ToolsWarned, PassesCounted
  <2> QED
    BY <2>2, <2>4, <2>6, <2>7 DEF Guarded
<1> QED
  BY <1>1, <1>2

\* The order of use holds each thread once, and no more of them than MaxTracked.
LEMMA TrackOrders == ASSUME LoopInv, NEW t \in LoopThreads, NEW calls \in Responses, Track(t, calls)
    PROVE  /\ used' \in Seq(LoopThreads) /\ Len(used') <= MaxTracked
           /\ \A i, j \in DOMAIN used' : used'[i] = used'[j] => i = j
<1> DEFINE out == Evicted(t)
           K == {t} \cup out
           g == Without(used, K)
<1>1. used \in Seq(LoopThreads) /\ Len(used) <= MaxTracked /\ Distinct(used) /\ MaxTracked \in Nat \ {0}
      /\ Len(used) \in Nat /\ DOMAIN used = 1 .. Len(used)
  BY LoopAssumption DEF LoopInv, LoopTypeOK, Distinct
<1>2. used' = Append(g, t)
  BY DEF Track
<1>3. /\ g \in Seq(LoopThreads) /\ Distinct(g) /\ ElementsOf(g) = ElementsOf(used) \ K
      /\ DOMAIN g = 1 .. Len(g) /\ Len(g) \in Nat
  BY <1>1, WithoutElements
<1>4. IsWithout(g, used, K, Len(used), LoopThreads)
  BY <1>1, WithoutIs
<1> HIDE DEF g
<1>5. Len(g) < MaxTracked
  <2>1. CASE \E j \in 1 .. Len(used) : used[j] \in K
    <3>1. Len(g) < Len(used)
      BY <1>4, <2>1 DEF IsWithout
    <3> QED
      BY <1>1, <1>3, <3>1
  <2>2. CASE \A j \in 1 .. Len(used) : used[j] \notin K
    <3>1. Len(g) = Len(used)
      BY <1>4, <2>2 DEF IsWithout
    <3>2. Len(used) # MaxTracked
      <4>1. SUFFICES ASSUME Len(used) = MaxTracked PROVE FALSE
        OBVIOUS
      <4>2. t \notin {used[i] : i \in DOMAIN used}
        BY <1>1, <2>2
      <4>3. used[1] \in K
        BY <4>1, <4>2 DEF Evicted
      <4>4. 1 \in 1 .. Len(used)
        BY <1>1, <4>1
      <4> QED
        BY <2>2, <4>3, <4>4
    <3>3. Len(used) <= MaxTracked /\ Len(used) \in Nat /\ MaxTracked \in Nat
      BY <1>1
    <3> QED
      BY <3>1, <3>2, <3>3
  <2> QED
    BY <2>1, <2>2
<1>6. t \notin ElementsOf(g)
  BY <1>3
<1>7. /\ used' \in Seq(LoopThreads) /\ Len(used') = Len(g) + 1 /\ DOMAIN used' = 1 .. Len(g) + 1
      /\ used'[Len(g) + 1] = t /\ \A i \in 1 .. Len(g) : used'[i] = g[i]
  BY <1>2, <1>3
<1>8. \A i, j \in 1 .. Len(g) : g[i] = g[j] => i = j
  BY <1>3 DEF Distinct
<1>9. \A i \in 1 .. Len(g) : g[i] # t
  BY <1>3, <1>6 DEF ElementsOf
<1>10. \A i \in 1 .. Len(g) + 1 : i \in 1 .. Len(g) \/ i = Len(g) + 1
  BY <1>3
<1>11. \A i, j \in DOMAIN used' : used'[i] = used'[j] => i = j
  BY <1>7, <1>8, <1>9, <1>10
<1>12. Len(used') <= MaxTracked
  BY <1>1, <1>3, <1>5, <1>7
<1> QED
  BY <1>7, <1>11, <1>12

\* A response of a thread.
LEMMA TrackKeeps == ASSUME LoopInv, NEW t \in LoopThreads, NEW calls \in Responses, Track(t, calls)
                    PROVE  LoopInv'
<1>1. Guarded(t)'
  BY TrackRecent, TrackStopped, TrackWarned, TrackPasses, TrackWarnsFirst DEF Guarded
<1>2. ASSUME NEW u \in LoopThreads \ {t} PROVE Guarded(u)'
  BY TrackIs, OthersGuarded
<1>3. LoopTypeOK'
  <2>1. /\ history' \in [LoopThreads -> Seq(Hashes)] /\ warned' \in [LoopThreads -> SUBSET Hashes]
        /\ freq' \in [LoopThreads -> [Tools -> Nat]] /\ freqWarned' \in [LoopThreads -> SUBSET Tools]
        /\ era' \in [LoopThreads -> Seq([calls : Responses, verdict : Verdicts])]
    BY TrackIs
  <2>2. ASSUME NEW u \in LoopThreads PROVE Len(history'[u]) <= WindowSize
    <3>1. WindowSize \in Nat /\ Len(history[u]) <= WindowSize
      BY LoopAssumption DEF LoopInv, LoopTypeOK
    <3>2. CASE u = t
      <4>1. Len(Window(t, calls)) \in 1 .. WindowSize /\ history'[t] = Window(t, calls)
        BY TrackIs, WindowIs
      <4> QED
        BY <3>1, <3>2, <4>1
    <3>3. CASE u # t
      <4>1. history'[u] = history[u] \/ history'[u] = <<>>
        BY <3>3, TrackIs
      <4> QED
        BY <3>1, <4>1
    <3> QED
      BY <3>2, <3>3
  <2>3. tracks' \in 0 .. MaxTracks
    <3>1. tracks \in 0 .. MaxTracks /\ tracks < MaxTracks /\ tracks' = tracks + 1 /\ MaxTracks \in Nat
      BY LoopAssumption DEF LoopInv, LoopTypeOK, Track
    <3> QED
      BY <3>1
  <2>4. (\A i, j \in DOMAIN used : used[i] = used[j] => i = j)'
    BY TrackOrders
  <2>5. used' \in Seq(LoopThreads) /\ Len(used') <= MaxTracked
    BY TrackOrders
  <2>6. Hashes' = Hashes
    BY DEF Hashes, Hash, Count
  <2> QED
    BY <2>1, <2>2, <2>3, <2>4, <2>5, <2>6 DEF LoopTypeOK
<1> QED
  BY <1>1, <1>2, <1>3 DEF LoopInv

\* A reset of some threads.
LEMMA ResetKeeps == ASSUME LoopInv, NEW T, Reset(T) PROVE LoopInv'
<1>1. LoopTypeOK /\ Hashes' = Hashes
  BY DEF LoopInv, Hashes, Hash, Count
<1>2. /\ history' = Forgotten(T, history, <<>>) /\ era' = Forgotten(T, era, <<>>)
      /\ warned' = Forgotten(T, warned, {}) /\ freq' = Forgotten(T, freq, NoCalls)
      /\ freqWarned' = Forgotten(T, freqWarned, {}) /\ tracks' = tracks /\ used' = Without(used, T)
  BY DEF Reset, WarningsWithout
<1>3. ASSUME NEW u \in LoopThreads
      PROVE  \/ /\ history'[u] = history[u] /\ warned'[u] = warned[u] /\ freq'[u] = freq[u]
                /\ freqWarned'[u] = freqWarned[u] /\ era'[u] = era[u]
             \/ /\ history'[u] = <<>> /\ warned'[u] = {} /\ freq'[u] = NoCalls
                /\ freqWarned'[u] = {} /\ era'[u] = <<>>
  BY <1>2 DEF Forgotten
<1>4. \A u \in LoopThreads : Guarded(u)'
  BY <1>3, OthersGuarded
<1>5. used \in Seq(LoopThreads) /\ Len(used) <= MaxTracked /\ Distinct(used) /\ MaxTracked \in Nat /\ Len(used) \in Nat
      /\ DOMAIN used = 1 .. Len(used) /\ WindowSize \in Nat
  BY <1>1, LoopAssumption DEF LoopTypeOK, Distinct
<1>6. used' \in Seq(LoopThreads) /\ Distinct(used')
  BY <1>2, <1>5, WithoutElements
<1>7. Len(used') <= Len(used)
  BY <1>2, <1>5, WithoutIs DEF IsWithout
<1>8. Len(used') <= MaxTracked
  <2>1. Len(used') \in Nat
    BY <1>6
  <2> QED
    BY <1>5, <1>7, <2>1
<1>9. /\ history' \in [LoopThreads -> Seq(Hashes)] /\ era' \in [LoopThreads -> Seq([calls : Responses, verdict : Verdicts])]
  <2>1. <<>> \in Seq(Hashes) /\ <<>> \in Seq([calls : Responses, verdict : Verdicts])
    OBVIOUS
  <2> QED
    BY <1>1, <1>2, <2>1 DEF LoopTypeOK, Forgotten
<1>10. /\ warned' \in [LoopThreads -> SUBSET Hashes] /\ freqWarned' \in [LoopThreads -> SUBSET Tools]
       /\ freq' \in [LoopThreads -> [Tools -> Nat]]
  <2>1. NoCalls \in [Tools -> Nat]
    BY DEF NoCalls
  <2> QED
    BY <1>1, <1>2, <2>1 DEF LoopTypeOK, Forgotten
<1>11. ASSUME NEW u \in LoopThreads PROVE Len(history'[u]) <= WindowSize
  <2>1. Len(history[u]) <= WindowSize
    BY <1>1 DEF LoopTypeOK
  <2>2. history'[u] = history[u] \/ history'[u] = <<>>
    BY <1>3
  <2> QED
    BY <1>5, <2>1, <2>2
<1>12. LoopTypeOK'
  <2>1. (\A i, j \in DOMAIN used : used[i] = used[j] => i = j)'
    BY <1>6 DEF Distinct
  <2>2. tracks' \in 0 .. MaxTracks
    BY <1>1, <1>2 DEF LoopTypeOK
  <2> QED
    BY <1>1, <1>6, <1>8, <1>9, <1>10, <1>11, <2>1, <2>2 DEF LoopTypeOK
<1> QED
  BY <1>4, <1>12 DEF LoopInv

\* Nothing is known of any thread at the start.
LEMMA LoopInitially == LoopInit => LoopInv
<1> SUFFICES ASSUME LoopInit PROVE LoopInv
  OBVIOUS
<1>1. \A t \in LoopThreads : Unknown(t)
  BY DEF LoopInit, Unknown
<1>2. \A t \in LoopThreads : Guarded(t)
  BY <1>1, UnknownIs DEF UnknownAreGuarded
<1>3. LoopTypeOK
  <2>1. <<>> \in Seq(Hashes) /\ <<>> \in Seq([calls : Responses, verdict : Verdicts]) /\ <<>> \in Seq(LoopThreads)
        /\ Len(<<>>) = 0 /\ DOMAIN <<>> = {}
    OBVIOUS
  <2>2. NoCalls \in [Tools -> Nat]
    BY DEF NoCalls
  <2>3. MaxTracked \in Nat /\ MaxTracks \in Nat /\ WindowSize \in Nat
    BY LoopAssumption
  <2>4. history \in [LoopThreads -> Seq(Hashes)] /\ era \in [LoopThreads -> Seq([calls : Responses, verdict : Verdicts])]
    BY <2>1 DEF LoopInit
  <2>5. /\ warned \in [LoopThreads -> SUBSET Hashes] /\ freqWarned \in [LoopThreads -> SUBSET Tools]
        /\ freq \in [LoopThreads -> [Tools -> Nat]]
    BY <2>2 DEF LoopInit
  <2>6. \A t \in LoopThreads : Len(history[t]) <= WindowSize
    BY <2>1, <2>3 DEF LoopInit
  <2>7. used \in Seq(LoopThreads) /\ Len(used) <= MaxTracked /\ DOMAIN used = {} /\ tracks \in 0 .. MaxTracks
    BY <2>1, <2>3 DEF LoopInit
  <2> QED
    BY <2>4, <2>5, <2>6, <2>7 DEF LoopTypeOK
<1> QED
  BY <1>2, <1>3 DEF LoopInv

\* Every response and every reset keeps the invariant.
LEMMA LoopKeeps == LoopInv /\ [LoopNext]_loopVars => LoopInv'
<1> SUFFICES ASSUME LoopInv, [LoopNext]_loopVars PROVE LoopInv'
  OBVIOUS
<1>1. CASE \E t \in LoopThreads, calls \in Responses : Track(t, calls)
  BY <1>1, TrackKeeps
<1>2. CASE \E t \in LoopThreads : Reset({t})
  BY <1>2, ResetKeeps
<1>3. CASE Reset(LoopThreads)
  BY <1>3, ResetKeeps
<1>4. CASE UNCHANGED loopVars
  <2>1. /\ used' = used /\ history' = history /\ warned' = warned /\ freq' = freq /\ freqWarned' = freqWarned
        /\ era' = era /\ tracks' = tracks
    BY <1>4 DEF loopVars
  <2>2. LoopTypeOK'
    <3>1. Hashes' = Hashes
      BY DEF Hashes, Hash, Count
    <3> QED
      BY <2>1, <3>1 DEF LoopInv, LoopTypeOK
  <2>3. \A u \in LoopThreads : Guarded(u)'
    BY <2>1, OthersGuarded
  <2> QED
    BY <2>2, <2>3 DEF LoopInv
<1> QED
  BY <1>1, <1>2, <1>3, <1>4 DEF LoopNext

\* The response that was let through last, of those like i in its window, has all the others
\* in its own window.
LEMMA LoopImplied == LoopInv => LoopGuardHolds
<1> SUFFICES ASSUME LoopInv PROVE LoopGuardHolds
  OBVIOUS
<1>1. ASSUME NEW t \in LoopThreads PROVE Guarded(t) /\ Len(era[t]) \in Nat /\ DOMAIN era[t] = 1 .. Len(era[t])
  BY DEF LoopInv, LoopTypeOK
<1>2. StopAt \in Nat /\ StopAt > 0 /\ WindowSize \in Nat
  BY LoopAssumption
<1>3. ASSUME NEW t \in LoopThreads, NEW i \in DOMAIN era[t]
      PROVE  Cardinality({j \in LetThrough(t) : /\ j \in i - WindowSize + 1 .. i
                                                /\ Hash(era[t][j].calls) = Hash(era[t][i].calls)}) < StopAt
  <2> DEFINE A == {j \in LetThrough(t) : /\ j \in i - WindowSize + 1 .. i
                                         /\ Hash(era[t][j].calls) = Hash(era[t][i].calls)}
             B == {i - j : j \in A}
  <2>1. \A j \in A : j \in DOMAIN era[t] /\ era[t][j].verdict # "stop" /\ j \in i - WindowSize + 1 .. i
                     /\ Hash(era[t][j].calls) = Hash(era[t][i].calls)
    BY DEF LetThrough
  <2>2. i \in Nat /\ \A j \in A : j \in Nat /\ j <= i /\ j >= i - WindowSize + 1
    BY <1>1, <1>2, <2>1
  <2> HIDE DEF A
  <2>3. CASE A = {}
    BY <1>2, <2>3, FS_EmptySet DEF A
  <2>4. CASE A # {}
    <3>1. B \in SUBSET Nat /\ B # {}
      BY <2>2, <2>4
    <3>2. PICK b \in B : \A c \in B : b <= c
      <4> HIDE DEF B
      <4> QED
        BY <3>1, Least
    <3>3. PICK m \in A : b = i - m
      OBVIOUS
    <3>4. \A j \in A : i - m <= i - j
      BY <3>2, <3>3
    <3>5. \A j \in A : j \in m - WindowSize + 1 .. m
      BY <1>2, <2>2, <3>4
    <3>6. A \subseteq Alike(t, m)
      BY <2>1, <3>5 DEF Alike
    <3>7. IsFiniteSet(Alike(t, m))
      <4>1. IsFiniteSet(1 .. Len(era[t]))
        BY <1>1, FS_Interval
      <4>2. Alike(t, m) \subseteq 1 .. Len(era[t])
        BY <1>1 DEF Alike
      <4> QED
        BY <4>1, <4>2, FS_Subset
    <3>8. Cardinality(Alike(t, m)) < StopAt
      BY <1>1, <2>1 DEF Guarded, Stopped
    <3>9. IsFiniteSet(A) /\ Cardinality(A) <= Cardinality(Alike(t, m))
      BY <3>6, <3>7, FS_Subset
    <3>10. Cardinality(A) \in Nat /\ Cardinality(Alike(t, m)) \in Nat
      BY <3>7, <3>9, FS_CardinalityType
    <3>11. Cardinality(A) < StopAt
      BY <1>2, <3>8, <3>9, <3>10
    <3> QED
      BY <3>11 DEF A
  <2> QED
    BY <2>3, <2>4
<1>4. LoopsAreBroken
  BY <1>1, <1>3 DEF LoopsAreBroken, Guarded, PassesCounted
<1>5. WarnedBeforeStop
  BY <1>1 DEF WarnedBeforeStop, Guarded, Warned, WarnedIn
<1> QED
  BY <1>4, <1>5 DEF LoopGuardHolds

\* No thread gets one set of calls past the detector StopAt times within a window, nor one
\* tool FreqStop times, and none is stopped without a warning since the detector knows it.
THEOREM LoopsGetNoFurther == LoopSpec => [](LoopTypeOK /\ LoopGuardHolds)
<1>1. LoopInv => LoopTypeOK /\ LoopGuardHolds
  BY LoopImplied DEF LoopInv
<1> QED
  BY <1>1, LoopInitially, LoopKeeps, PTL DEF LoopSpec

-----------------------------------------------------------------------------
(***************************************************************************)
(* The turns. What a request looks like after it was patched follows if    *)
(* the messages are settled: the calls of a message are answered right     *)
(* behind it, all of them in order, or not at all, and nothing else is an  *)
(* answer. This is inductive, since all tools of a response are one step.  *)
(* Questions wait because the model is called only after all of them were  *)
(* heard.                                                                  *)
(***************************************************************************)

\* c is a, and b behind it.
IsConcat(c, a, b) ==
    /\ Len(c) = Len(a) + Len(b)
    /\ \A k \in 1 .. Len(a) : c[k] = a[k]
    /\ \A k \in 1 .. Len(b) : c[Len(a) + k] = b[k]

\* Which every concatenation is.
LEMMA ConcatIs == ASSUME NEW S, NEW a \in Seq(S), NEW b \in Seq(S)
                  PROVE  a \o b \in Seq(S) /\ IsConcat(a \o b, a, b)
<1>1. a \o b \in Seq(S)
  OBVIOUS
<1>2. IsConcat(a \o b, a, b)
  BY DEF IsConcat
<1> QED
  BY <1>1, <1>2

\* f concatenates, for every i up to n, the first i sequences of ss.
Joins(f, ss, n) == f = [i \in 1 .. n |-> IF i = 1 THEN ss[i] ELSE f[i - 1] \o ss[i]]

JoinedAt(f, ss, i) == f[i] = IF i = 1 THEN ss[i] ELSE f[i - 1] \o ss[i]

\* What such an f computes.
LEMMA JoinsAt == ASSUME NEW ss, NEW n \in Nat, NEW f, Joins(f, ss, n)
                 PROVE  \A i \in 1 .. n : JoinedAt(f, ss, i)
<1> DEFINE h == [i \in 1 .. n |-> IF i = 1 THEN ss[i] ELSE f[i - 1] \o ss[i]]
<1>1. f = h
  BY DEF Joins
<1>2. \A i \in 1 .. n : h[i] = IF i = 1 THEN ss[i] ELSE f[i - 1] \o ss[i]
  OBVIOUS
<1> HIDE DEF h
<1> QED BY <1>1, <1>2 DEF JoinedAt

\* There is such an f.
LEMMA JoinsExists == ASSUME NEW ss PROVE \A n \in Nat : \E f : Joins(f, ss, n)
<1> DEFINE T == {n \in Nat : \E f : Joins(f, ss, n)}
<1>1. 0 \in T
  <2>1. Joins([i \in 1 .. 0 |-> ss[i]], ss, 0)
    BY DEF Joins
  <2> QED BY <2>1
<1>2. ASSUME NEW n \in Nat \ {0}, n - 1 \in T PROVE n \in T
  <2>1. PICK f : Joins(f, ss, n - 1)
    BY <1>2
  <2> DEFINE v == IF n = 1 THEN ss[n] ELSE f[n - 1] \o ss[n]
             g == [i \in 1 .. n |-> IF i = n THEN v ELSE f[i]]
  <2>2. /\ \A i \in 1 .. (n - 1) : g[i] = f[i]
        /\ g[n] = v /\ g = [i \in 1 .. n |-> g[i]]
    <3>1. \A i \in 1 .. (n - 1) : g[i] = f[i]
      OBVIOUS
    <3>2. n \in 1 .. n
      OBVIOUS
    <3>3. g[n] = v
      <4> HIDE DEF v
      <4> QED BY <3>2
    <3>4. g = [i \in 1 .. n |-> g[i]]
      OBVIOUS
    <3> QED BY <3>1, <3>3, <3>4
  <2>3. \A i \in 1 .. (n - 1) : JoinedAt(f, ss, i)
    <3>1. n - 1 \in Nat
      OBVIOUS
    <3> QED BY <2>1, <3>1, JoinsAt
  <2>4. ASSUME NEW i \in 1 .. n PROVE JoinedAt(g, ss, i)
    <3> HIDE DEF g
    <3>1. CASE i = n
      <4>1. n # 1 => g[n - 1] = f[n - 1]
        <5>1. n # 1 => n - 1 \in 1 .. (n - 1)
          OBVIOUS
        <5> QED BY <2>2, <5>1
      <4> QED BY <2>2, <3>1, <4>1 DEF JoinedAt
    <3>2. CASE i # n
      <4>1. i \in 1 .. (n - 1) /\ (i # 1 => i - 1 \in 1 .. (n - 1))
        BY <3>2
      <4> QED BY <2>2, <2>3, <4>1 DEF JoinedAt
    <3> QED BY <3>1, <3>2
  <2> HIDE DEF g
  <2>5. Joins(g, ss, n)
    BY <2>2, <2>4 DEF Joins, JoinedAt
  <2> QED BY <2>5
<1> HIDE DEF T
<1>3. T = Nat
  <2>1. T \in SUBSET Nat
    BY DEF T
  <2> QED BY <1>1, <1>2, <2>1, Induction
<1> QED BY <1>3 DEF T

\* Where each of the sequences begins, and that nothing is in between.
Offsets(off, ss, s) ==
    /\ off \in [0 .. Len(ss) -> Nat] /\ off[0] = 0
    /\ \A i \in 1 .. Len(ss) : off[i] = off[i - 1] + Len(ss[i]) /\ off[i] <= Len(s)
    /\ \A i \in 1 .. Len(ss) : \A k \in 1 .. Len(ss[i]) : s[off[i - 1] + k] = ss[i][k]
    /\ \A p \in 1 .. Len(s) : \E i \in 1 .. Len(ss) : \E k \in 1 .. Len(ss[i]) : p = off[i - 1] + k

\* So FlattenSeq puts the sequences one behind the other.
LEMMA FlattenSeqIs ==
  ASSUME NEW S, NEW ss \in Seq(Seq(S))
  PROVE  FlattenSeq(ss) \in Seq(S) /\ \E off : Offsets(off, ss, FlattenSeq(ss))
<1> DEFINE N == Len(ss)
<1>0. N \in Nat /\ \A i \in 1 .. N : ss[i] \in Seq(S) /\ Len(ss[i]) \in Nat
  OBVIOUS
<1>1. CASE N = 0
  <2>1. FlattenSeq(ss) = <<>> /\ ss = <<>>
    BY <1>1 DEF FlattenSeq
  <2>2. Offsets([i \in 0 .. 0 |-> 0], ss, <<>>)
    BY <2>1 DEF Offsets
  <2> QED BY <2>1, <2>2
<1>2. CASE N # 0
  <2> DEFINE f == CHOOSE f : Joins(f, ss, N)
  <2>1. Joins(f, ss, N)
    BY <1>0, JoinsExists
  <2>2. FlattenSeq(ss) = f[N]
    BY <1>2, Zenon DEF FlattenSeq, Joins
  <2> HIDE DEF f
  <2>3. \A i \in 1 .. N : JoinedAt(f, ss, i)
    BY <1>0, <2>1, JoinsAt
  <2> DEFINE off == [i \in 0 .. N |-> IF i = 0 THEN 0 ELSE Len(f[i])]
             Good(n) == /\ f[n] \in Seq(S)
                        /\ \A i \in 1 .. n : off[i] \in Nat /\ off[i] = off[i - 1] + Len(ss[i]) /\ off[i] <= Len(f[n])
                        /\ \A i \in 1 .. n : \A k \in 1 .. Len(ss[i]) : f[n][off[i - 1] + k] = ss[i][k]
                        /\ \A p \in 1 .. Len(f[n]) :
                              \E i \in 1 .. n : \E k \in 1 .. Len(ss[i]) : p = off[i - 1] + k
             T == {n \in Nat : n \in 1 .. N => Good(n)}
  <2>o. off[0] = 0 /\ (\A i \in 1 .. N : off[i] = Len(f[i])) /\ DOMAIN off = 0 .. N
    BY <1>0
  <2> HIDE DEF off
  <2>4. ASSUME NEW n \in Nat \ {0}, n - 1 \in T PROVE n \in T
    <3>1. SUFFICES ASSUME n \in 1 .. N PROVE Good(n)
      OBVIOUS
    <3>2. ss[n] \in Seq(S) /\ Len(ss[n]) \in Nat /\ off[n] = Len(f[n])
      BY <1>0, <2>o, <3>1
    <3>3. CASE n = 1
      <4>1. f[1] = ss[1]
        BY <2>3, <3>1, <3>3 DEF JoinedAt
      <4> QED BY <2>o, <3>2, <3>3, <4>1
    <3>4. CASE n # 1
      <4>0. n - 1 \in 1 .. N
        BY <1>0, <3>1, <3>4
      <4>1. n - 1 \in 1 .. N /\ Good(n - 1)
        BY <2>4, <4>0
      <4>2. f[n] = f[n - 1] \o ss[n]
        BY <2>3, <3>1, <3>4 DEF JoinedAt
      <4>3. off[n - 1] = Len(f[n - 1]) /\ Len(f[n - 1]) \in Nat
        BY <2>o, <4>1
      <4>4. /\ f[n] \in Seq(S) /\ Len(f[n]) = Len(f[n - 1]) + Len(ss[n])
            /\ \A p \in 1 .. Len(f[n - 1]) : f[n][p] = f[n - 1][p]
            /\ \A k \in 1 .. Len(ss[n]) : f[n][Len(f[n - 1]) + k] = ss[n][k]
        <5> DEFINE a == f[n - 1]
                   b == ss[n]
        <5>1. a \in Seq(S) /\ b \in Seq(S) /\ f[n] = a \o b
          BY <3>2, <4>1, <4>2
        <5> HIDE DEF a, b
        <5>2. /\ f[n] \in Seq(S) /\ Len(f[n]) = Len(a) + Len(b)
              /\ \A p \in 1 .. Len(a) : f[n][p] = a[p]
              /\ \A k \in 1 .. Len(b) : f[n][Len(a) + k] = b[k]
          BY <5>1
        <5> QED BY <5>2 DEF a, b
      <4> DEFINE x == Len(f[n - 1])
                 y == Len(f[n])
                 z == Len(ss[n])
      <4>a. /\ off[n] = y /\ off[n - 1] = x /\ y = x + z /\ x \in Nat /\ z \in Nat /\ y \in Nat
        <5>1. off[n] = y /\ z \in Nat
          BY <3>2
        <5>2. off[n - 1] = x /\ x \in Nat
          BY <4>3
        <5>3. y = x + z
          BY <4>4
        <5> HIDE DEF x, y, z
        <5> QED BY <5>1, <5>2, <5>3
      <4>b. \A k \in 1 .. z : f[n][x + k] = ss[n][k]
        BY <4>4
      <4> HIDE DEF x, y, z
      <4>5. ASSUME NEW i \in 1 .. n PROVE off[i] \in Nat /\ off[i] = off[i - 1] + Len(ss[i]) /\ off[i] <= y
        <5>2. CASE i = n
          <6>1. off[i] = y /\ off[i - 1] = x /\ Len(ss[i]) = z
            BY <4>a, <5>2 DEF z
          <6> QED BY <4>a, <6>1
        <5>3. CASE i # n
          <6>1. i \in 1 .. (n - 1)
            BY <5>3
          <6>2. off[i] \in Nat /\ off[i] = off[i - 1] + Len(ss[i]) /\ off[i] <= x
            BY <4>1, <6>1 DEF x
          <6> QED BY <4>a, <6>2
        <5> QED BY <5>2, <5>3
      <4>6. ASSUME NEW i \in 1 .. n, NEW k \in 1 .. Len(ss[i]) PROVE f[n][off[i - 1] + k] = ss[i][k]
        <5>1. CASE i = n
          BY <4>a, <4>b, <5>1 DEF z
        <5>2. CASE i # n
          <6>1. i \in 1 .. (n - 1) /\ i - 1 \in 0 .. N
            BY <3>1, <5>2
          <6>2. off[i] = off[i - 1] + Len(ss[i]) /\ off[i] <= Len(f[n - 1]) /\ f[n - 1][off[i - 1] + k] = ss[i][k]
            BY <4>1, <6>1
          <6>3. off[i - 1] \in Nat
            <7>1. CASE i = 1
              BY <2>o, <7>1
            <7>2. CASE i # 1
              <8>1. i - 1 \in 1 .. (n - 1)
                BY <6>1, <7>2
              <8> QED BY <4>1, <8>1
            <7> QED BY <7>1, <7>2
          <6>4. Len(ss[i]) \in Nat
            BY <1>0, <3>1, <6>1
          <6> DEFINE o == off[i - 1]
                     l == Len(ss[i])
          <6>5. o \in Nat /\ l \in Nat /\ o + l <= x /\ k \in 1 .. l
            BY <6>2, <6>3, <6>4 DEF x
          <6>6. o + k \in 1 .. x
            <7> HIDE DEF o, l
            <7> QED BY <4>a, <6>5
          <6> QED BY <4>4, <6>2, <6>6 DEF x
        <5> QED BY <5>1, <5>2
      <4>7. ASSUME NEW p \in 1 .. Len(f[n])
            PROVE  \E i \in 1 .. n : \E k \in 1 .. Len(ss[i]) : p = off[i - 1] + k
        <5>1. CASE p \in 1 .. Len(f[n - 1])
          <6>1. PICK i \in 1 .. (n - 1) : \E k \in 1 .. Len(ss[i]) : p = off[i - 1] + k
            BY <4>1, <5>1
          <6>2. i \in 1 .. n
            OBVIOUS
          <6> QED BY <6>1, <6>2
        <5>2. CASE p \notin 1 .. Len(f[n - 1])
          <6>0. p \in 1 .. y /\ p \notin 1 .. x
            BY <5>2 DEF x, y
          <6>1. p - x \in 1 .. z /\ p = off[n - 1] + (p - x)
            BY <4>a, <6>0
          <6>2. n \in 1 .. n
            BY <3>1
          <6> QED BY <6>1, <6>2 DEF z
        <5> QED BY <5>1, <5>2
      <4> HIDE DEF T
      <4> QED BY <4>4, <4>5, <4>6, <4>7 DEF y
    <3> QED BY <3>3, <3>4
  <2>5. 0 \in T /\ T \in SUBSET Nat
    OBVIOUS
  <2> HIDE DEF T
  <2>6. T = Nat
    BY <2>4, <2>5, Induction
  <2>7. Good(N)
    <3>1. N \in 1 .. N
      BY <1>0, <1>2
    <3>2. N \in T
      BY <1>0, <2>6
    <3>3. N \in 1 .. N => Good(N)
      <4> HIDE DEF Good
      <4> QED BY <3>2 DEF T
    <3> HIDE DEF Good
    <3> QED BY <3>1, <3>3
  <2>8. off \in [0 .. N -> Nat]
    <3>1. \A i \in 0 .. N : i = 0 \/ i \in 1 .. N
      BY <1>0
    <3>2. off = [i \in 0 .. N |-> off[i]]
      BY DEF off
    <3>3. \A i \in 0 .. N : off[i] \in Nat
      BY <2>7, <2>o, <3>1
    <3> QED BY <3>2, <3>3
  <2>9. Offsets(off, ss, f[N])
    BY <2>7, <2>8, <2>o DEF Offsets
  <2> QED BY <2>2, <2>7, <2>9
<1> QED BY <1>1, <1>2
-----------------------------------------------------------------------------
CallsMade == Nat \X Nat \X Tools
Messages == [type : {"human", "ai", "tool"}, id : Nat, text : Texts, calls : Seq(CallsMade), of : Nat \X Nat]

\* What is in a message.
LEMMA MessageIs == ASSUME NEW m \in Messages
                   PROVE  /\ m.type \in {"human", "ai", "tool"} /\ m.id \in Nat /\ m.text \in Texts
                          /\ m.calls \in Seq(CallsMade) /\ m.of \in Nat \X Nat
                          /\ Len(m.calls) \in Nat /\ DOMAIN m.calls = 1 .. Len(m.calls)
                          /\ \A k \in 1 .. Len(m.calls) : m.calls[k] \in CallsMade
BY DEF Messages

\* Nothing has answered the calls of message i.
Unanswered(ms, i) == \A k \in DOMAIN ms[i].calls : IdOf(ms[i].calls[k]) \notin Answered(ms)

\* The answers to the calls of message i stand right behind it.
Closed(ms, i) ==
    /\ i + Len(ms[i].calls) <= Len(ms)
    /\ \A k \in DOMAIN ms[i].calls : ms[i + k].type = "tool" /\ ms[i + k].of = IdOf(ms[i].calls[k])

Settled(ms) ==
    /\ \A i \in DOMAIN ms : Unanswered(ms, i) \/ Closed(ms, i)
    /\ \A j \in DOMAIN ms : ms[j].type = "tool" =>
          \E i \in DOMAIN ms : i < j /\ j <= i + Len(ms[i].calls) /\ Closed(ms, i)
    /\ \A i \in DOMAIN ms : \A k \in DOMAIN ms[i].calls :
          ms[i].type = "ai" /\ ms[i].calls[k][1] = ms[i].id

\* A call that was answered gets no placeholder, and others get one each.
LEMMA PlaceholdersAre ==
  ASSUME NEW m \in Messages, NEW done
  PROVE  /\ Placeholders(m, done) \in Seq(Messages)
         /\ \A k \in 1 .. Len(Placeholders(m, done)) :
               Placeholders(m, done)[k].type = "tool" /\ Placeholders(m, done)[k].calls = <<>>
         /\ (\A k \in DOMAIN m.calls : IdOf(m.calls[k]) \notin done) =>
               /\ Len(Placeholders(m, done)) = Len(m.calls)
               /\ \A k \in 1 .. Len(m.calls) : Placeholders(m, done)[k].of = IdOf(m.calls[k])
         /\ (\A k \in DOMAIN m.calls : IdOf(m.calls[k]) \in done) => Len(Placeholders(m, done)) = 0
<1> DEFINE K == {c \in ToSet(m.calls) : IdOf(c) \in done}
           open == Without(m.calls, K)
           one(c) == [type |-> "tool", id |-> 0, text |-> "said", calls |-> <<>>, of |-> IdOf(c)]
<1>1. IsWithout(open, m.calls, K, Len(m.calls), CallsMade)
  BY MessageIs, WithoutIs
<1>2. /\ open \in Seq(CallsMade) /\ DOMAIN open = 1 .. Len(open) /\ Len(open) \in Nat
      /\ \A k \in 1 .. Len(open) : open[k] \in CallsMade
  <2>1. open \in Seq(CallsMade)
    BY <1>1 DEF IsWithout
  <2> HIDE DEF open
  <2> QED BY <2>1
<1>3. Placeholders(m, done) = [k \in 1 .. Len(open) |-> one(open[k])]
  BY <1>2, Zenon DEF Placeholders
<1>4. \A c \in CallsMade : one(c) \in Messages /\ one(c).type = "tool" /\ one(c).calls = <<>> /\ one(c).of = IdOf(c)
  <2>1. \A c \in CallsMade : IdOf(c) \in Nat \X Nat
    BY DEF IdOf, CallsMade
  <2>2. "said" \in Texts /\ <<>> \in Seq(CallsMade)
    BY DEF Texts
  <2> HIDE DEF CallsMade
  <2> QED BY <2>1, <2>2 DEF Messages
<1> DEFINE P == [k \in 1 .. Len(open) |-> one(open[k])]
<1>5. /\ P \in Seq(Messages) /\ Len(P) = Len(open)
      /\ \A k \in 1 .. Len(open) : P[k].type = "tool" /\ P[k].calls = <<>> /\ P[k].of = IdOf(open[k])
  <2> HIDE DEF open, one
  <2>1. \A k \in 1 .. Len(open) : one(open[k]) \in Messages
    BY <1>2, <1>4
  <2>2. P \in Seq(Messages) /\ Len(P) = Len(open)
    BY <1>2, <2>1
  <2>3. \A k \in 1 .. Len(open) : P[k] = one(open[k])
    OBVIOUS
  <2> QED BY <1>2, <1>4, <2>2, <2>3
<1>6. ASSUME \A k \in DOMAIN m.calls : IdOf(m.calls[k]) \notin done
      PROVE  Len(open) = Len(m.calls) /\ \A k \in 1 .. Len(m.calls) : open[k] = m.calls[k]
  <2>1. \A j \in 1 .. Len(m.calls) : m.calls[j] \notin K
    BY <1>6, MessageIs
  <2> QED BY <1>1, <2>1 DEF IsWithout
<1>7. ASSUME \A k \in DOMAIN m.calls : IdOf(m.calls[k]) \in done
      PROVE  Len(open) = 0
  <2>1. \A j \in 1 .. Len(m.calls) : m.calls[j] \in K
    BY <1>7, MessageIs DEF ToSet
  <2>2. \A k \in 1 .. Len(open) : FALSE
    BY <1>1, <2>1 DEF IsWithout
  <2>3. Len(open) \in Nat
    BY <1>2
  <2> HIDE DEF open
  <2> QED BY <2>2, <2>3
<1> HIDE DEF P, open
<1> QED BY <1>3, <1>5, <1>6, <1>7 DEF P

\* What is sent is well formed, if what is kept is settled.
LEMMA PatchedWellFormed ==
  ASSUME NEW ms \in Seq(Messages), Settled(ms)
  PROVE  WellFormed(Patched(ms))
<1> DEFINE N == Len(ms)
           A == Answered(ms)
           Pl(i) == Placeholders(ms[i], A)
           ss == [i \in DOMAIN ms |-> <<ms[i]>> \o Pl(i)]
           F == FlattenSeq(ss)
<1>1. /\ N \in Nat /\ DOMAIN ms = 1 .. N /\ Patched(ms) = F
      /\ \A i \in 1 .. N : ms[i] \in Messages
  BY DEF Patched
<1>2. ASSUME NEW i \in 1 .. N
      PROVE  /\ Pl(i) \in Seq(Messages) /\ Len(Pl(i)) \in Nat
             /\ ss[i] \in Seq(Messages) /\ Len(ss[i]) = 1 + Len(Pl(i)) /\ ss[i][1] = ms[i]
             /\ \A k \in 1 .. Len(Pl(i)) : ss[i][1 + k] = Pl(i)[k]
  <2> DEFINE a == <<ms[i]>>
             b == Pl(i)
  <2>1. a \in Seq(Messages) /\ Len(a) = 1 /\ a[1] = ms[i]
    BY <1>1
  <2>2. b \in Seq(Messages) /\ ss[i] = a \o b
    BY <1>1, PlaceholdersAre
  <2>3. Len(b) \in Nat
    BY <2>2
  <2> HIDE DEF a, b, ss
  <2>4. /\ ss[i] \in Seq(Messages) /\ Len(ss[i]) = 1 + Len(b) /\ ss[i][1] = ms[i]
        /\ \A k \in 1 .. Len(b) : ss[i][1 + k] = b[k]
    <3>1. /\ a \o b \in Seq(Messages) /\ Len(a \o b) = Len(a) + Len(b)
          /\ \A k \in 1 .. Len(a) + Len(b) : (a \o b)[k] = IF k <= Len(a) THEN a[k] ELSE b[k - Len(a)]
      BY <2>1, <2>2, ConcatProperties
    <3>2. (a \o b)[1] = a[1]
      BY <2>1, <2>3, <3>1
    <3>3. \A k \in 1 .. Len(b) : (a \o b)[1 + k] = b[k]
      <4>1. TAKE k \in 1 .. Len(b)
      <4>2. 1 + k \in 1 .. Len(a) + Len(b) /\ ~(1 + k <= Len(a)) /\ (1 + k) - Len(a) = k
        BY <2>1, <2>3
      <4> QED BY <3>1, <4>2
    <3> QED BY <2>1, <2>2, <3>1, <3>2, <3>3
  <2> HIDE DEF Pl
  <2> QED BY <2>2, <2>3, <2>4 DEF b
<1>3. ss \in Seq(Seq(Messages)) /\ Len(ss) = N
  <2>1. DOMAIN ss = 1 .. N /\ \A i \in 1 .. N : ss[i] \in Seq(Messages)
    BY <1>1, <1>2
  <2>2. ss = [i \in 1 .. N |-> ss[i]]
    BY <1>1
  <2> HIDE DEF ss
  <2> QED BY <1>1, <2>1, <2>2
<1>4. F \in Seq(Messages) /\ \E off : Offsets(off, ss, F)
  <2> HIDE DEF ss
  <2> QED BY <1>3, FlattenSeqIs
<1> PICK off : Offsets(off, ss, F)
  BY <1>4
<1> HIDE DEF ss, F
<1>5. /\ DOMAIN F = 1 .. Len(F) /\ Len(F) \in Nat
      /\ \A i \in 0 .. N : off[i] \in Nat
      /\ \A i \in 1 .. N : off[i] = off[i - 1] + 1 + Len(Pl(i)) /\ off[i] <= Len(F)
  <2>1. DOMAIN F = 1 .. Len(F) /\ Len(F) \in Nat /\ \A i \in 0 .. N : off[i] \in Nat
    <3>1. off \in [0 .. Len(ss) -> Nat]
      BY DEF Offsets
    <3>2. \A i \in 0 .. N : off[i] \in Nat
      BY <1>3, <3>1
    <3>3. DOMAIN F = 1 .. Len(F) /\ Len(F) \in Nat
      BY <1>4
    <3> QED BY <3>2, <3>3
  <2>2. ASSUME NEW i \in 1 .. N PROVE off[i] = off[i - 1] + 1 + Len(Pl(i)) /\ off[i] <= Len(F)
    <3>1. off[i] = off[i - 1] + Len(ss[i]) /\ off[i] <= Len(F) /\ i - 1 \in 0 .. N
      BY <1>1, <1>3 DEF Offsets
    <3>2. Len(ss[i]) = 1 + Len(Pl(i)) /\ Len(Pl(i)) \in Nat /\ off[i - 1] \in Nat
      BY <1>2, <2>1, <3>1
    <3> QED BY SMTT(30), <3>1, <3>2
  <2> QED BY <2>1, <2>2
\* Where a message and its placeholders are in the request.
<1> DEFINE q(i) == off[i - 1] + 1
<1>6. ASSUME NEW i \in 1 .. N
      PROVE  /\ q(i) \in 1 .. Len(F) /\ F[q(i)] = ms[i]
             /\ \A k \in 1 .. Len(Pl(i)) : q(i) + k \in 1 .. Len(F) /\ F[q(i) + k] = Pl(i)[k]
  <2>1. /\ i - 1 \in 0 .. N /\ off[i - 1] \in Nat /\ off[i] = off[i - 1] + 1 + Len(Pl(i))
        /\ off[i] <= Len(F) /\ Len(Pl(i)) \in Nat
    BY <1>1, <1>2, <1>5
  <2>2. \A k \in 1 .. Len(ss[i]) : F[off[i - 1] + k] = ss[i][k]
    BY <1>3 DEF Offsets
  <2>3. 1 \in 1 .. Len(ss[i]) /\ \A k \in 1 .. Len(Pl(i)) : 1 + k \in 1 .. Len(ss[i])
    BY <1>2, <2>1
  <2>4. F[q(i)] = ms[i]
    BY <1>2, <2>2, <2>3
  <2>5. q(i) \in 1 .. Len(F)
    <3> HIDE DEF Pl
    <3> QED BY <1>5, <2>1
  <2>6. ASSUME NEW k \in 1 .. Len(Pl(i)) PROVE q(i) + k \in 1 .. Len(F) /\ F[q(i) + k] = Pl(i)[k]
    <3>1. F[off[i - 1] + (1 + k)] = Pl(i)[k]
      BY <1>2, <2>2, <2>3
    <3> HIDE DEF Pl
    <3> DEFINE o == off[i - 1]
               l == Len(Pl(i))
    <3>o. o \in Nat /\ l \in Nat /\ k \in 1 .. l /\ o + 1 + l <= Len(F) /\ Len(F) \in Nat
      BY <1>5, <2>1
    <3>2. off[i - 1] + (1 + k) = q(i) + k /\ q(i) + k \in 1 .. Len(F)
      <4>1. o + (1 + k) = o + 1 + k /\ o + 1 + k \in 1 .. Len(F)
        <5> HIDE DEF o, l
        <5> QED BY <3>o
      <4> QED BY <4>1
    <3> QED BY <3>1, <3>2
  <2> QED BY <2>4, <2>5, <2>6
<1>7. ASSUME NEW p \in 1 .. Len(F)
      PROVE  \E i \in 1 .. N : p = q(i) \/ \E k \in 1 .. Len(Pl(i)) : p = q(i) + k
  <2>1. PICK i \in 1 .. N : \E k \in 1 .. Len(ss[i]) : p = off[i - 1] + k
    <3>1. \E i \in 1 .. Len(ss) : \E k \in 1 .. Len(ss[i]) : p = off[i - 1] + k
      BY DEF Offsets
    <3> QED BY <1>3, <3>1
  <2>2. PICK k \in 1 .. Len(ss[i]) : p = off[i - 1] + k
    BY <2>1
  <2>3. Len(ss[i]) = 1 + Len(Pl(i)) /\ Len(Pl(i)) \in Nat /\ off[i - 1] \in Nat /\ k \in Nat
    <3>1. i - 1 \in 0 .. N
      BY <1>1
    <3>2. Len(Pl(i)) \in Nat
      BY <1>2
    <3> QED BY <1>2, <1>5, <3>1, <3>2
  <2>4. CASE k = 1
    BY <2>2, <2>4
  <2>5. CASE k # 1
    <3>1. k - 1 \in 1 .. Len(Pl(i)) /\ p = q(i) + (k - 1)
      <4> HIDE DEF Pl
      <4> QED BY <2>2, <2>3, <2>5
    <3> QED BY <3>1
  <2> QED BY <2>4, <2>5
\* A message that was answered has no placeholders, nor have its answers.
<1>8. ASSUME NEW i \in 1 .. N, Closed(ms, i)
      PROVE  \A k \in 1 .. Len(ms[i].calls) : i + k \in 1 .. N /\ q(i + k) = q(i) + k
  <2> DEFINE L == Len(ms[i].calls)
             T == {k \in Nat : k <= L => q(i + k) = q(i) + k}
  <2>1. L \in Nat /\ i + L <= N /\ DOMAIN ms[i].calls = 1 .. L
    BY <1>1, <1>8, MessageIs DEF Closed
  <2>2. \A k \in 1 .. L : ms[i + k].type = "tool" /\ ms[i + k].of = IdOf(ms[i].calls[k]) /\ i + k \in 1 .. N
    BY <1>1, <1>8, <2>1 DEF Closed
  <2>3. Len(Pl(i)) = 0
    <3>1. \A k \in DOMAIN ms[i].calls : IdOf(ms[i].calls[k]) \in A
      BY <1>1, <2>1, <2>2 DEF Answered
    <3> HIDE DEF A
    <3> QED BY <1>1, <3>1, PlaceholdersAre
  <2>4. \A k \in 1 .. L : Len(Pl(i + k)) = 0
    <3>1. TAKE k \in 1 .. L
    <3>2. i + k \in 1 .. N /\ ms[i + k] \in Messages /\ ms[i + k].type # "ai"
      BY <1>1, <2>2
    <3>3. \A j \in DOMAIN ms[i + k].calls : FALSE
      BY <1>1, <3>2 DEF Settled
    <3> HIDE DEF A
    <3> QED BY <3>2, <3>3, PlaceholdersAre
  <2>5. 0 \in T
    <3>1. i + 0 = i /\ q(i) + 0 = q(i)
      BY <1>1, <1>5
    <3> HIDE DEF q
    <3> QED BY <3>1
  <2>6. ASSUME NEW k \in Nat \ {0}, k - 1 \in T PROVE k \in T
    <3>1. SUFFICES ASSUME k <= L PROVE q(i + k) = q(i) + k
      OBVIOUS
    <3>2. q(i + (k - 1)) = q(i) + (k - 1)
      BY <2>1, <2>6, <3>1
    <3>3. i + (k - 1) \in 1 .. N /\ Len(Pl(i + (k - 1))) = 0
      <4>1. CASE k = 1
        BY <1>1, <2>3, <4>1
      <4>2. CASE k # 1
        <5>1. k - 1 \in 1 .. L
          BY <2>1, <3>1, <4>2
        <5> QED BY <2>2, <2>4, <5>1
      <4> QED BY <4>1, <4>2
    <3> DEFINE j == i + (k - 1)
    <3>4. off[j] = off[j - 1] + 1 + 0 /\ off[j - 1] \in Nat
      <4>1. j \in 1 .. N /\ j - 1 \in 0 .. N /\ Len(Pl(j)) = 0
        BY <1>1, <3>3
      <4> HIDE DEF j
      <4> QED BY <1>5, <4>1
    <3>5. (i + k) - 1 = j
      BY <1>1
    <3>6. i - 1 \in 0 .. N /\ off[i - 1] \in Nat
      BY <1>1, <1>5
    <3> QED BY SMTT(30), <3>2, <3>4, <3>5, <3>6
  <2> HIDE DEF T
  <2>7. T = Nat
    <3>1. T \in SUBSET Nat
      BY DEF T
    <3> QED BY <2>5, <2>6, <3>1, Induction
  <2>8. ASSUME NEW k \in 1 .. L PROVE q(i + k) = q(i) + k
    <3>1. k \in T /\ k <= L
      BY <2>1, <2>7
    <3> HIDE DEF q, L
    <3> QED BY <3>1 DEF T
  <2> QED BY <2>2, <2>8
\* So the answers to a message stand right behind it, in the request.
<1>9. ASSUME NEW i \in 1 .. N, NEW k \in 1 .. Len(ms[i].calls)
      PROVE  q(i) + k \in 1 .. Len(F) /\ F[q(i) + k].of = IdOf(ms[i].calls[k])
  <2>1. ms[i].calls \in Seq(CallsMade) /\ DOMAIN ms[i].calls = 1 .. Len(ms[i].calls) /\ i \in DOMAIN ms
    BY <1>1, MessageIs
  <2>2. CASE Closed(ms, i)
    <3>1. i + k \in 1 .. N /\ q(i + k) = q(i) + k
      BY <1>8, <2>2
    <3>2. ms[i + k].of = IdOf(ms[i].calls[k])
      BY <2>1, <2>2 DEF Closed
    <3>3. q(i + k) \in 1 .. Len(F) /\ F[q(i + k)] = ms[i + k]
      BY <1>6, <3>1
    <3> HIDE DEF q
    <3> QED BY <3>1, <3>2, <3>3
  <2>3. CASE Unanswered(ms, i)
    <3>1. Len(Pl(i)) = Len(ms[i].calls) /\ Pl(i)[k].of = IdOf(ms[i].calls[k])
      BY <1>1, <2>3, PlaceholdersAre DEF Unanswered
    <3> HIDE DEF q, Pl
    <3> QED BY <1>6, <3>1
  <2> QED BY <2>1, <2>2, <2>3 DEF Settled
<1>10. ASSUME NEW p \in DOMAIN F
       PROVE  /\ Block(F, p) \subseteq DOMAIN F
              /\ {IdOf(F[p].calls[k]) : k \in DOMAIN F[p].calls} = {F[j].of : j \in Block(F, p)}
  <2>1. PICK i \in 1 .. N : p = q(i) \/ \E k \in 1 .. Len(Pl(i)) : p = q(i) + k
    BY <1>5, <1>7
  <2>2. CASE p = q(i)
    <3> DEFINE L == Len(ms[i].calls)
    <3>1. F[p] = ms[i] /\ DOMAIN ms[i].calls = 1 .. L /\ L \in Nat /\ p \in Int
      BY <1>1, <1>5, <1>6, <2>2, MessageIs
    <3>2. Block(F, p) = {p + k : k \in 1 .. L}
      <4>1. Block(F, p) = (p + 1) .. (p + L)
        BY <3>1 DEF Block
      <4>2. ASSUME NEW x \in (p + 1) .. (p + L) PROVE x \in {p + k : k \in 1 .. L}
        <5>1. x - p \in 1 .. L /\ p + (x - p) = x
          BY <3>1
        <5> QED BY <5>1
      <4>3. ASSUME NEW k \in 1 .. L PROVE p + k \in (p + 1) .. (p + L)
        BY <3>1
      <4> QED BY <4>1, <4>2, <4>3
    <3>3. \A k \in 1 .. L : p + k \in DOMAIN F /\ F[p + k].of = IdOf(ms[i].calls[k])
      <4> HIDE DEF q
      <4> QED BY <1>5, <1>9, <2>2
    <3> HIDE DEF L
    <3>4. {F[j].of : j \in Block(F, p)} = {F[p + k].of : k \in 1 .. L}
      BY <3>2
    <3>5. {F[p + k].of : k \in 1 .. L} = {IdOf(ms[i].calls[k]) : k \in 1 .. L}
      BY <3>3
    <3> QED BY ZenonT(30), <3>1, <3>2, <3>3, <3>4, <3>5
  <2>3. ASSUME NEW k \in 1 .. Len(Pl(i)), p = q(i) + k
        PROVE  /\ Block(F, p) \subseteq DOMAIN F
               /\ {IdOf(F[p].calls[h]) : h \in DOMAIN F[p].calls} = {F[j].of : j \in Block(F, p)}
    <3>1. F[p].calls = <<>>
      <4>1. F[q(i) + k] = Pl(i)[k]
        BY <1>6
      <4>2. Pl(i)[k].calls = <<>>
        BY <1>1, PlaceholdersAre
      <4> QED BY <2>3, <4>1, <4>2
    <3>2. Block(F, p) = {} /\ DOMAIN F[p].calls = {}
      <4>1. p \in Int /\ Len(F[p].calls) = 0
        BY <1>5, <3>1
      <4>2. (p + 1) .. (p + 0) = {}
        BY <4>1
      <4> QED BY <3>1, <4>1, <4>2 DEF Block
    <3> QED BY <3>2
  <2> QED BY <2>1, <2>2, <2>3
<1>11. ASSUME NEW p \in DOMAIN F, F[p].type = "tool"
       PROVE  \E r \in DOMAIN F : F[r].type = "ai" /\ p \in Block(F, r)
  <2>1. PICK i \in 1 .. N : p = q(i) \/ \E k \in 1 .. Len(Pl(i)) : p = q(i) + k
    BY <1>5, <1>7
  <2>2. PICK h \in 1 .. N : \E k \in 1 .. Len(ms[h].calls) : p = q(h) + k
    <3>1. CASE p = q(i)
      <4>1. F[p] = ms[i]
        BY <1>6, <3>1
      <4>2. PICK h \in 1 .. N : h < i /\ i <= h + Len(ms[h].calls) /\ Closed(ms, h)
        BY <1>1, <1>11, <4>1 DEF Settled
      <4>3. i - h \in 1 .. Len(ms[h].calls) /\ h + (i - h) = i
        BY <1>1, <4>2, MessageIs
      <4>4. q(h + (i - h)) = q(h) + (i - h)
        BY <1>8, <4>2, <4>3
      <4> HIDE DEF q
      <4> QED BY <3>1, <4>3, <4>4
    <3>2. ASSUME NEW k \in 1 .. Len(Pl(i)), p = q(i) + k
          PROVE  \E g \in 1 .. N : \E j \in 1 .. Len(ms[g].calls) : p = q(g) + j
      <4>1. Unanswered(ms, i)
        <5>1. SUFFICES ASSUME Closed(ms, i) PROVE FALSE
          BY <1>1 DEF Settled
        <5>2. \A j \in DOMAIN ms[i].calls : IdOf(ms[i].calls[j]) \in A
          <6>1. TAKE j \in DOMAIN ms[i].calls
          <6>2. ms[i + j].type = "tool" /\ ms[i + j].of = IdOf(ms[i].calls[j]) /\ i + j \in DOMAIN ms
            <7>1. j \in 1 .. Len(ms[i].calls)
              BY <1>1, MessageIs
            <7> HIDE DEF q
            <7> QED BY <1>1, <1>8, <5>1, <7>1 DEF Closed
          <6> QED BY <6>2 DEF Answered
        <5>3. Len(Pl(i)) = 0
          <6> HIDE DEF A
          <6> QED BY <1>1, <5>2, PlaceholdersAre
        <5> QED BY <5>3
      <4>2. Len(Pl(i)) = Len(ms[i].calls)
        BY <1>1, <4>1, PlaceholdersAre DEF Unanswered
      <4> QED BY <3>2, <4>2
    <3> QED BY <2>1, <3>1, <3>2
  <2>3. PICK k \in 1 .. Len(ms[h].calls) : p = q(h) + k
    BY <2>2
  <2>4. ms[h].type = "ai" /\ F[q(h)] = ms[h] /\ q(h) \in DOMAIN F
    <3>1. k \in DOMAIN ms[h].calls
      BY <1>1, MessageIs
    <3>2. ms[h].type = "ai"
      BY <1>1, <3>1 DEF Settled
    <3> QED BY <1>5, <1>6, <3>2
  <2>5. p \in Block(F, q(h))
    <3> HIDE DEF q
    <3>1. q(h) \in Int /\ Len(F[q(h)].calls) = Len(ms[h].calls) /\ Len(ms[h].calls) \in Nat
      BY <1>1, <1>5, <2>4, MessageIs
    <3> QED BY <2>3, <3>1 DEF Block
  <2> QED BY <2>4, <2>5
<1> QED
  <2>1. WellFormed(F)
    BY <1>10, <1>11 DEF WellFormed
  <2> QED BY <1>1, <2>1

-----------------------------------------------------------------------------
\* Messages have ids of their own.
Identified(ms, n) ==
    /\ ms \in Seq(Messages)
    /\ \A i \in DOMAIN ms : ms[i].id \in 1 .. n
    /\ \A i, j \in DOMAIN ms : ms[i].id = ms[j].id => i = j

\* An answer is that of a message there is.
LEMMA AnsweredKnown ==
  ASSUME NEW ms \in Seq(Messages), Settled(ms), NEW o \in Answered(ms)
  PROVE  \E i \in DOMAIN ms : \E k \in DOMAIN ms[i].calls : o = IdOf(ms[i].calls[k]) /\ o[1] = ms[i].id
<1>1. PICK j \in DOMAIN ms : ms[j].type = "tool" /\ ms[j].of = o
  BY DEF Answered
<1>2. PICK i \in DOMAIN ms : i < j /\ j <= i + Len(ms[i].calls) /\ Closed(ms, i)
  BY <1>1 DEF Settled
<1>3. j - i \in 1 .. Len(ms[i].calls) /\ i + (j - i) = j /\ ms[i] \in Messages
  BY <1>2, MessageIs
<1>4. j - i \in DOMAIN ms[i].calls
  BY <1>3, MessageIs
<1>5. o = IdOf(ms[i].calls[j - i])
  BY <1>1, <1>2, <1>3, <1>4 DEF Closed
<1>6. ms[i].calls[j - i][1] = ms[i].id
  BY <1>4 DEF Settled
<1> QED BY <1>4, <1>5, <1>6 DEF IdOf

\* Another message, that is no answer, leaves the others settled.
LEMMA AppendedSettled ==
  ASSUME NEW n \in Nat, NEW ms, Identified(ms, n), Settled(ms), NEW m \in Messages,
         m.type # "tool", m.id = n + 1,
         \A k \in DOMAIN m.calls : m.type = "ai" /\ m.calls[k][1] = m.id
  PROVE  Identified(Append(ms, m), n + 1) /\ Settled(Append(ms, m))
<1> DEFINE N == Len(ms)
           new == Append(ms, m)
<1>1. /\ N \in Nat /\ ms \in Seq(Messages) /\ new \in Seq(Messages) /\ DOMAIN ms = 1 .. N
      /\ Len(new) = N + 1 /\ DOMAIN new = 1 .. (N + 1)
      /\ new[N + 1] = m /\ \A i \in 1 .. N : new[i] = ms[i] /\ ms[i] \in Messages
  BY DEF Identified
<1>2. \A i \in 1 .. (N + 1) : i \in 1 .. N \/ i = N + 1
  BY <1>1
<1> HIDE DEF new
<1>3. Identified(new, n + 1)
  <2>1. \A i \in 1 .. N : ms[i].id \in 1 .. n
    BY <1>1 DEF Identified
  <2>2. \A i \in 1 .. (N + 1) : new[i].id \in 1 .. (n + 1)
    BY <1>1, <1>2, <2>1
  <2>3. ASSUME NEW i \in 1 .. (N + 1), NEW j \in 1 .. (N + 1), new[i].id = new[j].id PROVE i = j
    <3>1. \A h \in 1 .. N : new[h].id # n + 1
      BY <1>1, <2>1
    <3>2. CASE i \in 1 .. N /\ j \in 1 .. N
      BY <1>1, <2>3, <3>2 DEF Identified
    <3> QED BY <1>1, <1>2, <2>3, <3>1, <3>2
  <2> QED BY <1>1, <2>2, <2>3 DEF Identified
<1>4. Answered(new) = Answered(ms)
  BY <1>1, <1>2 DEF Answered
<1>5. ASSUME NEW i \in 1 .. N PROVE Closed(ms, i) => Closed(new, i)
  <2>1. SUFFICES ASSUME Closed(ms, i) PROVE Closed(new, i)
    OBVIOUS
  <2>2. /\ Len(ms[i].calls) \in Nat /\ DOMAIN ms[i].calls = 1 .. Len(ms[i].calls)
        /\ new[i] = ms[i] /\ i + Len(ms[i].calls) <= N
    BY <1>1, <2>1, MessageIs DEF Closed
  <2>3. \A k \in DOMAIN ms[i].calls : i + k \in 1 .. N
    BY <1>1, <2>2
  <2>4. \A k \in DOMAIN ms[i].calls : new[i + k] = ms[i + k]
    BY <1>1, <2>3
  <2>5. i + Len(ms[i].calls) <= Len(new)
    BY <1>1, <2>2
  <2> QED BY <2>1, <2>2, <2>4, <2>5 DEF Closed
<1>6. Unanswered(new, N + 1)
  <2>1. SUFFICES ASSUME NEW k \in DOMAIN m.calls, IdOf(m.calls[k]) \in Answered(ms) PROVE FALSE
    BY <1>1, <1>4 DEF Unanswered
  <2>2. PICK i \in DOMAIN ms : IdOf(m.calls[k])[1] = ms[i].id
    BY <1>1, <2>1, AnsweredKnown
  <2>3. ms[i].id \in 1 .. n
    BY <2>2 DEF Identified
  <2> QED BY <2>2, <2>3 DEF IdOf
<1>7. \A i \in 1 .. (N + 1) : Unanswered(new, i) \/ Closed(new, i)
  <2>1. \A i \in 1 .. N : Unanswered(new, i) \/ Closed(new, i)
    BY <1>1, <1>4, <1>5 DEF Settled, Unanswered
  <2> QED BY <1>2, <1>6, <2>1
<1>8. ASSUME NEW j \in 1 .. (N + 1), new[j].type = "tool"
      PROVE  \E i \in 1 .. (N + 1) : i < j /\ j <= i + Len(new[i].calls) /\ Closed(new, i)
  <2>1. j \in 1 .. N /\ ms[j].type = "tool"
    BY <1>1, <1>2, <1>8
  <2>2. PICK i \in 1 .. N : i < j /\ j <= i + Len(ms[i].calls) /\ Closed(ms, i)
    BY <1>1, <2>1 DEF Settled
  <2>3. i \in 1 .. (N + 1) /\ new[i] = ms[i] /\ Closed(new, i)
    BY <1>1, <1>5, <2>2
  <2> QED BY <2>2, <2>3
<1>9. \A i \in 1 .. (N + 1) : \A k \in DOMAIN new[i].calls : new[i].type = "ai" /\ new[i].calls[k][1] = new[i].id
  BY <1>1, <1>2 DEF Settled
<1> QED BY <1>1, <1>3, <1>7, <1>8, <1>9 DEF Settled, new

\* So does a change of the last message, if it loses calls.
LEMMA ReplacedSettled ==
  ASSUME NEW n \in Nat, NEW ms, Identified(ms, n), Settled(ms), ms # <<>>, Last(ms).type = "ai",
         NEW m \in Messages, m.type = "ai", m.id = Last(ms).id,
         \A k \in DOMAIN m.calls : \E j \in DOMAIN Last(ms).calls : m.calls[k] = Last(ms).calls[j]
  PROVE  Identified(Append(Front(ms), m), n) /\ Settled(Append(Front(ms), m))
<1> DEFINE N == Len(ms)
           new == Append(Front(ms), m)
<1>1. /\ N \in Nat \ {0} /\ ms \in Seq(Messages) /\ DOMAIN ms = 1 .. N /\ Last(ms) = ms[N]
      /\ \A i \in 1 .. N : ms[i] \in Messages
  BY DEF Identified, Last
<1>2. /\ Front(ms) \in Seq(Messages) /\ Len(Front(ms)) = N - 1
      /\ \A i \in 1 .. (N - 1) : Front(ms)[i] = ms[i]
  BY <1>1 DEF Front
<1>3. /\ new \in Seq(Messages) /\ Len(new) = N /\ DOMAIN new = 1 .. N
      /\ new[N] = m /\ \A i \in 1 .. (N - 1) : new[i] = ms[i]
  <2> DEFINE f == Front(ms)
  <2>1. f \in Seq(Messages) /\ Len(f) = N - 1 /\ N - 1 \in Nat /\ N \in Nat
    BY <1>1, <1>2
  <2> HIDE DEF f
  <2>2. /\ Append(f, m) \in Seq(Messages) /\ Len(Append(f, m)) = Len(f) + 1 /\ Append(f, m)[Len(f) + 1] = m
        /\ \A i \in 1 .. Len(f) : Append(f, m)[i] = f[i]
    BY <2>1
  <2>3. Len(f) + 1 = N
    <3> HIDE DEF N
    <3> QED BY <2>1
  <2> QED BY <1>2, <2>1, <2>2, <2>3 DEF f
<1>4. (\A i \in 1 .. N : i \in 1 .. (N - 1) \/ i = N) /\ \A i \in 1 .. (N - 1) : i \in 1 .. N
  <2>1. N \in Nat
    BY <1>1
  <2> HIDE DEF N
  <2> QED BY <2>1
<1> HIDE DEF new
<1>5. \A i \in 1 .. N : new[i].id = ms[i].id /\ new[i].type = ms[i].type
  BY <1>1, <1>3, <1>4
<1>6. Identified(new, n)
  BY <1>1, <1>3, <1>5 DEF Identified
<1>7. Answered(new) = Answered(ms)
  <2>1. \A i \in 1 .. N : new[i].type = "tool" => new[i] = ms[i]
    BY <1>3, <1>4
  <2> QED BY <1>1, <1>3, <1>5, <2>1 DEF Answered
<1>8. ASSUME NEW i \in 1 .. (N - 1), Closed(ms, i) PROVE Closed(new, i)
  <2>1. /\ Len(ms[i].calls) \in Nat /\ DOMAIN ms[i].calls = 1 .. Len(ms[i].calls)
        /\ new[i] = ms[i] /\ i + Len(ms[i].calls) <= N /\ i \in 1 .. N
    <3>1. i \in 1 .. N /\ new[i] = ms[i] /\ ms[i] \in Messages
      BY <1>1, <1>3, <1>4
    <3> QED BY <1>8, <3>1, MessageIs DEF Closed
  <2>2. \A k \in DOMAIN ms[i].calls : ms[i + k].type = "tool" /\ i + k \in 1 .. N
    BY <1>1, <1>8, <2>1 DEF Closed
  <2>3. \A k \in DOMAIN ms[i].calls : new[i + k] = ms[i + k]
    BY <1>1, <1>3, <1>4, <2>2
  <2> QED BY <1>3, <1>8, <2>1, <2>3 DEF Closed
<1>9. Unanswered(ms, N)
  <2>1. SUFFICES ASSUME Closed(ms, N) PROVE DOMAIN ms[N].calls = {}
    BY <1>1 DEF Settled, Unanswered
  <2>2. N + Len(ms[N].calls) <= N /\ Len(ms[N].calls) \in Nat /\ DOMAIN ms[N].calls = 1 .. Len(ms[N].calls)
    BY <1>1, <2>1, MessageIs DEF Closed
  <2> QED BY <1>1, <2>2
<1>10. \A i \in 1 .. N : Unanswered(new, i) \/ Closed(new, i)
  <2>1. \A i \in 1 .. (N - 1) : Unanswered(new, i) \/ Closed(new, i)
    <3>1. TAKE i \in 1 .. (N - 1)
    <3>2. i \in 1 .. N /\ new[i] = ms[i]
      BY <1>3, <1>4
    <3>3. Unanswered(ms, i) \/ Closed(ms, i)
      BY <1>1, <3>2 DEF Settled
    <3>4. CASE Unanswered(ms, i)
      BY <1>7, <3>2, <3>4 DEF Unanswered
    <3> QED BY <1>8, <3>3, <3>4
  <2>2. Unanswered(new, N)
    BY <1>1, <1>3, <1>7, <1>9 DEF Unanswered
  <2> QED BY <1>4, <2>1, <2>2
<1>11. ASSUME NEW j \in 1 .. N, new[j].type = "tool"
       PROVE  \E i \in 1 .. N : i < j /\ j <= i + Len(new[i].calls) /\ Closed(new, i)
  <2>1. ms[j].type = "tool"
    BY <1>5, <1>11
  <2>2. PICK i \in 1 .. N : i < j /\ j <= i + Len(ms[i].calls) /\ Closed(ms, i)
    BY <1>1, <2>1 DEF Settled
  <2>3. i \in 1 .. (N - 1)
    BY <1>1, <2>2
  <2> QED BY <1>3, <1>8, <2>2, <2>3
<1>12. \A i \in 1 .. N : \A k \in DOMAIN new[i].calls : new[i].type = "ai" /\ new[i].calls[k][1] = new[i].id
  <2>1. \A i \in 1 .. (N - 1) : \A k \in DOMAIN new[i].calls : new[i].type = "ai" /\ new[i].calls[k][1] = new[i].id
    <3>1. TAKE i \in 1 .. (N - 1)
    <3>2. i \in 1 .. N /\ new[i] = ms[i]
      BY <1>3, <1>4
    <3> QED BY <1>1, <3>2 DEF Settled
  <2>2. \A k \in DOMAIN m.calls : m.calls[k][1] = m.id
    BY <1>1 DEF Settled
  <2> QED BY <1>3, <1>4, <2>1, <2>2
<1> QED BY <1>3, <1>6, <1>10, <1>11, <1>12 DEF Settled, new

\* And so do the answers to the calls of the last message.
LEMMA AnsweredSettled ==
  ASSUME NEW n \in Nat, NEW ms, Identified(ms, n), Settled(ms), ms # <<>>,
         NEW as \in Seq(Messages), Len(as) = Len(Last(ms).calls),
         \A k \in 1 .. Len(as) : /\ as[k].type = "tool" /\ as[k].calls = <<>>
                                 /\ as[k].of = IdOf(Last(ms).calls[k]) /\ as[k].id = n + k
  PROVE  Identified(ms \o as, n + Len(as)) /\ Settled(ms \o as)
<1> DEFINE N == Len(ms)
           L == Len(as)
           new == ms \o as
<1>1. /\ N \in Nat /\ N \in 1 .. N /\ ms \in Seq(Messages) /\ DOMAIN ms = 1 .. N /\ Last(ms) = ms[N]
      /\ \A i \in 1 .. N : ms[i] \in Messages
  BY DEF Identified, Last
<1>2. /\ L \in Nat /\ L = Len(ms[N].calls) /\ DOMAIN ms[N].calls = 1 .. L
      /\ \A k \in 1 .. L : as[k].of = IdOf(ms[N].calls[k])
  BY <1>1, MessageIs
<1>3. /\ new \in Seq(Messages) /\ Len(new) = N + L /\ DOMAIN new = 1 .. (N + L)
      /\ \A i \in 1 .. N : new[i] = ms[i]
      /\ \A k \in 1 .. L : new[N + k] = as[k] /\ N + k \in 1 .. (N + L)
  <2>1. new \in Seq(Messages) /\ IsConcat(new, ms, as)
    BY <1>1, ConcatIs
  <2>2. DOMAIN new = 1 .. Len(new)
    <3>1. new \in Seq(Messages)
      BY <2>1
    <3> HIDE DEF new
    <3> QED BY <3>1
  <2> HIDE DEF new
  <2>3. Len(new) = N + L /\ (\A i \in 1 .. N : new[i] = ms[i]) /\ \A k \in 1 .. L : new[N + k] = as[k]
    BY <2>1 DEF IsConcat
  <2>4. \A k \in 1 .. L : N + k \in 1 .. (N + L)
    <3> HIDE DEF N, L
    <3> QED BY <1>1, <1>2
  <2> QED BY <2>1, <2>2, <2>3, <2>4
<1>4. \A i \in 1 .. (N + L) : i \in 1 .. N \/ \E k \in 1 .. L : i = N + k
  <2> HIDE DEF N, L
  <2>1. TAKE i \in 1 .. (N + L)
  <2>2. i \notin 1 .. N => i - N \in 1 .. L /\ i = N + (i - N)
    BY <1>1, <1>2
  <2> QED BY <2>2
<1>5. \A i \in 1 .. N : i \in 1 .. (N + L) /\ ms[i].id \in 1 .. n
  <2>1. \A i \in 1 .. N : ms[i].id \in 1 .. n
    BY <1>1 DEF Identified
  <2> HIDE DEF N, L
  <2> QED BY <1>1, <1>2, <2>1
<1>6. \A k \in 1 .. L : /\ as[k].type = "tool" /\ as[k].calls = <<>> /\ as[k].id = n + k
  OBVIOUS
<1> HIDE DEF new, N, L
<1>7. Identified(new, n + L)
  <2>1. ASSUME NEW i \in 1 .. (N + L) PROVE new[i].id \in 1 .. (n + L)
    <3>1. CASE i \in 1 .. N
      BY <1>2, <1>3, <1>5, <3>1
    <3>2. ASSUME NEW k \in 1 .. L, i = N + k PROVE new[i].id \in 1 .. (n + L)
      <4>1. new[i].id = n + k
        BY <1>3, <1>6, <3>2
      <4> QED BY <1>2, <4>1
    <3> QED BY <1>4, <3>1, <3>2
  <2>2. ASSUME NEW i \in 1 .. (N + L), NEW j \in 1 .. (N + L), new[i].id = new[j].id PROVE i = j
    <3>1. CASE i \in 1 .. N /\ j \in 1 .. N
      BY <1>1, <1>3, <2>2, <3>1 DEF Identified
    <3>2. ASSUME NEW a \in 1 .. N, NEW k \in 1 .. L PROVE new[a].id # new[N + k].id
      <4>1. new[a].id \in 1 .. n /\ new[N + k].id = n + k
        BY <1>3, <1>5, <1>6
      <4> QED BY <1>2, <4>1
    <3>3. ASSUME NEW h \in 1 .. L, NEW k \in 1 .. L, new[N + h].id = new[N + k].id PROVE h = k
      <4>1. n + h = n + k
        BY <1>3, <1>6, <3>3
      <4> QED BY <1>2, <4>1
    <3> QED BY <1>4, <2>2, <3>1, <3>2, <3>3
  <2> QED BY <1>3, <2>1, <2>2 DEF Identified
\* The ids of the answers are those of the calls of the last message.
<1>8. ASSUME NEW o, o \in Answered(new) PROVE o \in Answered(ms) \/ o[1] = ms[N].id
  <2>1. PICK j \in 1 .. (N + L) : new[j].type = "tool" /\ new[j].of = o
    BY <1>3, <1>8 DEF Answered
  <2>2. CASE j \in 1 .. N
    BY <1>1, <1>3, <2>1, <2>2 DEF Answered
  <2>3. ASSUME NEW k \in 1 .. L, j = N + k PROVE o[1] = ms[N].id
    <3>1. o = IdOf(ms[N].calls[k])
      BY <1>2, <1>3, <2>1, <2>3
    <3>2. ms[N].calls[k][1] = ms[N].id
      BY <1>1, <1>2 DEF Settled
    <3> QED BY <3>1, <3>2 DEF IdOf
  <2> QED BY <1>4, <2>1, <2>2, <2>3
<1>9. ASSUME NEW i \in 1 .. N, Closed(ms, i) PROVE Closed(new, i)
  <2>1. /\ Len(ms[i].calls) \in Nat /\ DOMAIN ms[i].calls = 1 .. Len(ms[i].calls)
        /\ new[i] = ms[i] /\ i + Len(ms[i].calls) <= N
    BY <1>1, <1>3, <1>9, MessageIs DEF Closed, N
  <2>2. \A k \in DOMAIN ms[i].calls : i + k \in 1 .. N /\ new[i + k] = ms[i + k]
    BY <1>1, <1>3, <2>1
  <2>3. i + Len(ms[i].calls) <= Len(new)
    BY <1>1, <1>2, <1>3, <2>1
  <2> QED BY <1>9, <2>1, <2>2, <2>3 DEF Closed
<1>10. Closed(new, N)
  <2>1. new[N] = ms[N] /\ N + Len(ms[N].calls) <= Len(new)
    BY <1>1, <1>2, <1>3
  <2>2. \A k \in DOMAIN ms[N].calls : new[N + k].type = "tool" /\ new[N + k].of = IdOf(ms[N].calls[k])
    BY <1>2, <1>3, <1>6
  <2> QED BY <2>1, <2>2 DEF Closed
<1>11. ASSUME NEW i \in 1 .. (N + L) PROVE Unanswered(new, i) \/ Closed(new, i)
  <2>1. CASE i \in 1 .. N /\ i # N
    <3>1. CASE Closed(ms, i)
      BY <1>9, <2>1, <3>1
    <3>2. CASE Unanswered(ms, i)
      <4>1. SUFFICES ASSUME NEW k \in DOMAIN ms[i].calls, IdOf(ms[i].calls[k]) \in Answered(new) PROVE FALSE
        BY <1>3, <2>1 DEF Unanswered
      <4>2. IdOf(ms[i].calls[k])[1] = ms[i].id
        BY <1>1, <2>1 DEF Settled, IdOf
      <4>3. ms[i].id # ms[N].id
        BY <1>1, <2>1 DEF Identified
      <4> QED BY <1>8, <3>2, <4>1, <4>2, <4>3 DEF Unanswered
    <3> QED BY <1>1, <2>1, <3>1, <3>2 DEF Settled
  <2>2. ASSUME NEW k \in 1 .. L, i = N + k PROVE Unanswered(new, i)
    <3>1. new[i].calls = <<>>
      BY <1>3, <1>6, <2>2
    <3> QED BY <3>1 DEF Unanswered
  <2> QED BY <1>4, <1>10, <2>1, <2>2
<1>12. ASSUME NEW j \in 1 .. (N + L), new[j].type = "tool"
       PROVE  \E i \in 1 .. (N + L) : i < j /\ j <= i + Len(new[i].calls) /\ Closed(new, i)
  <2>1. CASE j \in 1 .. N
    <3>1. PICK i \in 1 .. N : i < j /\ j <= i + Len(ms[i].calls) /\ Closed(ms, i)
      BY <1>1, <1>3, <1>12, <2>1 DEF Settled
    <3> QED BY <1>3, <1>5, <1>9, <3>1
  <2>2. ASSUME NEW k \in 1 .. L, j = N + k
        PROVE  N < j /\ j <= N + Len(new[N].calls)
    BY <1>1, <1>2, <1>3, <2>2
  <2> QED BY <1>1, <1>4, <1>5, <1>10, <2>1, <2>2
<1>13. ASSUME NEW i \in 1 .. (N + L), NEW k \in DOMAIN new[i].calls
       PROVE  new[i].type = "ai" /\ new[i].calls[k][1] = new[i].id
  <2>1. CASE i \in 1 .. N
    BY <1>1, <1>3, <1>13, <2>1 DEF Settled
  <2>2. ASSUME NEW h \in 1 .. L, i = N + h PROVE FALSE
    <3>1. new[i].calls = <<>>
      BY <1>3, <1>6, <2>2
    <3>2. DOMAIN new[i].calls = {}
      BY <3>1
    <3> QED BY <1>13, <3>2
  <2> QED BY <1>4, <2>1, <2>2
<1> QED BY <1>3, <1>7, <1>11, <1>12, <1>13 DEF Settled, new, L
-----------------------------------------------------------------------------
Asks(m) == m.type = "ai" /\ m.calls # <<>> /\ \A k \in DOMAIN m.calls : NameOf(m.calls[k]) = Ask
Said(m) == m.type = "human" /\ m.text = "said"

\* QuestionsWait, of any messages; and that all questions have been answered.
Waits(ms) == \A i, j \in DOMAIN ms : (Asks(ms[i]) /\ i < j /\ ms[j].type = "ai") => \E k \in i .. j : Said(ms[k])
Heard(ms) == \A i \in DOMAIN ms : Asks(ms[i]) => \E k \in DOMAIN ms : i < k /\ Said(ms[k])

\* A response may come when all questions have been answered.
LEMMA AppendedWaits ==
  ASSUME NEW ms \in Seq(Messages), Waits(ms), NEW m \in Messages, m.type = "ai" => Heard(ms)
  PROVE  Waits(Append(ms, m))
<1> DEFINE N == Len(ms)
           new == Append(ms, m)
<1>1. /\ N \in Nat /\ DOMAIN ms = 1 .. N /\ DOMAIN new = 1 .. (N + 1)
      /\ new[N + 1] = m /\ \A i \in 1 .. N : new[i] = ms[i]
  OBVIOUS
<1> HIDE DEF new, N
<1>2. \A i \in 1 .. (N + 1) : i \in 1 .. N \/ i = N + 1
  BY <1>1
<1>3. SUFFICES ASSUME NEW i \in 1 .. (N + 1), NEW j \in 1 .. (N + 1), Asks(new[i]), i < j, new[j].type = "ai"
               PROVE  \E k \in i .. j : Said(new[k])
  BY <1>1 DEF Waits, new
<1>4. i \in 1 .. N
  BY <1>1, <1>2, <1>3
<1>5. CASE j \in 1 .. N
  <2>1. PICK k \in i .. j : Said(ms[k])
    BY <1>1, <1>3, <1>4, <1>5 DEF Waits
  <2>2. k \in 1 .. N
    BY <1>1, <1>4, <1>5, <2>1
  <2> QED BY <1>1, <2>1, <2>2
<1>6. CASE j = N + 1
  <2>1. PICK k \in 1 .. N : i < k /\ Said(ms[k])
    BY <1>1, <1>3, <1>4, <1>6 DEF Heard
  <2>2. k \in i .. j
    BY <1>1, <1>6, <2>1
  <2> QED BY <1>1, <2>1, <2>2
<1> QED BY <1>2, <1>5, <1>6

\* What answers all questions, or asks none.
LEMMA AppendedHeard ==
  ASSUME NEW ms \in Seq(Messages), NEW m \in Messages, Said(m) \/ (Heard(ms) /\ m.type # "ai")
  PROVE  Heard(Append(ms, m))
<1> DEFINE N == Len(ms)
           new == Append(ms, m)
<1>1. /\ N \in Nat /\ DOMAIN ms = 1 .. N /\ DOMAIN new = 1 .. (N + 1)
      /\ new[N + 1] = m /\ \A i \in 1 .. N : new[i] = ms[i]
  OBVIOUS
<1> HIDE DEF new, N
<1>2. (\A i \in 1 .. (N + 1) : i \in 1 .. N \/ i = N + 1) /\ \A i \in 1 .. N : i \in 1 .. (N + 1) /\ i < N + 1
  BY <1>1
<1>3. SUFFICES ASSUME NEW i \in 1 .. (N + 1), Asks(new[i])
               PROVE  \E k \in 1 .. (N + 1) : i < k /\ Said(new[k])
  BY <1>1 DEF Heard, new
<1>4. i \in 1 .. N
  <2>1. ~Asks(m)
    BY DEF Asks, Said
  <2> QED BY <1>1, <1>2, <1>3, <2>1
<1>5. CASE Said(m)
  BY <1>1, <1>2, <1>4, <1>5
<1>6. CASE Heard(ms)
  <2>1. PICK k \in 1 .. N : i < k /\ Said(ms[k])
    BY <1>1, <1>3, <1>4, <1>6 DEF Heard
  <2> QED BY <1>1, <1>2, <2>1
<1> QED BY <1>5, <1>6

\* What the last message says, nobody has reacted to.
LEMMA ReplacedWaits ==
  ASSUME NEW ms \in Seq(Messages), ms # <<>>, Last(ms).type = "ai", Waits(ms), NEW m \in Messages, m.type = "ai"
  PROVE  Waits(Append(Front(ms), m))
<1> DEFINE N == Len(ms)
           new == Append(Front(ms), m)
<1>1. /\ N \in Nat \ {0} /\ DOMAIN ms = 1 .. N /\ Last(ms) = ms[N] /\ ms[N].type = "ai"
  BY DEF Last
<1>2. Front(ms) \in Seq(Messages) /\ Len(Front(ms)) = N - 1 /\ \A i \in 1 .. (N - 1) : Front(ms)[i] = ms[i]
  BY <1>1 DEF Front
<1>3. /\ DOMAIN new = 1 .. N /\ new[N] = m /\ \A i \in 1 .. (N - 1) : new[i] = ms[i]
  <2> DEFINE f == Front(ms)
  <2>1. f \in Seq(Messages) /\ Len(f) = N - 1 /\ N \in Nat
    BY <1>1, <1>2
  <2> HIDE DEF f
  <2>2. /\ DOMAIN Append(f, m) = 1 .. (Len(f) + 1) /\ Append(f, m)[Len(f) + 1] = m
        /\ \A i \in 1 .. Len(f) : Append(f, m)[i] = f[i]
    BY <2>1
  <2>3. Len(f) + 1 = N
    <3> HIDE DEF N
    <3> QED BY <2>1
  <2> QED BY <1>2, <2>1, <2>2, <2>3 DEF f
<1> HIDE DEF new, N
<1>4. SUFFICES ASSUME NEW i \in 1 .. N, NEW j \in 1 .. N, Asks(new[i]), i < j, new[j].type = "ai"
               PROVE  \E k \in i .. j : Said(new[k])
  BY <1>3 DEF Waits, new
<1>5. i \in 1 .. (N - 1) /\ (j = N \/ j \in 1 .. (N - 1))
  BY <1>1, <1>4
<1>6. PICK k \in i .. j : Said(ms[k])
  <2>1. Asks(ms[i]) /\ ms[j].type = "ai"
    BY <1>1, <1>3, <1>4, <1>5
  <2> QED BY <1>1, <1>4, <2>1 DEF Waits
<1>7. k # N
  BY <1>1, <1>6 DEF Said
<1>8. k \in 1 .. (N - 1)
  BY <1>1, <1>4, <1>6, <1>7
<1> QED BY <1>3, <1>6, <1>8

\* The agent goes on after its tools only if it did not just ask.
LEMMA AnsweredWaits ==
  ASSUME NEW ms \in Seq(Messages), ms # <<>>, Last(ms).type = "ai", Waits(ms),
         NEW as \in Seq(Messages), \A k \in 1 .. Len(as) : as[k].type = "tool"
  PROVE  Waits(ms \o as) /\ (~Asks(Last(ms)) => Heard(ms \o as))
<1> DEFINE N == Len(ms)
           L == Len(as)
           new == ms \o as
<1>1. /\ N \in Nat \ {0} /\ L \in Nat /\ DOMAIN ms = 1 .. N /\ Last(ms) = ms[N] /\ ms[N].type = "ai"
      /\ \A k \in 1 .. L : as[k].type = "tool"
  <2>1. N \in Nat \ {0} /\ L \in Nat /\ DOMAIN ms = 1 .. N
    <3>1. N \in Nat /\ N # 0
      BY EmptySeq, ms # <<>>
    <3>2. L \in Nat /\ DOMAIN ms = 1 .. N
      BY LenProperties, Zenon
    <3> QED BY <3>1, <3>2
  <2>2. Last(ms) = ms[N] /\ ms[N].type = "ai"
    BY DEF Last
  <2>3. \A k \in 1 .. L : as[k].type = "tool"
    OBVIOUS
  <2> QED BY <2>1, <2>2, <2>3
<1>2. /\ DOMAIN new = 1 .. (N + L) /\ (\A i \in 1 .. N : new[i] = ms[i])
      /\ \A k \in 1 .. L : new[N + k] = as[k]
  <2>1. new \in Seq(Messages) /\ IsConcat(new, ms, as)
    BY ConcatIs
  <2> HIDE DEF new
  <2>2. DOMAIN new = 1 .. Len(new)
    BY <2>1
  <2> QED BY <2>1, <2>2 DEF IsConcat
<1> HIDE DEF new, N, L
<1>3. /\ \A i \in 1 .. (N + L) : i \in 1 .. N \/ \E k \in 1 .. L : i = N + k
      /\ \A i \in 1 .. N : i \in 1 .. (N + L)
  <2>1. ASSUME NEW i \in 1 .. (N + L), i \notin 1 .. N PROVE \E k \in 1 .. L : i = N + k
    <3>1. i - N \in 1 .. L /\ i = N + (i - N)
      BY <1>1, <2>1
    <3> QED BY <3>1
  <2> QED BY <1>1, <2>1
<1>4. \A i \in 1 .. (N + L) : new[i].type = "ai" => i \in 1 .. N
  BY <1>1, <1>2, <1>3
<1>5. Waits(new)
  <2>1. SUFFICES ASSUME NEW i \in 1 .. (N + L), NEW j \in 1 .. (N + L), Asks(new[i]), i < j, new[j].type = "ai"
                 PROVE  \E k \in i .. j : Said(new[k])
    BY <1>2 DEF Waits
  <2>2. i \in 1 .. N /\ j \in 1 .. N
    BY <1>4, <2>1 DEF Asks
  <2>3. PICK k \in i .. j : Said(ms[k])
    BY <1>1, <1>2, <2>1, <2>2 DEF Waits
  <2>4. k \in 1 .. N
    BY <1>1, <2>2, <2>3
  <2> QED BY <1>2, <2>3, <2>4
<1>6. ASSUME ~Asks(Last(ms)) PROVE Heard(new)
  <2>1. SUFFICES ASSUME NEW i \in 1 .. (N + L), Asks(new[i])
                 PROVE  \E k \in 1 .. (N + L) : i < k /\ Said(new[k])
    BY <1>2 DEF Heard
  <2>2. i \in 1 .. N /\ Asks(ms[i])
    BY <1>2, <1>4, <2>1 DEF Asks
  <2>3. i # N
    BY <1>1, <1>6, <2>2
  <2>4. N \in 1 .. N /\ i < N
    BY <1>1, <2>2, <2>3
  <2>5. PICK k \in i .. N : Said(ms[k])
    BY <1>1, <2>2, <2>4 DEF Waits
  <2>6. k # i
    BY <2>2, <2>5 DEF Asks, Said
  <2>7. k \in 1 .. N /\ i < k
    BY <1>1, <2>2, <2>5, <2>6
  <2> QED BY <1>2, <1>3, <2>5, <2>7
<1> QED BY <1>5, <1>6 DEF new
-----------------------------------------------------------------------------
\* What the client's stream has yielded are messages of the thread.
Seen(ts, n) == ts \in Seq(Messages) /\ \A i \in DOMAIN ts : ts[i].id \in 1 .. n

\* Which a snapshot of the messages keeps so.
LEMMA YieldSeen ==
  ASSUME NEW n \in Nat, NEW p \in Nat, n <= p, NEW ts, Seen(ts, n), NEW ms, Identified(ms, p)
  PROVE  Seen(Yield(ts, ms), p)
<1> DEFINE K == {m \in ToSet(ms) : \E i \in DOMAIN ts : ts[i].id = m.id}
           w == Without(ms, K)
           new == ts \o w
<1>1. ts \in Seq(Messages) /\ ms \in Seq(Messages) /\ Yield(ts, ms) = new
  BY DEF Seen, Identified, Yield
<1>2. IsWithout(w, ms, K, Len(ms), Messages)
  BY <1>1, WithoutIs
<1> HIDE DEF w, K
<1>3. w \in Seq(Messages) /\ \A k \in 1 .. Len(w) : \E j \in 1 .. Len(ms) : w[k] = ms[j]
  BY <1>2 DEF IsWithout
<1>4. \A k \in 1 .. Len(w) : w[k].id \in 1 .. p
  <2>1. \A j \in 1 .. Len(ms) : ms[j].id \in 1 .. p
    BY <1>1 DEF Identified
  <2> QED BY <1>3, <2>1
<1>5. new \in Seq(Messages) /\ IsConcat(new, ts, w)
  BY <1>1, <1>3, ConcatIs
<1> HIDE DEF new
<1>6. \A i \in 1 .. Len(ts) : ts[i].id \in 1 .. p
  BY <1>1 DEF Seen
<1> DEFINE a == Len(ts)
           b == Len(w)
<1>7. a \in Nat /\ b \in Nat /\ DOMAIN new = 1 .. Len(new) /\ Len(new) = a + b
  <2>1. a \in Nat /\ b \in Nat
    BY <1>1, <1>3
  <2>2. DOMAIN new = 1 .. Len(new)
    BY <1>5
  <2>3. Len(new) = a + b
    BY <1>5 DEF IsConcat
  <2> QED BY <2>1, <2>2, <2>3
<1>8. (\A i \in 1 .. a : new[i].id \in 1 .. p) /\ \A k \in 1 .. b : new[a + k].id \in 1 .. p
  BY <1>4, <1>5, <1>6 DEF IsConcat
<1> HIDE DEF a, b
<1>9. ASSUME NEW i \in 1 .. (a + b) PROVE new[i].id \in 1 .. p
  <2>1. CASE i \in 1 .. a
    BY <1>8, <2>1
  <2>2. CASE i \notin 1 .. a
    <3>1. i - a \in 1 .. b /\ a + (i - a) = i
      BY <1>7, <2>2
    <3> QED BY <1>8, <3>1
  <2> QED BY <2>1, <2>2
<1> QED BY <1>1, <1>5, <1>7, <1>9 DEF Seen

Responding == phase \in {"loop", "limit", "route", "tools"}

TurnKnown == phase \in Phases /\ made \in Nat /\ Identified(msgs, made) /\ Seen(told, made)

TurnInv ==
    /\ TurnKnown /\ Settled(msgs) /\ Waits(msgs)
    /\ Responding => msgs # <<>> /\ Final.type = "ai"
    /\ phase \in {"before model", "model"} => Heard(msgs)
    /\ phase = "loop" => Names(Final) \in Responses \cup {<<>>}

\* A message put together by an action.
LEMMA NewMessageIs ==
  ASSUME made \in Nat, NEW type \in {"human", "ai", "tool"}, NEW text \in Texts, NEW calls \in Seq(CallsMade),
         NEW m, m = NewMessage(type, text, calls, NoCall)
  PROVE  m \in Messages /\ m.type = type /\ m.text = text /\ m.calls = calls /\ m.id = made + 1
<1>1. m = [type |-> type, id |-> made + 1, text |-> text, calls |-> calls, of |-> NoCall]
  BY DEF NewMessage
<1>2. NoCall \in Nat \X Nat /\ made + 1 \in Nat
  BY DEF NoCall
<1> QED BY <1>1, <1>2 DEF Messages

Changed(m, calls, text) == [m EXCEPT !.calls = calls, !.text = text]

\* A message with other calls and another text is the same otherwise.
LEMMA ChangedMessageIs ==
  ASSUME NEW m \in Messages, NEW calls \in Seq(CallsMade), NEW text \in Texts,
         NEW r, r = Changed(m, calls, text)
  PROVE  r \in Messages /\ r.type = m.type /\ r.id = m.id /\ r.calls = calls
<1> DEFINE x == [type |-> m.type, id |-> m.id, text |-> text, calls |-> calls, of |-> m.of]
<1>1. [m EXCEPT !.calls = calls, !.text = text] = x
  <2> DEFINE C == Seq(CallsMade)
             O == Nat \X Nat
             y == [m EXCEPT !.calls = calls]
  <2>1. m \in [type : {"human", "ai", "tool"}, id : Nat, text : Texts, calls : C, of : O]
    BY DEF Messages
  <2> HIDE DEF C, O
  <2>2. y = [type |-> m.type, id |-> m.id, text |-> m.text, calls |-> calls, of |-> m.of]
    BY <2>1
  <2>3. [m EXCEPT !.calls = calls, !.text = text] = [y EXCEPT !.text = text]
    BY <2>1
  <2> HIDE DEF y
  <2>4. [y EXCEPT !.text = text] = x
    BY <2>2
  <2> QED BY <2>3, <2>4
<1>2. x \in Messages /\ x.type = m.type /\ x.id = m.id /\ x.calls = calls
  BY MessageIs DEF Messages
<1> HIDE DEF x
<1> QED BY <1>1, <1>2 DEF Changed

\* The next number.
LEMMA OneMore == ASSUME NEW n \in Nat PROVE n <= n + 1 /\ n + 1 \in Nat
OBVIOUS

\* What is appended is the last.
LEMMA LastOfAppend == ASSUME NEW S, NEW s \in Seq(S), NEW x \in S
                      PROVE  Last(Append(s, x)) = x /\ Append(s, x) # <<>>
BY DEF Last

\* So it is with another text alone.
LEMMA ChangedTextIs ==
  ASSUME NEW m \in Messages, NEW text \in Texts
  PROVE  LET r == [m EXCEPT !.text = text] IN
         r \in Messages /\ r.type = m.type /\ r.id = m.id /\ r.calls = m.calls
<1> DEFINE C == Seq(CallsMade)
           O == Nat \X Nat
<1>1. m \in [type : {"human", "ai", "tool"}, id : Nat, text : Texts, calls : C, of : O]
  BY DEF Messages
<1> HIDE DEF C, O
<1>2. LET r == [m EXCEPT !.text = text] IN
      /\ r \in [type : {"human", "ai", "tool"}, id : Nat, text : Texts, calls : C, of : O]
      /\ r.type = m.type /\ r.id = m.id /\ r.calls = m.calls
  BY <1>1
<1> QED BY <1>2 DEF Messages, C, O

\* And with other calls alone.
LEMMA ChangedCallsAre ==
  ASSUME NEW m \in Messages, NEW calls \in Seq(CallsMade)
  PROVE  LET r == [m EXCEPT !.calls = calls] IN
         r \in Messages /\ r.type = m.type /\ r.id = m.id /\ r.calls = calls
<1> DEFINE C == Seq(CallsMade)
           O == Nat \X Nat
<1>1. calls \in C /\ m \in [type : {"human", "ai", "tool"}, id : Nat, text : Texts, calls : C, of : O]
  BY DEF Messages
<1> HIDE DEF C, O
<1>2. LET r == [m EXCEPT !.calls = calls] IN
      /\ r \in [type : {"human", "ai", "tool"}, id : Nat, text : Texts, calls : C, of : O]
      /\ r.type = m.type /\ r.id = m.id /\ r.calls = calls
  BY <1>1
<1> QED BY <1>2 DEF Messages, C, O

\* The last message.
LEMMA FinalIs == ASSUME TurnKnown, msgs # <<>>
                 PROVE  Final \in Messages /\ Final = msgs[Len(msgs)]
BY DEF TurnKnown, Identified, Last, Final

\* What the hooks after the model do: the last message loses calls, or none.
LEMMA ReplaceStep ==
  ASSUME TurnInv, Responding, Responding', NEW m \in Messages, m.type = "ai", m.id = Final.id,
         \A k \in DOMAIN m.calls : \E j \in DOMAIN Final.calls : m.calls[k] = Final.calls[j],
         Replace(m), made' = made, phase' \in Phases \ {"loop"}
  PROVE  TurnInv'
<1>1. msgs' = Append(Front(msgs), m) /\ told' = Yield(told, msgs')
  BY DEF Replace, Snapshot
<1>2. /\ msgs \in Seq(Messages) /\ msgs # <<>> /\ Last(msgs).type = "ai" /\ Waits(msgs) /\ Identified(msgs, made)
      /\ Settled(msgs) /\ made \in Nat /\ Seen(told, made)
  BY DEF TurnInv, TurnKnown, Identified, Final
<1>3. Identified(msgs', made) /\ Settled(msgs')
  BY <1>1, <1>2, ReplacedSettled DEF Final
<1>4. Waits(msgs')
  BY <1>1, <1>2, ReplacedWaits
<1>5. Seen(told', made)
  <2>1. made <= made
    BY <1>2
  <2> QED BY <1>1, <1>2, <1>3, <2>1, YieldSeen
<1>6. Final'.type = "ai" /\ msgs' # <<>>
  <2>1. Front(msgs) \in Seq(Messages)
    BY <1>2 DEF Front
  <2>2. Last(Append(Front(msgs), m)) = m /\ Append(Front(msgs), m) # <<>>
    BY <2>1, LastOfAppend, Zenon
  <2> QED BY <1>1, <2>2 DEF Final
<1>7. ~(phase' \in {"before model", "model"})
  BY DEF Responding
<1> QED BY <1>2, <1>3, <1>4, <1>5, <1>6, <1>7 DEF TurnInv, TurnKnown

\* A message is added.
LEMMA AppendStep ==
  ASSUME TurnInv, NEW m \in Messages, m.type # "tool", m.id = made + 1,
         \A k \in DOMAIN m.calls : m.type = "ai" /\ m.calls[k][1] = m.id,
         m.type = "ai" => Heard(msgs),
         msgs' = Append(msgs, m), NEW ts, Seen(ts, made), told' = Yield(ts, msgs'), made' = made + 1,
         phase' \in Phases, phase' \in {"before model", "model"} => Heard(msgs'),
         Responding' => m.type = "ai", phase' = "loop" => Names(m) \in Responses \cup {<<>>}
  PROVE  TurnInv'
<1>1. /\ msgs \in Seq(Messages) /\ Waits(msgs) /\ Identified(msgs, made)
      /\ Settled(msgs) /\ made \in Nat
  BY DEF TurnInv, TurnKnown, Identified
<1>2. Identified(msgs', made') /\ Settled(msgs')
  BY <1>1, AppendedSettled
<1>3. Waits(msgs')
  BY <1>1, AppendedWaits
<1>4. Seen(told', made')
  <2>1. made <= made' /\ made' \in Nat
    BY <1>1, OneMore, Zenon
  <2> QED BY <1>1, <1>2, <2>1, YieldSeen
<1>5. Final' = m /\ msgs' # <<>>
  <2>1. Last(Append(msgs, m)) = m /\ Append(msgs, m) # <<>>
    BY <1>1, LastOfAppend, Zenon
  <2> QED BY <2>1 DEF Final
<1>6. made' \in Nat
  BY <1>1, OneMore, Zenon
<1> QED BY <1>2, <1>3, <1>4, <1>5, <1>6 DEF TurnInv, TurnKnown

\* A message of the user answers every question.
LEMMA UserSaysStep == ASSUME TurnInv, UserSays PROVE TurnInv'
<1> DEFINE m == NewMessage("human", "said", <<>>, NoCall)
<1>1. made \in Nat /\ msgs \in Seq(Messages)
  BY DEF TurnInv, TurnKnown, Identified
<1>2. m \in Messages /\ m.type = "human" /\ m.text = "said" /\ m.calls = <<>> /\ m.id = made + 1
  <2> DEFINE none == <<>>
             type == "human"
             text == "said"
  <2>1. type \in {"human", "ai", "tool"} /\ text \in Texts /\ none \in Seq(CallsMade)
    BY DEF Texts
  <2>2. m = NewMessage(type, text, none, NoCall)
    OBVIOUS
  <2> HIDE DEF m, none, type, text
  <2>3. m \in Messages /\ m.type = type /\ m.text = text /\ m.calls = none /\ m.id = made + 1
    BY <1>1, <2>1, <2>2, NewMessageIs
  <2> QED BY <2>3 DEF none, type, text
<1>3. /\ msgs' = Append(msgs, m) /\ told' = Yield(<<>>, msgs') /\ made' = made + 1
      /\ phase' = "before model"
  BY DEF UserSays
<1> HIDE DEF m
<1>4. Heard(msgs')
  BY <1>1, <1>2, <1>3, AppendedHeard DEF Said
<1>5. Seen(<<>>, made)
  BY DEF Seen
<1>6. DOMAIN m.calls = {}
  BY <1>2
<1>7. phase' \in Phases /\ ~Responding' /\ phase' # "loop"
  BY <1>3 DEF Phases, Responding
<1> QED BY <1>2, <1>3, <1>4, <1>5, <1>6, <1>7, AppendStep

\* The images of a response change nothing else.
LEMMA BeforeModelStep == ASSUME TurnInv, BeforeModel PROVE TurnInv'
<1> DEFINE m == NewMessage("human", "images", <<>>, NoCall)
<1>1. /\ made \in Nat /\ msgs \in Seq(Messages) /\ Seen(told, made)
      /\ phase = "before model" /\ phase' = "model" /\ Heard(msgs)
  BY DEF TurnInv, TurnKnown, Identified, BeforeModel
<1>2. m \in Messages /\ m.type = "human" /\ m.text = "images" /\ m.calls = <<>> /\ m.id = made + 1
  <2> DEFINE none == <<>>
             type == "human"
             text == "images"
  <2>1. type \in {"human", "ai", "tool"} /\ text \in Texts /\ none \in Seq(CallsMade)
    BY DEF Texts
  <2>2. m = NewMessage(type, text, none, NoCall)
    OBVIOUS
  <2> HIDE DEF m, none, type, text
  <2>a. made \in Nat
    BY <1>1
  <2>3. m \in Messages /\ m.type = type /\ m.text = text /\ m.calls = none /\ m.id = made + 1
    BY <2>a, <2>1, <2>2, NewMessageIs
  <2> QED BY <2>3 DEF none, type, text
<1>3. phase' \in Phases /\ ~Responding' /\ phase' # "loop"
  BY <1>1 DEF Phases, Responding
<1>4. \/ Snapshot(Append(msgs, m)) /\ made' = made + 1
      \/ UNCHANGED <<msgs, made, told>>
  BY DEF BeforeModel
<1>5. CASE Snapshot(Append(msgs, m)) /\ made' = made + 1
  <2> HIDE DEF m
  <2>1. msgs' = Append(msgs, m) /\ told' = Yield(told, msgs')
    BY <1>5 DEF Snapshot
  <2>2. Heard(msgs')
    BY <1>1, <1>2, <2>1, AppendedHeard
  <2>3. DOMAIN m.calls = {}
    BY <1>2
  <2> QED BY <1>1, <1>2, <1>3, <1>5, <2>1, <2>2, <2>3, AppendStep
<1>6. CASE UNCHANGED <<msgs, made, told>>
  BY <1>1, <1>3, <1>6 DEF TurnInv, TurnKnown
<1> QED BY <1>4, <1>5, <1>6

\* The model is called when every question has been answered.
LEMMA ModelStep == ASSUME TurnInv, NEW names \in Responses \cup {<<>>}, Model(names) PROVE TurnInv'
<1> DEFINE calls == [k \in DOMAIN names |-> <<made + 1, k, names[k]>>]
           text == IF names = <<>> THEN "said" ELSE "none"
           m == NewMessage("ai", text, calls, NoCall)
<1>1. /\ made \in Nat /\ msgs \in Seq(Messages) /\ Seen(told, made)
      /\ phase = "model" /\ phase' = "loop" /\ Heard(msgs)
  BY DEF TurnInv, TurnKnown, Identified, Model
<1>2. calls \in Seq(CallsMade) /\ \A k \in DOMAIN calls : calls[k][1] = made + 1
  <2>1. names \in Seq(Tools)
    <3>1. Responses \subseteq Seq(Tools) /\ <<>> \in Seq(Tools)
      BY LoopAssumption
    <3> QED BY <3>1
  <2>2. \A k \in 1 .. Len(names) : <<made + 1, k, names[k]>> \in CallsMade
    BY <1>1, <2>1 DEF CallsMade
  <2>3. calls = [k \in 1 .. Len(names) |-> <<made + 1, k, names[k]>>] /\ Len(names) \in Nat
    BY <2>1
  <2> QED BY <2>2, <2>3
<1>3. m \in Messages /\ m.type = "ai" /\ m.calls = calls /\ m.id = made + 1
  <2>1. "ai" \in {"human", "ai", "tool"} /\ text \in Texts
    BY DEF Texts
  <2> HIDE DEF text, calls
  <2> QED BY <1>1, <1>2, <2>1, NewMessageIs
<1>4. Snapshot(Append(msgs, m)) /\ made' = made + 1
  BY DEF Model
<1> HIDE DEF m, calls
<1>5. msgs' = Append(msgs, m) /\ told' = Yield(told, msgs')
  BY <1>4 DEF Snapshot
<1>6. phase' \in Phases /\ ~(phase' \in {"before model", "model"})
  BY <1>1 DEF Phases
<1>7. \A k \in DOMAIN m.calls : m.calls[k][1] = m.id
  BY <1>2, <1>3
<1>8. Names(m) = names
  <2>1. names \in Seq(Tools)
    <3>1. Responses \subseteq Seq(Tools) /\ <<>> \in Seq(Tools)
      BY LoopAssumption
    <3> QED BY <3>1
  <2>2. Names(m) = [k \in DOMAIN names |-> NameOf(<<made + 1, k, names[k]>>)]
    BY <1>3 DEF Names, calls
  <2>3. Names(m) = [k \in DOMAIN names |-> names[k]]
    BY <2>2 DEF NameOf
  <2> QED BY <2>1, <2>3
<1> QED BY <1>1, <1>3, <1>4, <1>5, <1>6, <1>7, <1>8, AppendStep

\* A step that leaves the messages keeps the invariant.
LEMMA UnchangedStep ==
  ASSUME TurnInv, UNCHANGED <<msgs, made, told>>, phase' \in Phases \ {"loop"}, Responding' => Responding,
         ~(phase' \in {"before model", "model"})
  PROVE  TurnInv'
BY DEF TurnInv, TurnKnown, Final

\* The loop detector takes calls away, or adds a warning.
LEMMA AfterLoopStep == ASSUME TurnInv, AfterLoop PROVE TurnInv'
<1> DEFINE verdict == Verdict(Thread, Names(Final))
<1>1. /\ phase = "loop" /\ phase' = "limit" /\ Responding /\ Responding' /\ phase' \in Phases \ {"loop"}
      /\ ~(phase' \in {"before model", "model"}) /\ made' = made
  BY DEF AfterLoop, Responding, Phases
<1>2. Final \in Messages /\ Final.type = "ai"
  BY <1>1, FinalIs DEF TurnInv
<1>3. \/ UNCHANGED <<msgs, told>>
      \/ Replace([Final EXCEPT !.calls = <<>>, !.text = "stopped"])
      \/ Replace([Final EXCEPT !.text = "said, warned"])
  <2> HIDE DEF verdict
  <2>1. CASE Final.calls = <<>>
    BY <2>1 DEF AfterLoop
  <2>2. CASE Final.calls # <<>>
    <3>1. (CASE verdict \in {"stop", "freq stop"} -> Replace([Final EXCEPT !.calls = <<>>, !.text = "stopped"])
             [] verdict \in {"warn", "freq warn"} -> Replace([Final EXCEPT !.text = "said, warned"])
             [] OTHER -> UNCHANGED <<msgs, told>>)
      BY <2>2 DEF AfterLoop, verdict
    <3> QED BY <3>1
  <2> QED BY <2>1, <2>2
<1>4. CASE UNCHANGED <<msgs, told>>
  BY <1>1, <1>4, UnchangedStep
<1>5. CASE Replace([Final EXCEPT !.calls = <<>>, !.text = "stopped"])
  <2> DEFINE m == [Final EXCEPT !.calls = <<>>, !.text = "stopped"]
  <2>1. m \in Messages /\ m.type = "ai" /\ m.id = Final.id /\ m.calls = <<>>
    <3> DEFINE none == <<>>
               text == "stopped"
    <3>1. none \in Seq(CallsMade) /\ text \in Texts
      BY DEF Texts
    <3>2. m = Changed(Final, none, text)
      BY DEF Changed
    <3> HIDE DEF m, none, text
    <3>3. Final \in Messages
      BY <1>2
    <3>4. m \in Messages /\ m.type = Final.type /\ m.id = Final.id /\ m.calls = none
      BY <3>1, <3>2, <3>3, ChangedMessageIs
    <3> QED BY <1>2, <3>3, <3>4 DEF none
  <2>2. Replace(m)
    BY <1>5
  <2> HIDE DEF m
  <2>3. DOMAIN m.calls = {}
    BY <2>1
  <2> QED BY <1>1, <2>1, <2>2, <2>3, ReplaceStep
<1>6. CASE Replace([Final EXCEPT !.text = "said, warned"])
  <2> DEFINE m == [Final EXCEPT !.text = "said, warned"]
  <2>1. m \in Messages /\ m.type = "ai" /\ m.id = Final.id /\ m.calls = Final.calls
    <3>1. "said, warned" \in Texts
      BY DEF Texts
    <3> QED BY <1>2, <3>1, ChangedTextIs
  <2>2. Replace(m)
    BY <1>6
  <2> HIDE DEF m
  <2> QED BY <1>1, <2>1, <2>2, ReplaceStep
<1> QED BY <1>3, <1>4, <1>5, <1>6

\* The limit takes calls away.
LEMMA AfterLimitStep == ASSUME TurnInv, AfterLimit PROVE TurnInv'
<1> DEFINE beyond == {k \in DOMAIN Final.calls :
                        /\ NameOf(Final.calls[k]) = Task
                        /\ Count(SubSeq(Names(Final), 1, k), Task) > TaskLimit}
           K == {Final.calls[k] : k \in beyond}
           kept == Without(Final.calls, K)
           m == [Final EXCEPT !.calls = Without(@, K)]
<1>1. /\ phase = "limit" /\ phase' = "route" /\ Responding /\ Responding' /\ phase' \in Phases \ {"loop"}
      /\ ~(phase' \in {"before model", "model"}) /\ made' = made
  BY DEF AfterLimit, Responding, Phases
<1>2. Final \in Messages /\ Final.type = "ai"
  BY <1>1, FinalIs DEF TurnInv
<1>3. UNCHANGED <<msgs, told>> \/ Replace(m)
  BY DEF AfterLimit
<1>4. CASE UNCHANGED <<msgs, told>>
  BY <1>1, <1>4, UnchangedStep
<1>5. CASE Replace(m)
  <2>1. IsWithout(kept, Final.calls, K, Len(Final.calls), CallsMade)
    BY <1>2, MessageIs, WithoutIs
  <2>2. m = [Final EXCEPT !.calls = kept]
    <3> HIDE DEF K
    <3> QED BY <1>2 DEF Messages
  <2> HIDE DEF kept, K, m
  <2>3. kept \in Seq(CallsMade) /\ \A k \in 1 .. Len(kept) : \E j \in 1 .. Len(Final.calls) : kept[k] = Final.calls[j]
    BY <2>1 DEF IsWithout
  <2>4. m \in Messages /\ m.type = "ai" /\ m.id = Final.id /\ m.calls = kept
    BY <1>2, <2>2, <2>3, ChangedCallsAre
  <2>5. \A k \in DOMAIN m.calls : \E j \in DOMAIN Final.calls : m.calls[k] = Final.calls[j]
    <3>1. DOMAIN kept = 1 .. Len(kept)
      BY <2>3
    <3>2. DOMAIN Final.calls = 1 .. Len(Final.calls)
      BY <1>2, MessageIs
    <3> QED BY <2>3, <2>4, <3>1, <3>2
  <2> QED BY <1>1, <1>5, <2>4, <2>5, ReplaceStep
<1> QED BY <1>3, <1>4, <1>5

\* Every call is answered right behind its message, and after mere questions the turn ends.
LEMMA ToolsRunStep == ASSUME TurnInv, ToolsRun PROVE TurnInv'
<1> DEFINE calls == Final.calls
           answer(k) == [type |-> "tool", id |-> made + k, text |-> "said", calls |-> <<>>, of |-> IdOf(calls[k])]
           as == [k \in DOMAIN calls |-> answer(k)]
<1>1. phase = "tools" /\ Snapshot(msgs \o as) /\ made' = made + Len(calls)
  BY DEF ToolsRun
<1>2. phase' = "done" \/ (phase' = "before model" /\ ~EndsTurn(Names(Final)))
  BY DEF ToolsRun
<1>3. /\ Final \in Messages /\ Final.type = "ai" /\ msgs # <<>> /\ msgs \in Seq(Messages)
      /\ made \in Nat /\ Identified(msgs, made) /\ Settled(msgs) /\ Waits(msgs) /\ Seen(told, made)
  BY <1>1, FinalIs DEF TurnInv, TurnKnown, Identified, Responding
<1>4. Len(calls) \in Nat /\ DOMAIN calls = 1 .. Len(calls) /\ \A k \in 1 .. Len(calls) : calls[k] \in CallsMade
  BY <1>3, MessageIs
<1>5. /\ as \in Seq(Messages) /\ Len(as) = Len(calls)
      /\ \A k \in 1 .. Len(as) : /\ as[k].type = "tool" /\ as[k].calls = <<>>
                                 /\ as[k].of = IdOf(calls[k]) /\ as[k].id = made + k
  <2> HIDE DEF calls
  <2>1. ASSUME NEW k \in 1 .. Len(calls)
        PROVE  /\ answer(k) \in Messages /\ answer(k).type = "tool" /\ answer(k).calls = <<>>
               /\ answer(k).of = IdOf(calls[k]) /\ answer(k).id = made + k
    <3>1. IdOf(calls[k]) \in Nat \X Nat
      BY <1>4 DEF IdOf, CallsMade
    <3>2. "said" \in Texts /\ <<>> \in Seq(CallsMade) /\ made + k \in Nat
      BY <1>3, <1>4 DEF Texts
    <3> DEFINE o == IdOf(calls[k])
               C == Seq(CallsMade)
               O == Nat \X Nat
               T == {"human", "ai", "tool"}
    <3>3. o \in O /\ <<>> \in C /\ "tool" \in T
      BY <3>1, <3>2
    <3> HIDE DEF o, C, O, T
    <3>4. answer(k) = [type |-> "tool", id |-> made + k, text |-> "said", calls |-> <<>>, of |-> o]
      BY DEF o
    <3>5. answer(k) \in [type : T, id : Nat, text : Texts, calls : C, of : O]
      BY <3>2, <3>3, <3>4
    <3> QED BY <3>4, <3>5 DEF Messages, T, C, O, o
  <2>2. as = [k \in 1 .. Len(calls) |-> answer(k)]
    BY <1>4
  <2> HIDE DEF answer
  <2>3. as \in Seq(Messages) /\ Len(as) = Len(calls) /\ \A k \in 1 .. Len(calls) : as[k] = answer(k)
    BY <1>4, <2>1, <2>2
  <2> HIDE DEF as
  <2> QED BY <2>1, <2>3
<1> HIDE DEF as
<1>6. msgs' = msgs \o as /\ told' = Yield(told, msgs')
  BY <1>1 DEF Snapshot
<1>7. Identified(msgs', made') /\ Settled(msgs')
  BY <1>1, <1>3, <1>5, <1>6, AnsweredSettled DEF Final
<1>8. Waits(msgs') /\ (~Asks(Final) => Heard(msgs'))
  BY <1>3, <1>5, <1>6, AnsweredWaits DEF Final
<1>9. Seen(told', made')
  <2>1. made <= made' /\ made' \in Nat
    <3> HIDE DEF calls
    <3> QED BY <1>1, <1>3, <1>4
  <2> QED BY <1>3, <1>6, <1>7, <2>1, YieldSeen
<1>10. phase' = "before model" => Heard(msgs')
  <2>1. SUFFICES ASSUME ~EndsTurn(Names(Final)) PROVE ~Asks(Final)
    BY <1>2, <1>8
  <2>2. PICK k \in DOMAIN Names(Final) : Names(Final)[k] # Ask
    BY <2>1 DEF EndsTurn
  <2>3. k \in DOMAIN Final.calls /\ NameOf(Final.calls[k]) # Ask
    BY <2>2 DEF Names
  <2> QED BY <2>3 DEF Asks
<1>11. made' \in Nat /\ phase' \in Phases /\ ~Responding' /\ phase' \notin {"model", "loop"}
  <2>1. made' \in Nat
    <3> HIDE DEF calls
    <3> QED BY <1>1, <1>3, <1>4
  <2> QED BY <1>2, <2>1 DEF Phases, Responding
<1> QED BY <1>7, <1>8, <1>9, <1>10, <1>11 DEF TurnInv, TurnKnown

\* Initially nothing has been said.
LEMMA TurnInvInit == ASSUME TurnInit PROVE TurnInv
<1>1. msgs = <<>> /\ phase = "idle" /\ made = 0 /\ told = <<>>
  BY DEF TurnInit
<1>2. phase \in Phases /\ ~Responding /\ made \in Nat
  BY <1>1 DEF Phases, Responding
<1>3. Identified(msgs, made) /\ Seen(told, made)
  BY <1>1 DEF Identified, Seen
<1>4. Settled(msgs) /\ Waits(msgs)
  BY <1>1 DEF Settled, Waits
<1> QED BY <1>1, <1>2, <1>3, <1>4 DEF TurnInv, TurnKnown

\* Every step of a turn, and its end wherever it comes, keeps the invariant.
LEMMA TurnInvStep == TurnInv /\ [TurnNext]_agentVars => TurnInv'
<1> SUFFICES ASSUME TurnInv, [TurnNext]_agentVars PROVE TurnInv'
  OBVIOUS
<1>1. CASE UserSays
  BY <1>1, UserSaysStep
<1>2. CASE BeforeModel
  BY <1>2, BeforeModelStep
<1>3. ASSUME NEW names \in Responses \cup {<<>>}, Model(names) PROVE TurnInv'
  BY <1>3, ModelStep
<1>4. CASE AfterLoop
  BY <1>4, AfterLoopStep
<1>5. CASE AfterLimit
  BY <1>5, AfterLimitStep
<1>6. CASE Route
  <2>1. UNCHANGED <<msgs, made, told>> /\ Responding /\ phase' \in {"done", "tools"}
    BY <1>6 DEF Route, Responding
  <2>2. phase' \in Phases \ {"loop"} /\ ~(phase' \in {"before model", "model"})
    BY <2>1 DEF Phases
  <2> QED BY <2>1, <2>2, UnchangedStep
<1>7. CASE ToolsRun
  BY <1>7, ToolsRunStep
<1>8. CASE TurnStops
  <2>1. UNCHANGED <<msgs, made, told>> /\ phase' = "idle"
    BY <1>8 DEF TurnStops
  <2>2. phase' \in Phases \ {"loop"} /\ ~(phase' \in {"before model", "model"}) /\ ~Responding'
    BY <2>1 DEF Phases, Responding
  <2> QED BY <2>1, <2>2, UnchangedStep
<1>9. CASE UNCHANGED agentVars
  BY <1>9 DEF agentVars, turnVars, TurnInv, TurnKnown, Responding, Final
<1> QED BY <1>1, <1>2, <1>3, <1>4, <1>5, <1>6, <1>7, <1>8, <1>9 DEF TurnNext

\* What the invariant is for.
LEMMA TurnFollows == TurnInv => TurnTypeOK /\ TurnHolds
<1> SUFFICES ASSUME TurnInv PROVE TurnTypeOK /\ TurnHolds
  OBVIOUS
<1>1. /\ phase \in Phases /\ made \in Nat /\ msgs \in Seq(Messages) /\ told \in Seq(Messages)
      /\ \A i \in DOMAIN msgs : msgs[i].id \in 1 .. made
      /\ \A i, j \in DOMAIN msgs : msgs[i].id = msgs[j].id => i = j
      /\ \A i \in DOMAIN told : told[i].id \in 1 .. made
  BY DEF TurnInv, TurnKnown, Identified, Seen
<1>2. \A i \in DOMAIN msgs : /\ msgs[i].type \in {"human", "ai", "tool"} /\ msgs[i].text \in Texts
                             /\ \A k \in DOMAIN msgs[i].calls : NameOf(msgs[i].calls[k]) \in Tools
  <2>1. TAKE i \in DOMAIN msgs
  <2>2. msgs[i] \in Messages
    BY <1>1
  <2>3. \A c \in CallsMade : NameOf(c) \in Tools
    BY DEF CallsMade, NameOf
  <2> QED BY <2>2, <2>3, MessageIs
<1>3. TurnTypeOK
  BY <1>1, <1>2 DEF TurnTypeOK
<1>4. WellFormed(Patched(msgs))
  BY <1>1, PatchedWellFormed DEF TurnInv
<1>5. QuestionsWait
  BY DEF TurnInv, Waits, Asks, Said, QuestionsWait
<1> QED BY <1>3, <1>4, <1>5 DEF TurnHolds, RequestsWellFormed

\* Messages have ids of their own, and the stream yields messages of the thread.
THEOREM TurnTypes == TurnSpec => []TurnTypeOK
BY TurnFollows, TurnInvInit, TurnInvStep, PTL DEF TurnSpec

\* Model and user each get what they are due, though turns break off anywhere.
THEOREM TurnsAreAnswered == TurnSpec => []TurnHolds
BY TurnFollows, TurnInvInit, TurnInvStep, PTL DEF TurnSpec

\* In turns the loop detector does what LoopSpec says of it: it is shown responses, each
\* once, and before the limit takes calls away.
LEMMA LoopsInTurns == TurnInv /\ [TurnNext]_agentVars => [LoopNext]_loopVars
<1> SUFFICES ASSUME TurnInv, TurnNext, ~(UNCHANGED loopVars) PROVE LoopNext
  BY DEF agentVars
<1>1. CASE UserSays
  BY <1>1 DEF UserSays, LoopNext
<1>2. CASE AfterLoop
  <2>1. Final.calls # <<>> /\ Track(Thread, Names(Final))
    BY <1>2 DEF AfterLoop
  <2>2. Names(Final) \in Responses \cup {<<>>}
    BY <1>2 DEF AfterLoop, TurnInv
  <2>3. Names(Final) # <<>>
    <3>1. Final \in Messages
      BY <1>2, FinalIs DEF AfterLoop, TurnInv, Responding
    <3>2. Len(Final.calls) \in Nat /\ DOMAIN Final.calls = 1 .. Len(Final.calls) /\ Final.calls \in Seq(CallsMade)
      BY <3>1, MessageIs
    <3>3. 1 \in DOMAIN Final.calls
      BY <2>1, <3>2, EmptySeq
    <3>4. 1 \in DOMAIN Names(Final)
      BY <3>3 DEF Names
    <3> QED BY <3>4
  <2>4. Thread \in LoopThreads
    BY TurnAssumption
  <2> QED BY <2>1, <2>2, <2>3, <2>4 DEF LoopNext
<1>3. ~(BeforeModel \/ AfterLimit \/ Route \/ ToolsRun \/ TurnStops \/ \E names \in Responses \cup {<<>>} : Model(names))
  BY DEF BeforeModel, AfterLimit, Route, ToolsRun, TurnStops, Model
<1> QED BY <1>1, <1>2, <1>3 DEF TurnNext

\* So what is proved of the detector holds in the turns of the lead agent
\* (agents/lead_agent/agent.py, loop_detection_middleware.py).
THEOREM TurnsGuardLoops == TurnSpec => LoopSpec
<1>1. TurnInit => LoopInit
  BY DEF TurnInit
<1> QED BY <1>1, TurnInvInit, TurnInvStep, LoopsInTurns, PTL DEF TurnSpec, LoopSpec

-----------------------------------------------------------------------------
(***************************************************************************)
(* The todos. Keys are dropped by other runs of the thread and by the cap  *)
(* on keys; the invariant follows each run: how often it was sent back,    *)
(* how often its key was taken from it, and, if no other run has its key,  *)
(* that what is pending is what its requests have not carried.             *)
(***************************************************************************)

\* The touch order has every key with reminders, and no more keys than are kept.
Remembered ==
    /\ \A k \in Keys : pending[k] > 0 \/ counts[k] > 0 => k \in ElementsOf(touched)
    /\ Len(touched) <= MaxKeys

\* Nobody else has the key of r.
Alone(r) == \A o \in Runs \ {r} : Key(o) # Key(r)

\* While a run is live, its count is of the times it was sent back since it was last robbed;
\* and if its key is its own, what is pending is what its requests have not carried yet.
RunFits(r) ==
    /\ runs[r].phase = "new" => jumps[r] = 0
    /\ Live(r) => jumps[r] <= MaxReminders * robbed[r] + counts[Key(r)]
    /\ jumps[r] <= MaxReminders * (1 + robbed[r])
    /\ runs[r].phase = "counted" => jumps[r] + 1 <= MaxReminders * (1 + robbed[r])
    /\ Alone(r) =>
          /\ runs[r].phase = "new" => pending[Key(r)] = 0 /\ nudges[r] = 0
          /\ Live(r) => nudges[r] + pending[Key(r)] <= jumps[r]
          /\ Live(r) /\ robbed[r] = 0 => jumps[r] = nudges[r] + pending[Key(r)]
          /\ nudges[r] <= jumps[r]

TodoInv == TodoTypeOK /\ Remembered /\ \A r \in Runs : RunFits(r)

\* The types of the maps and of the runs, one by one.
LEMMA TodoKnown == TodoInv =>
    /\ pending \in [Keys -> Nat] /\ counts \in [Keys -> Nat]
    /\ touched \in Seq(Keys) /\ Distinct(touched) /\ DOMAIN touched = 1 .. Len(touched) /\ Len(touched) \in Nat
    /\ runs \in [Runs -> [phase : Stages, todos : Todos]]
    /\ jumps \in [Runs -> 0 .. MaxJumps] /\ nudges \in [Runs -> Nat] /\ robbed \in [Runs -> Nat]
    /\ MaxReminders \in Nat /\ MaxKeys \in Nat \ {0} /\ MaxJumps \in Nat
    /\ Known = ElementsOf(touched) /\ Len(touched) <= MaxKeys
    /\ \A r \in Runs : Key(r) \in Keys
<1> SUFFICES ASSUME TodoInv
             PROVE  /\ pending \in [Keys -> Nat] /\ counts \in [Keys -> Nat]
                    /\ touched \in Seq(Keys) /\ Distinct(touched) /\ DOMAIN touched = 1 .. Len(touched) /\ Len(touched) \in Nat
                    /\ runs \in [Runs -> [phase : Stages, todos : Todos]]
                    /\ jumps \in [Runs -> 0 .. MaxJumps] /\ nudges \in [Runs -> Nat] /\ robbed \in [Runs -> Nat]
                    /\ MaxReminders \in Nat /\ MaxKeys \in Nat \ {0} /\ MaxJumps \in Nat
                    /\ Known = ElementsOf(touched) /\ Len(touched) <= MaxKeys
                    /\ \A r \in Runs : Key(r) \in Keys
  OBVIOUS
<1>1. /\ pending \in [Keys -> Nat] /\ counts \in [Keys -> Nat]
      /\ touched \in Seq(Keys) /\ Distinct(touched)
      /\ runs \in [Runs -> [phase : Stages, todos : Todos]]
      /\ jumps \in [Runs -> 0 .. MaxJumps] /\ nudges \in [Runs -> Nat] /\ robbed \in [Runs -> Nat]
  BY DEF TodoInv, TodoTypeOK, Distinct
<1>2. MaxReminders \in Nat /\ MaxKeys \in Nat \ {0} /\ MaxJumps \in Nat
  BY TodoAssumption
<1>3. \A r \in Runs : Key(r) \in Keys
  BY DEF Keys
<1>4. DOMAIN touched = 1 .. Len(touched) /\ Len(touched) \in Nat /\ \A i \in DOMAIN touched : touched[i] \in Keys
  BY <1>1
<1>5. Known = ElementsOf(touched) /\ Len(touched) <= MaxKeys
  BY <1>4 DEF TodoInv, Remembered, Known, ElementsOf
<1> QED
  BY <1>1, <1>2, <1>3, <1>4, <1>5

\* The keys that are kept: if the touch order has them all, it bounds them.
LEMMA KeysKept == ASSUME NEW p \in [Keys -> Nat], NEW c \in [Keys -> Nat], NEW s \in Seq(Keys),
                         Distinct(s), Len(s) <= MaxKeys,
                         \A k \in Keys : p[k] > 0 \/ c[k] > 0 => k \in ElementsOf(s)
                  PROVE  Cardinality({k \in Keys : p[k] > 0 \/ c[k] > 0 \/ \E i \in DOMAIN s : s[i] = k}) <= MaxKeys
<1> DEFINE K == {k \in Keys : p[k] > 0 \/ c[k] > 0 \/ \E i \in DOMAIN s : s[i] = k}
<1>1. K = ElementsOf(s)
  BY DEF ElementsOf
<1>2. Cardinality(ElementsOf(s)) = Len(s)
  BY DistinctCounts
<1> QED
  BY <1>1, <1>2

\* A step keeps the type invariant and the order of keys if it keeps what is said here.
LEMMA MapsKeep == ASSUME pending' \in [Keys -> Nat], counts' \in [Keys -> Nat],
                         touched' \in Seq(Keys), Distinct(touched'), Len(touched') <= MaxKeys,
                         \A k \in Keys : pending'[k] > 0 \/ counts'[k] > 0 => k \in ElementsOf(touched'),
                         runs' \in [Runs -> [phase : Stages, todos : Todos]],
                         jumps' \in [Runs -> 0 .. MaxJumps], nudges' \in [Runs -> Nat], robbed' \in [Runs -> Nat]
                  PROVE  TodoTypeOK' /\ Remembered'
<1>1. Cardinality({k \in Keys : pending'[k] > 0 \/ counts'[k] > 0 \/ \E i \in DOMAIN touched' : touched'[i] = k}) <= MaxKeys
  BY KeysKept
<1>2. Cardinality(Known') <= MaxKeys
  BY <1>1 DEF Known, Keys, Key
<1>3. \A i, j \in DOMAIN touched' : touched'[i] = touched'[j] => i = j
  BY DEF Distinct
<1> QED
  BY <1>2, <1>3 DEF TodoTypeOK, Remembered, Keys, Key, ElementsOf

\* The arithmetic of the cap.
LEMMA Times == ASSUME NEW m \in Nat, NEW n \in Nat PROVE m * (1 + n) = m * n + m /\ m * n \in Nat
  OBVIOUS

\* What a step of r does to another run: its key may be dropped, and then it is robbed.
LEMMA OthersKeep == ASSUME TodoInv, NEW o \in Runs, NEW K,
                           runs'[o] = runs[o], jumps'[o] = jumps[o], nudges'[o] = nudges[o],
                           robbed'[o] = IF Live(o) /\ Key(o) \in K THEN robbed[o] + 1 ELSE robbed[o],
                           counts'[Key(o)] \in Nat,
                           Key(o) \notin K => counts'[Key(o)] >= counts[Key(o)],
                           Alone(o) => pending'[Key(o)] = IF Key(o) \in K THEN 0 ELSE pending[Key(o)]
                    PROVE  RunFits(o)'
<1> DEFINE j == jumps[o]
           m == MaxReminders
           n == robbed[o]
           c == counts[Key(o)]
           d == counts'[Key(o)]
<1>1. j \in Nat /\ m \in Nat /\ n \in Nat /\ c \in Nat /\ d \in Nat /\ nudges[o] \in Nat /\ pending[Key(o)] \in Nat
  BY TodoKnown
<1>2. RunFits(o)
  BY DEF TodoInv
<1>3. (Live(o)' <=> Live(o)) /\ (Alone(o)' <=> Alone(o)) /\ Key(o)' = Key(o)
  BY DEF Live, Alone, Key
<1>4. m * n \in Nat /\ m * (1 + n) = m * n + m /\ m * (n + 1) = m * n + m
      /\ m * (1 + (n + 1)) = m * n + m + m
  <2>1. \A x \in Nat, y \in Nat : x * (1 + y) = x * y + x /\ x * y \in Nat
    BY Times
  <2> HIDE DEF m, n
  <2>2. m * n \in Nat /\ m * (1 + n) = m * n + m /\ n + 1 \in Nat
    BY <1>1, <2>1
  <2>3. m * (1 + (n + 1)) = m * (n + 1) + m
    BY <1>1, <2>1, <2>2
  <2>4. n + 1 = 1 + n
    BY <1>1
  <2> QED
    BY <2>2, <2>3, <2>4
<1>5. CASE Live(o) /\ Key(o) \in K
  <2>1. robbed'[o] = n + 1
    BY <1>5
  <2>2. j <= m * (1 + n)
    BY <1>2 DEF RunFits
  <2> DEFINE p == m * n
             q == m * (n + 1)
  <2>3. j <= q + d /\ j <= q + m
    <3> HIDE DEF j, m, n, c, d
    <3>1. p \in Nat /\ q = p + m /\ j <= p + m
      BY <1>4, <2>2
    <3> HIDE DEF p, q
    <3> QED
      BY <1>1, <3>1
  <2>4. m * (1 + (n + 1)) = q + m
    BY <1>4
  <2>5. runs[o].phase # "new"
    BY <1>5 DEF Live
  <2>6. Alone(o) => nudges[o] <= j /\ pending'[Key(o)] = 0
    BY <1>2, <1>5 DEF RunFits
  <2>7. n + 1 # 0 /\ nudges[o] + 0 = nudges[o]
    BY <1>1
  <2>9. runs[o].phase = "counted" => j + 1 <= q + m
    <3>1. runs[o].phase = "counted" => j + 1 <= m * (1 + n)
      BY <1>2 DEF RunFits
    <3> HIDE DEF j, m, n, c, d
    <3>2. p \in Nat /\ q = p + m /\ m * (1 + n) = p + m
      BY <1>4
    <3> HIDE DEF p, q
    <3> QED
      BY <1>1, <3>1, <3>2
  <2> HIDE DEF j, m, n, c, d, p, q
  <2>8. jumps'[o] = j /\ j <= MaxReminders * robbed'[o] + counts'[Key(o)] /\ j <= MaxReminders * (1 + robbed'[o])
    BY <2>1, <2>3, <2>4 DEF j, m, q, d
  <2>10. runs[o].phase = "counted" => jumps'[o] + 1 <= MaxReminders * (1 + robbed'[o])
    BY <2>1, <2>4, <2>9 DEF j, m
  <2> QED
    BY <1>3, <2>1, <2>5, <2>6, <2>7, <2>8, <2>10 DEF RunFits
<1>6. CASE ~(Live(o) /\ Key(o) \in K)
  <2>1. robbed'[o] = robbed[o]
    BY <1>6
  <2>2. Live(o) => jumps[o] <= MaxReminders * robbed[o] + counts'[Key(o)]
    <3>1. SUFFICES ASSUME Live(o) PROVE j <= m * n + d
      OBVIOUS
    <3>2. j <= m * n + c /\ d >= c
      BY <1>2, <1>6, <3>1 DEF RunFits
    <3> DEFINE p == m * n
    <3> HIDE DEF j, m, n, c, d
    <3>3. p \in Nat /\ j <= p + c
      BY <1>4, <3>2
    <3> HIDE DEF p
    <3>4. j <= p + d
      BY <1>1, <3>2, <3>3
    <3> QED
      BY <3>4 DEF p
  <2>3. Alone(o) /\ Live(o) => pending'[Key(o)] = pending[Key(o)]
    BY <1>6
  <2>4. Alone(o) /\ runs[o].phase = "new" => pending'[Key(o)] = 0
    BY <1>2 DEF RunFits
  <2> QED
    BY <1>2, <1>3, <2>1, <2>2, <2>3, <2>4 DEF RunFits
<1> QED
  BY <1>5, <1>6

\* No run has begun at the start.
LEMMA TodoInitially == TodoInit => TodoInv
<1> SUFFICES ASSUME TodoInit PROVE TodoInv
  OBVIOUS
<1>1. MaxReminders \in Nat /\ MaxKeys \in Nat \ {0} /\ MaxJumps \in Nat
  BY TodoAssumption
<1>2. /\ pending \in [Keys -> Nat] /\ counts \in [Keys -> Nat] /\ touched \in Seq(Keys)
      /\ Distinct(touched) /\ Len(touched) <= MaxKeys
      /\ \A k \in Keys : ~(pending[k] > 0 \/ counts[k] > 0)
      /\ runs \in [Runs -> [phase : Stages, todos : Todos]]
      /\ jumps \in [Runs -> 0 .. MaxJumps] /\ nudges \in [Runs -> Nat] /\ robbed \in [Runs -> Nat]
  BY <1>1 DEF TodoInit, Distinct, Stages, Todos
<1>3. Cardinality(Known) <= MaxKeys
  <2>1. Cardinality({k \in Keys : pending[k] > 0 \/ counts[k] > 0 \/ \E i \in DOMAIN touched : touched[i] = k}) <= MaxKeys
    BY <1>2, KeysKept
  <2> QED
    BY <2>1 DEF Known
<1>4. TodoTypeOK /\ Remembered
  BY <1>2, <1>3 DEF TodoTypeOK, Remembered, Distinct
<1>5. ASSUME NEW r \in Runs PROVE RunFits(r)
  <2>1. jumps[r] = 0 /\ nudges[r] = 0 /\ robbed[r] = 0 /\ runs[r].phase = "new" /\ pending[Key(r)] = 0
    BY DEF TodoInit, Keys
  <2>2. MaxReminders * (1 + 0) = MaxReminders * 0 + MaxReminders /\ MaxReminders * 0 \in Nat
    BY <1>1, Times
  <2>3. 0 <= MaxReminders * (1 + 0)
    BY <1>1, <2>2
  <2>4. ~Live(r)
    BY <2>1 DEF Live
  <2> QED
    BY <2>1, <2>3, <2>4 DEF RunFits
<1> QED
  BY <1>4, <1>5 DEF TodoInv

\* Dropping keys drops them from the maps and the order.
LEMMA DropIs == ASSUME TodoInv, NEW r \in Runs, NEW K, Drop(r, K)
                PROVE  /\ pending' \in [Keys -> Nat] /\ counts' \in [Keys -> Nat]
                       /\ touched' \in Seq(Keys) /\ Distinct(touched') /\ Len(touched') <= MaxKeys
                       /\ \A k \in Keys : pending'[k] > 0 \/ counts'[k] > 0 => k \in ElementsOf(touched')
                       /\ robbed' \in [Runs -> Nat]
                       /\ \A k \in Keys : /\ pending'[k] = (IF k \in K THEN 0 ELSE pending[k])
                                          /\ counts'[k] = (IF k \in K THEN 0 ELSE counts[k])
                       /\ \A o \in Runs : robbed'[o] = IF o # r /\ Live(o) /\ Key(o) \in K THEN robbed[o] + 1 ELSE robbed[o]
<1>1. /\ pending \in [Keys -> Nat] /\ counts \in [Keys -> Nat]
      /\ touched \in Seq(Keys) /\ Distinct(touched) /\ Len(touched) <= MaxKeys /\ Len(touched) \in Nat
      /\ robbed \in [Runs -> Nat] /\ MaxReminders \in Nat /\ MaxKeys \in Nat
  BY TodoKnown
<1>2. \A k \in Keys : /\ pending'[k] = (IF k \in K THEN 0 ELSE pending[k])
                      /\ counts'[k] = (IF k \in K THEN 0 ELSE counts[k])
  BY DEF Drop, Zero
<1>3. pending' \in [Keys -> Nat] /\ counts' \in [Keys -> Nat]
  BY <1>1 DEF Drop, Zero
<1>4. touched' = Without(touched, K)
  BY DEF Drop
<1>5. touched' \in Seq(Keys) /\ Distinct(touched') /\ ElementsOf(touched') = ElementsOf(touched) \ K /\ Len(touched') \in Nat
  BY <1>1, <1>4, WithoutElements, Zenon
<1>6. Len(touched') <= MaxKeys
  <2>1. IsWithout(touched', touched, K, Len(touched), Keys)
    BY <1>1, <1>4, WithoutIs, Zenon
  <2>2. Len(touched') <= Len(touched)
    BY <2>1 DEF IsWithout
  <2> QED
    BY <1>1, <1>5, <2>2
<1>7. \A k \in Keys : pending'[k] > 0 \/ counts'[k] > 0 => k \in ElementsOf(touched')
  BY <1>2, <1>5 DEF TodoInv, Remembered
<1>8. \A o \in Runs : robbed'[o] = IF o # r /\ Live(o) /\ Key(o) \in K THEN robbed[o] + 1 ELSE robbed[o]
  BY DEF Drop, Robs
<1>9. robbed' \in [Runs -> Nat]
  BY <1>1 DEF Drop, Robs
<1> QED
  BY <1>2, <1>3, <1>5, <1>6, <1>7, <1>8, <1>9

\* A run that has a key to itself shares it with nobody.
LEMMA OthersAs == ASSUME NEW r \in Runs, NEW o \in Runs, o # r, Alone(o) PROVE Key(o) # Key(r)
  BY DEF Alone

\* A run starts, and the other runs of its thread lose their keys.
LEMMA BeforeAgentKeeps == ASSUME TodoInv, NEW r \in Runs, BeforeAgent(r) PROVE TodoInv'
<1>1. /\ runs[r].phase = "new" /\ Drop(r, Foreign(r)) /\ UNCHANGED <<jumps, nudges>>
      /\ \E todos \in Todos : runs' = [runs EXCEPT ![r] = [phase |-> "loop", todos |-> todos]]
  BY DEF BeforeAgent
<1>2. /\ runs' \in [Runs -> [phase : Stages, todos : Todos]] /\ runs'[r].phase = "loop"
      /\ \A o \in Runs : o # r => runs'[o] = runs[o]
  BY <1>1, TodoKnown DEF Stages
<1>3. TodoTypeOK' /\ Remembered'
  BY <1>1, <1>2, DropIs, TodoKnown, MapsKeep
<1>4. ASSUME NEW o \in Runs, o # r PROVE RunFits(o)'
  <2>1. Key(o) \in Keys /\ counts[Key(o)] \in Nat
    BY TodoKnown
  <2>2. /\ robbed'[o] = IF Live(o) /\ Key(o) \in Foreign(r) THEN robbed[o] + 1 ELSE robbed[o]
        /\ counts'[Key(o)] \in Nat
        /\ Key(o) \notin Foreign(r) => counts'[Key(o)] = counts[Key(o)]
        /\ pending'[Key(o)] = IF Key(o) \in Foreign(r) THEN 0 ELSE pending[Key(o)]
    BY <1>1, <1>4, <2>1, DropIs
  <2>3. Key(o) \notin Foreign(r) => counts'[Key(o)] >= counts[Key(o)]
    BY <2>1, <2>2
  <2> QED
    BY <1>1, <1>2, <1>4, <2>2, <2>3, OthersKeep
<1>5. RunFits(r)'
  <2>1. Key(r) \in Keys /\ Key(r) \notin Foreign(r)
    BY TodoKnown DEF Foreign
  <2>2. robbed'[r] = robbed[r] /\ counts'[Key(r)] = counts[Key(r)] /\ pending'[Key(r)] = pending[Key(r)]
    BY <1>1, <2>1, DropIs
  <2>3. /\ jumps'[r] = 0 /\ (Alone(r) => pending'[Key(r)] = 0 /\ nudges'[r] = 0)
        /\ jumps'[r] <= MaxReminders * (1 + robbed'[r])
    BY <1>1, <2>2 DEF TodoInv, RunFits
  <2>4. jumps'[r] <= MaxReminders * robbed'[r] + counts'[Key(r)]
    <3>1. MaxReminders \in Nat /\ robbed'[r] \in Nat /\ counts'[Key(r)] \in Nat
      BY <2>1, <2>2, TodoKnown
    <3>2. MaxReminders * robbed'[r] \in Nat
      BY <3>1, Times
    <3> QED
      BY <2>3, <3>1, <3>2
  <2>5. Key(r)' = Key(r) /\ Alone(r)' <=> Alone(r)
    BY DEF Key, Alone
  <2> QED
    BY <1>2, <2>3, <2>4, <2>5 DEF RunFits, Alone, Key
<1> QED
  BY <1>3, <1>4, <1>5 DEF TodoInv

\* A run ends, and its key goes with it.
LEMMA AfterAgentKeeps == ASSUME TodoInv, NEW r \in Runs, AfterAgent(r) PROVE TodoInv'
<1> DEFINE K == {Key(r)}
<1>1. /\ runs[r].phase = "model" /\ Drop(r, K) /\ UNCHANGED <<jumps, nudges>>
      /\ runs' = [runs EXCEPT ![r].phase = "over"]
  BY DEF AfterAgent, Goes
<1>2. /\ runs' \in [Runs -> [phase : Stages, todos : Todos]] /\ runs'[r].phase = "over"
      /\ \A o \in Runs : o # r => runs'[o] = runs[o]
  BY <1>1, TodoKnown DEF Stages
<1>3. TodoTypeOK' /\ Remembered'
  BY <1>1, <1>2, DropIs, TodoKnown, MapsKeep
<1>4. ASSUME NEW o \in Runs, o # r PROVE RunFits(o)'
  <2>1. Key(o) \in Keys /\ counts[Key(o)] \in Nat
    BY TodoKnown
  <2>2. /\ robbed'[o] = IF Live(o) /\ Key(o) \in K THEN robbed[o] + 1 ELSE robbed[o]
        /\ counts'[Key(o)] \in Nat
        /\ Key(o) \notin K => counts'[Key(o)] = counts[Key(o)]
        /\ pending'[Key(o)] = IF Key(o) \in K THEN 0 ELSE pending[Key(o)]
    BY <1>1, <1>4, <2>1, DropIs
  <2>3. Key(o) \notin K => counts'[Key(o)] >= counts[Key(o)]
    BY <2>1, <2>2
  <2> QED
    BY <1>1, <1>2, <1>4, <2>2, <2>3, OthersKeep
<1>5. RunFits(r)'
  <2>1. robbed'[r] = robbed[r]
    BY <1>1, DropIs
  <2>2. jumps'[r] <= MaxReminders * (1 + robbed'[r]) /\ (Alone(r) => nudges'[r] <= jumps'[r])
    BY <1>1, <2>1 DEF TodoInv, RunFits
  <2>3. ~Live(r)' /\ runs'[r].phase # "new"
    BY <1>2 DEF Live
  <2> QED
    BY <1>2, <2>2, <2>3 DEF RunFits, Alone, Key
<1> QED
  BY <1>3, <1>4, <1>5 DEF TodoInv

\* A run goes on, or is given up, and touches no key.
LEMMA RunGoesOn == ASSUME TodoInv, NEW r \in Runs, Works(r) \/ BelowCap(r) \/ Abort(r) PROVE TodoInv'
<1>1. /\ Live(r) /\ UNCHANGED <<pending, counts, touched, jumps, nudges, robbed>>
      /\ runs'[r].phase # "new"
      /\ runs' \in [Runs -> [phase : Stages, todos : Todos]]
      /\ \A o \in Runs : o # r => runs'[o] = runs[o]
  <2>1. runs \in [Runs -> [phase : Stages, todos : Todos]]
    BY TodoKnown
  <2>2. CASE Works(r)
    BY <2>1, <2>2 DEF Works, Live, Stages
  <2>3. CASE Abort(r)
    BY <2>1, <2>3 DEF Abort, Goes, Stages
  <2>4. CASE BelowCap(r)
    BY <2>1, <2>4 DEF BelowCap, Goes, Live, Stages
  <2> QED
    BY <2>2, <2>3, <2>4
<1>2. TodoTypeOK' /\ Remembered'
  <2>1. \A k \in Keys : pending[k] > 0 \/ counts[k] > 0 => k \in ElementsOf(touched)
    BY DEF TodoInv, Remembered
  <2> QED
    BY <1>1, <2>1, TodoKnown, MapsKeep
<1>4. ASSUME runs'[r].phase = "counted" PROVE jumps[r] + 1 <= MaxReminders * (1 + robbed[r])
  <2>1. BelowCap(r)
    <3>1. runs[r] \in [phase : Stages, todos : Todos] /\ runs \in [Runs -> [phase : Stages, todos : Todos]]
      BY TodoKnown
    <3>2. CASE Works(r)
      BY <1>4, <3>1, <3>2 DEF Works
    <3>3. CASE Abort(r)
      BY <1>4, <3>1, <3>3 DEF Abort, Goes
    <3> QED
      BY <3>2, <3>3
  <2> DEFINE p == MaxReminders * robbed[r]
             q == MaxReminders * (1 + robbed[r])
             j == jumps[r]
             c == counts[Key(r)]
  <2>2. MaxReminders \in Nat /\ robbed[r] \in Nat /\ j \in Nat /\ c \in Nat
    BY TodoKnown
  <2>3. p \in Nat /\ q = p + MaxReminders
    BY <2>2, Times
  <2>4. j <= p + c /\ c < MaxReminders
    BY <1>1, <2>1 DEF TodoInv, RunFits, BelowCap
  <2> HIDE DEF p, q, j, c
  <2>5. j + 1 <= q
    BY <2>2, <2>3, <2>4
  <2> QED
    BY <2>5 DEF j, q
<1>3. ASSUME NEW o \in Runs PROVE RunFits(o)'
  <2>1. RunFits(o)
    BY DEF TodoInv
  <2>2. CASE o = r
    <3>1. runs'[r].phase = "counted" => jumps[r] + 1 <= MaxReminders * (1 + robbed[r])
      BY <1>4, <2>1 DEF RunFits
    <3> QED
      BY <1>1, <2>1, <2>2, <3>1 DEF RunFits, Live, Alone, Key
  <2>3. CASE o # r
    BY <1>1, <2>1, <2>3 DEF RunFits, Live, Alone, Key
  <2> QED
    BY <2>2, <2>3
<1> QED
  BY <1>2, <1>3 DEF TodoInv

\* Touching a key moves it to the end.
LEMMA TouchedIs == ASSUME TodoInv, NEW k \in Keys
                   PROVE  /\ Touched(k) \in Seq(Keys) /\ Distinct(Touched(k))
                          /\ ElementsOf(Touched(k)) = ElementsOf(touched) \cup {k}
                          /\ Len(Touched(k)) \in Nat
                          /\ k \in ElementsOf(touched) => Len(Touched(k)) <= MaxKeys
<1> DEFINE g == Without(touched, {k})
           h == Append(g, k)
<1>1. touched \in Seq(Keys) /\ Distinct(touched) /\ Len(touched) <= MaxKeys /\ Len(touched) \in Nat /\ MaxKeys \in Nat
      /\ DOMAIN touched = 1 .. Len(touched)
  BY TodoKnown
<1>2. /\ g \in Seq(Keys) /\ Distinct(g) /\ ElementsOf(g) = ElementsOf(touched) \ {k}
      /\ DOMAIN g = 1 .. Len(g) /\ Len(g) \in Nat
  BY <1>1, WithoutElements
<1>3. k \in ElementsOf(touched) => Len(g) < Len(touched)
  <2>1. IsWithout(g, touched, {k}, Len(touched), Keys)
    BY <1>1, WithoutIs
  <2> QED
    BY <1>1, <2>1 DEF IsWithout, ElementsOf
<1> HIDE DEF g
<1>4. /\ h \in Seq(Keys) /\ Len(h) = Len(g) + 1 /\ DOMAIN h = 1 .. (Len(g) + 1) /\ h[Len(g) + 1] = k
      /\ \A i \in 1 .. Len(g) : h[i] = g[i]
      /\ 1 .. (Len(g) + 1) = (1 .. Len(g)) \cup {Len(g) + 1}
  BY <1>2
<1>5. \A i \in 1 .. Len(g) : g[i] # k
  BY <1>2 DEF ElementsOf
<1>6. Distinct(h)
  BY <1>2, <1>4, <1>5 DEF Distinct
<1>7. ElementsOf(h) = ElementsOf(touched) \cup {k}
  BY <1>2, <1>4 DEF ElementsOf
<1>8. k \in ElementsOf(touched) => Len(h) <= MaxKeys
  BY <1>1, <1>2, <1>3, <1>4
<1>9. Touched(k) = h
  BY DEF Touched, g
<1> QED
  BY <1>2, <1>4, <1>6, <1>7, <1>8, <1>9

\* A request takes what is pending with it.
LEMMA RequestKeeps == ASSUME TodoInv, NEW r \in Runs, Request(r) PROVE TodoInv'
<1> DEFINE k == Key(r)
<1>1. /\ runs[r].phase = "loop" /\ nudges' = [nudges EXCEPT ![r] = @ + pending[k]]
      /\ pending' = [pending EXCEPT ![k] = 0]
      /\ touched' = IF pending[k] > 0 \/ counts[k] > 0 THEN Touched(k) ELSE touched
      /\ runs' = [runs EXCEPT ![r].phase = "model"] /\ UNCHANGED <<counts, jumps, robbed>>
  BY DEF Request, Drained, Goes
<1>2. k \in Keys
  BY TodoKnown
<1>3. /\ runs' \in [Runs -> [phase : Stages, todos : Todos]] /\ runs'[r].phase = "model"
      /\ \A o \in Runs : o # r => runs'[o] = runs[o]
  BY <1>1, TodoKnown DEF Stages
<1>4. pending' \in [Keys -> Nat] /\ nudges' \in [Runs -> Nat] /\ pending'[k] = 0
      /\ \A a \in Keys : a # k => pending'[a] = pending[a]
  BY <1>1, <1>2, TodoKnown
<1>5. nudges'[r] = nudges[r] + pending[k] /\ \A o \in Runs : o # r => nudges'[o] = nudges[o]
  BY <1>1, TodoKnown
<1>6. \A a \in Keys : pending[a] > 0 \/ counts[a] > 0 => a \in ElementsOf(touched)
  BY DEF TodoInv, Remembered
<1>7. /\ touched' \in Seq(Keys) /\ Distinct(touched') /\ Len(touched') <= MaxKeys
      /\ ElementsOf(touched) \subseteq ElementsOf(touched')
  <2>1. CASE pending[k] > 0 \/ counts[k] > 0
    <3>1. touched' = Touched(k) /\ k \in ElementsOf(touched)
      BY <1>1, <1>2, <1>6, <2>1
    <3> QED
      BY <1>2, <3>1, TouchedIs
  <2>2. CASE ~(pending[k] > 0 \/ counts[k] > 0)
    BY <1>1, <2>2, TodoKnown
  <2> QED
    BY <2>1, <2>2
<1>8. TodoTypeOK' /\ Remembered'
  <2>1. \A a \in Keys : pending'[a] > 0 \/ counts'[a] > 0 => a \in ElementsOf(touched')
    BY <1>1, <1>4, <1>6, <1>7
  <2>2. counts' \in [Keys -> Nat] /\ jumps' \in [Runs -> 0 .. MaxJumps] /\ robbed' \in [Runs -> Nat]
    BY <1>1, TodoKnown
  <2> QED
    BY <1>3, <1>4, <1>7, <2>1, <2>2, MapsKeep
<1>9. ASSUME NEW o \in Runs, o # r PROVE RunFits(o)'
  <2>1. Key(o) \in Keys /\ counts[Key(o)] \in Nat
    BY TodoKnown
  <2> DEFINE none == {}
  <2>2. /\ robbed'[o] = IF Live(o) /\ Key(o) \in none THEN robbed[o] + 1 ELSE robbed[o]
        /\ counts'[Key(o)] \in Nat
    BY <1>1, <2>1
  <2>3. Key(o) \notin none => counts'[Key(o)] >= counts[Key(o)]
    BY <1>1, <2>1
  <2>4. Alone(o) => pending'[Key(o)] = IF Key(o) \in none THEN 0 ELSE pending[Key(o)]
    BY <1>4, <1>9, <2>1, OthersAs
  <2>5. jumps'[o] = jumps[o] /\ nudges'[o] = nudges[o] /\ runs'[o] = runs[o]
    BY <1>1, <1>3, <1>5, <1>9
  <2> HIDE DEF none
  <2> QED
    BY <2>2, <2>3, <2>4, <2>5, OthersKeep
<1>10. RunFits(r)'
  <2>1. Live(r) /\ RunFits(r) /\ runs'[r].phase # "new"
    BY <1>1, <1>3 DEF TodoInv, Live
  <2>2. nudges'[r] + pending'[k] = nudges[r] + pending[k] /\ nudges'[r] = nudges[r] + pending[k]
    BY <1>2, <1>4, <1>5, TodoKnown
  <2>3. /\ jumps'[r] <= MaxReminders * robbed'[r] + counts'[Key(r)]
        /\ jumps'[r] <= MaxReminders * (1 + robbed'[r])
    BY <1>1, <2>1 DEF RunFits
  <2>4. Alone(r) => /\ nudges'[r] + pending'[k] <= jumps'[r] /\ nudges'[r] <= jumps'[r]
                    /\ robbed'[r] = 0 => jumps'[r] = nudges'[r] + pending'[k]
    <3>1. Alone(r) => /\ nudges[r] + pending[k] <= jumps[r]
                      /\ robbed[r] = 0 => jumps[r] = nudges[r] + pending[k]
      BY <2>1 DEF RunFits
    <3> QED
      BY <1>1, <2>2, <3>1
  <2> QED
    BY <1>3, <2>1, <2>3, <2>4 DEF RunFits, Alone, Key
<1> QED
  BY <1>8, <1>9, <1>10 DEF TodoInv

\* A key that is new among MaxKeys makes the one that was touched longest ago go.
LEMMA PrunedIs == ASSUME TodoInv, NEW r \in Runs
                  PROVE  /\ Key(r) \notin Pruned(r)
                         /\ Len(Without(Touched(Key(r)), Pruned(r))) <= MaxKeys
<1> DEFINE k == Key(r)
           g == Without(touched, {k})
           n == Cardinality(Known \cup {k})
           t == Touched(k)
           out == Pruned(r)
           new == Without(t, out)
<1>1. /\ touched \in Seq(Keys) /\ Distinct(touched) /\ Len(touched) <= MaxKeys /\ Len(touched) \in Nat
      /\ MaxKeys \in Nat \ {0} /\ k \in Keys /\ Known = ElementsOf(touched)
  BY TodoKnown
<1>2. /\ g \in Seq(Keys) /\ Distinct(g) /\ ElementsOf(g) = ElementsOf(touched) \ {k}
      /\ DOMAIN g = 1 .. Len(g) /\ Len(g) \in Nat
  BY <1>1, WithoutElements
<1>3. IsFiniteSet(ElementsOf(touched)) /\ Cardinality(ElementsOf(touched)) = Len(touched)
  BY <1>1, DistinctCounts
<1>4. n = IF k \in ElementsOf(touched) THEN Len(touched) ELSE Len(touched) + 1
  <2>1. Cardinality(ElementsOf(touched) \cup {k})
          = IF k \in ElementsOf(touched) THEN Cardinality(ElementsOf(touched)) ELSE Cardinality(ElementsOf(touched)) + 1
    BY <1>3, FS_AddElement
  <2> QED
    BY <1>1, <1>3, <2>1
<1>5. /\ t \in Seq(Keys) /\ Distinct(t) /\ ElementsOf(t) = ElementsOf(touched) \cup {k} /\ Len(t) \in Nat
      /\ k \in ElementsOf(touched) => Len(t) <= MaxKeys
  BY <1>1, TouchedIs
<1>6. Len(t) = n
  <2>1. Cardinality(ElementsOf(t)) = Len(t)
    BY <1>5, DistinctCounts
  <2> QED
    BY <1>1, <1>5, <2>1
<1>7. out = {g[i] : i \in 1 .. (n - MaxKeys)}
  BY DEF Pruned
<1> HIDE DEF k, g, t, n, out
<1>8. n \in Nat /\ n <= MaxKeys + 1
  BY <1>1, <1>4
<1>9. CASE n <= MaxKeys
  <2>1. out = {}
    BY <1>1, <1>7, <1>8, <1>9
  <2>2. IsWithout(new, t, out, Len(t), Keys)
    BY <1>5, WithoutIs
  <2>3. Len(new) <= Len(t) /\ new \in Seq(Keys)
    BY <2>2 DEF IsWithout
  <2>4. Len(new) \in Nat
    BY <2>3
  <2>5. Len(new) <= MaxKeys
    BY <1>1, <1>6, <1>8, <1>9, <2>3, <2>4
  <2> QED
    BY <2>1, <2>5 DEF k, t, out
<1>10. CASE n = MaxKeys + 1
  <2>1. out = {g[1]}
    <3>1. n - MaxKeys = 1 /\ 1 .. 1 = {1}
      BY <1>1, <1>10
    <3> QED
      BY <1>7, <3>1
  <2>2. k \notin ElementsOf(touched) /\ Len(touched) = MaxKeys
    BY <1>1, <1>4, <1>10
  <2>3. Len(g) = MaxKeys
    <3>1. ElementsOf(g) = ElementsOf(touched)
      BY <1>2, <2>2
    <3>2. Cardinality(ElementsOf(g)) = Len(g)
      BY <1>2, DistinctCounts
    <3> QED
      BY <1>3, <2>2, <3>1, <3>2
  <2>4. g[1] \in ElementsOf(g)
    BY <1>1, <1>2, <2>3 DEF ElementsOf
  <2>5. g[1] # k /\ g[1] \in ElementsOf(t)
    BY <1>2, <1>5, <2>4
  <2>6. IsWithout(new, t, out, Len(t), Keys)
    BY <1>5, WithoutIs
  <2>7. DOMAIN t = 1 .. Len(t)
    BY <1>5
  <2>8. \E j \in 1 .. Len(t) : t[j] \in out
    BY <2>1, <2>5, <2>7 DEF ElementsOf
  <2>9. Len(new) < Len(t) /\ new \in Seq(Keys)
    BY <2>6, <2>8 DEF IsWithout
  <2>10. Len(new) \in Nat
    BY <2>9
  <2>11. Len(new) <= MaxKeys
    BY <1>1, <1>6, <1>8, <1>10, <2>9, <2>10
  <2> QED
    BY <2>1, <2>5, <2>11 DEF k, t, out
<1>11. n <= MaxKeys \/ n = MaxKeys + 1
  BY <1>1, <1>8
<1> QED
  BY <1>9, <1>10, <1>11

\* A run is sent back: one more jump, one more reminder, and its key is the last touched.
LEMMA SendsBackKeeps == ASSUME TodoInv, NEW r \in Runs, SendsBack(r) PROVE TodoInv'
<1> DEFINE k == Key(r)
           out == Pruned(r)
<1>1. /\ runs[r].phase = "counted" /\ jumps[r] < MaxJumps
      /\ pending' = [Zero(pending, out) EXCEPT ![k] = @ + 1]
      /\ counts' = [Zero(counts, out) EXCEPT ![k] = @ + 1]
      /\ touched' = Without(Touched(k), out) /\ Robs(r, out)
      /\ runs' = [runs EXCEPT ![r].phase = "loop"]
      /\ jumps' = [jumps EXCEPT ![r] = @ + 1] /\ UNCHANGED nudges
  BY DEF SendsBack, Queue, Goes
<1>2. k \in Keys /\ k \notin out /\ Len(touched') <= MaxKeys
  BY <1>1, TodoKnown, PrunedIs
<1>3. /\ runs' \in [Runs -> [phase : Stages, todos : Todos]] /\ runs'[r].phase = "loop"
      /\ \A o \in Runs : o # r => runs'[o] = runs[o]
  BY <1>1, TodoKnown DEF Stages
<1>4. /\ jumps' \in [Runs -> 0 .. MaxJumps] /\ jumps'[r] = jumps[r] + 1
      /\ \A o \in Runs : o # r => jumps'[o] = jumps[o]
  BY <1>1, TodoKnown
<1> HIDE DEF out
<1>5. /\ Zero(pending, out) \in [Keys -> Nat] /\ Zero(counts, out) \in [Keys -> Nat]
      /\ \A a \in Keys : /\ Zero(pending, out)[a] = (IF a \in out THEN 0 ELSE pending[a])
                         /\ Zero(counts, out)[a] = (IF a \in out THEN 0 ELSE counts[a])
  BY TodoKnown DEF Zero
<1>6. /\ pending' \in [Keys -> Nat] /\ counts' \in [Keys -> Nat]
      /\ pending'[k] = pending[k] + 1 /\ counts'[k] = counts[k] + 1
      /\ \A a \in Keys : a # k => /\ pending'[a] = (IF a \in out THEN 0 ELSE pending[a])
                                  /\ counts'[a] = (IF a \in out THEN 0 ELSE counts[a])
  <2>1. counts[k] + 1 \in Nat /\ pending[k] + 1 \in Nat
    BY <1>2, TodoKnown
  <2>2. Zero(pending, out)[k] = pending[k] /\ Zero(counts, out)[k] = counts[k]
    BY <1>2, <1>5
  <2>3. pending' = [Zero(pending, out) EXCEPT ![k] = pending[k] + 1] /\ counts' = [Zero(counts, out) EXCEPT ![k] = counts[k] + 1]
    BY <1>1, <2>2
  <2> QED
    BY <1>2, <1>5, <2>1, <2>3
<1>7. /\ touched' \in Seq(Keys) /\ Distinct(touched') /\ ElementsOf(touched') = (ElementsOf(touched) \cup {k}) \ out
  <2>1. /\ Touched(k) \in Seq(Keys) /\ Distinct(Touched(k))
        /\ ElementsOf(Touched(k)) = ElementsOf(touched) \cup {k}
    BY <1>2, TouchedIs
  <2> HIDE DEF k
  <2>2. /\ Without(Touched(k), out) \in Seq(Keys) /\ Distinct(Without(Touched(k), out))
        /\ ElementsOf(Without(Touched(k), out)) = ElementsOf(Touched(k)) \ out
    BY <2>1, WithoutElements
  <2> QED
    BY <1>1, <2>1, <2>2
<1>8. \A o \in Runs : robbed'[o] = IF o # r /\ Live(o) /\ Key(o) \in out THEN robbed[o] + 1 ELSE robbed[o]
  BY <1>1 DEF Robs
<1>9. robbed' \in [Runs -> Nat]
  BY <1>1, TodoKnown DEF Robs
<1>10. TodoTypeOK' /\ Remembered'
  <2>1. \A a \in Keys : pending[a] > 0 \/ counts[a] > 0 => a \in ElementsOf(touched)
    BY DEF TodoInv, Remembered
  <2>2. ASSUME NEW a \in Keys, pending'[a] > 0 \/ counts'[a] > 0 PROVE a \in ElementsOf(touched')
    <3>1. CASE a = k
      BY <1>2, <1>7, <3>1
    <3>2. CASE a # k
      <4>1. a \notin out /\ (pending[a] > 0 \/ counts[a] > 0)
        BY <1>6, <2>2, <3>2
      <4> QED
        BY <1>7, <2>1, <4>1
    <3> QED
      BY <3>1, <3>2
  <2>3. nudges' \in [Runs -> Nat]
    BY <1>1, TodoKnown
  <2> QED
    BY <1>2, <1>3, <1>4, <1>6, <1>7, <1>9, <2>2, <2>3, MapsKeep
<1>11. ASSUME NEW o \in Runs, o # r PROVE RunFits(o)'
  <2>1. Key(o) \in Keys /\ counts[Key(o)] \in Nat /\ pending[Key(o)] \in Nat
    BY TodoKnown
  <2>2. robbed'[o] = IF Live(o) /\ Key(o) \in out THEN robbed[o] + 1 ELSE robbed[o]
    BY <1>8, <1>11
  <2>3. counts'[Key(o)] \in Nat
    BY <1>6, <2>1
  <2>4. Key(o) \notin out => counts'[Key(o)] >= counts[Key(o)]
    BY <1>6, <2>1
  <2>5. Alone(o) => pending'[Key(o)] = IF Key(o) \in out THEN 0 ELSE pending[Key(o)]
    BY <1>6, <1>11, <2>1, OthersAs
  <2>6. jumps'[o] = jumps[o] /\ nudges'[o] = nudges[o] /\ runs'[o] = runs[o]
    BY <1>1, <1>3, <1>4, <1>11
  <2> QED
    BY <2>2, <2>3, <2>4, <2>5, <2>6, OthersKeep
<1>12. RunFits(r)'
  <2>1. Live(r) /\ RunFits(r) /\ runs'[r].phase # "new" /\ robbed'[r] = robbed[r] /\ nudges'[r] = nudges[r]
    BY <1>1, <1>3, <1>8 DEF TodoInv, Live
  <2> DEFINE p == MaxReminders * robbed[r]
             q == MaxReminders * (1 + robbed[r])
             j == jumps[r]
             c == counts[k]
  <2>2. /\ MaxReminders \in Nat /\ robbed[r] \in Nat /\ j \in Nat /\ c \in Nat /\ nudges[r] \in Nat /\ pending[k] \in Nat
    BY <1>2, TodoKnown
  <2>3. p \in Nat /\ q = p + MaxReminders
    BY <2>2, Times
  <2>4. j <= p + c /\ j + 1 <= q
    BY <1>1, <2>1 DEF RunFits
  <2>5. j + 1 <= p + (c + 1) /\ j + 1 <= q
    <3> HIDE DEF p, q, j, c
    <3> QED
      BY <2>2, <2>3, <2>4
  <2>6. /\ jumps'[r] <= MaxReminders * robbed'[r] + counts'[Key(r)]
        /\ jumps'[r] <= MaxReminders * (1 + robbed'[r])
    BY <1>4, <1>6, <2>1, <2>5
  <2>7. Alone(r) => /\ nudges'[r] + pending'[k] <= jumps'[r] /\ nudges'[r] <= jumps'[r]
                    /\ robbed'[r] = 0 => jumps'[r] = nudges'[r] + pending'[k]
    <3>1. Alone(r) => /\ nudges[r] + pending[k] <= j /\ nudges[r] <= j
                      /\ robbed[r] = 0 => j = nudges[r] + pending[k]
      BY <2>1 DEF RunFits
    <3> HIDE DEF p, q, c, k
    <3>2. jumps'[r] = j + 1 /\ pending'[k] = pending[k] + 1
      BY <1>4, <1>6
    <3> HIDE DEF j
    <3> QED
      BY <2>1, <2>2, <3>1, <3>2
  <2> QED
    BY <1>3, <2>1, <2>6, <2>7 DEF RunFits, Alone, Key
<1> QED
  BY <1>10, <1>11, <1>12 DEF TodoInv

\* Every hook of every run keeps the invariant.
LEMMA TodosKeep == TodoInv /\ [TodoNext]_todoVars => TodoInv'
<1> SUFFICES ASSUME TodoInv, [TodoNext]_todoVars PROVE TodoInv'
  OBVIOUS
<1>1. CASE TodoNext
  BY <1>1, BeforeAgentKeeps, RequestKeeps, RunGoesOn, SendsBackKeeps, AfterAgentKeeps DEF TodoNext
<1>2. CASE UNCHANGED todoVars
  <2>1. UNCHANGED <<pending, counts, touched, runs, jumps, nudges, robbed>>
    BY <1>2 DEF todoVars
  <2>2. TodoTypeOK'
    BY <2>1 DEF TodoInv, TodoTypeOK, Known
  <2>3. Remembered'
    BY <2>1 DEF TodoInv, Remembered, ElementsOf
  <2>4. \A r \in Runs : RunFits(r)'
    BY <2>1 DEF TodoInv, RunFits, Live, Alone, Key
  <2> QED
    BY <2>2, <2>3, <2>4 DEF TodoInv
<1> QED
  BY <1>1, <1>2

\* The invariant is stronger than what it is for.
LEMMA TodoImplied == TodoInv => TodoTypeOK /\ JumpsRemind
  BY DEF TodoInv, RunFits, JumpsRemind, Alone

\* However runs of a thread drop each other's keys, a run is sent back no more often than
\* the cap allows for each time, and its requests carry its reminders (todo_middleware.py).
THEOREM RunsAreReminded == TodoSpec => [](TodoTypeOK /\ JumpsRemind)
  BY TodoInitially, TodosKeep, TodoImplied, PTL DEF TodoSpec

-----------------------------------------------------------------------------
(***************************************************************************)
(* The records. That a rename endures is not inductive: a run that has     *)
(* asked a model for a title is about to save it. It cannot have asked     *)
(* after a rename, since it began with the title of the rename, which is   *)
(* not empty; so the invariant adds that after a rename no run is at a     *)
(* title.                                                                  *)
(***************************************************************************)

NoTitleUnderWay == asked # Absent => run.phase \notin {"titling", "titled"}

RecordsInv == RecordsTypeOK /\ RenamesEndure /\ NoTitleUnderWay /\ (gone => row = Absent)

\* The titles the code gives are titles, and none is empty but the empty one.
LEMMA TitleFacts ==
    /\ Wished \subseteq Titles
    /\ {Untitled, FirstWords, Generated} \subseteq Titles
    /\ Untitled \notin Wished \cup {FirstWords, Generated}
BY RecordsAssumption DEF Titles, Untitled, FirstWords, Generated

\* An absent row stays absent when a title is put in it.
LEMMA UpdatedKeepsAbsent == \A title : row = Absent => Updated(title) = Absent
BY DEF Updated

\* There is no row at the start.
LEMMA RecordsInitially == RecordsInit => RecordsInv
<1> SUFFICES ASSUME RecordsInit PROVE RecordsInv
  OBVIOUS
<1>1. listed \in BOOLEAN /\ gone \in BOOLEAN /\ (gone => row = Absent)
  BY DEF RecordsInit
<1>2. RenamesEndure /\ NoTitleUnderWay
  BY DEF RecordsInit, RenamesEndure, NoTitleUnderWay
<1>3. patches \subseteq Titles \ {Untitled}
  BY DEF RecordsInit
<1>4. /\ run \in [phase : {"idle", "running", "titling", "titled"}, title : Titles]
      /\ page \in [phase : {"closed", "new", "ready", "streaming"}, title : Titles]
  BY TitleFacts DEF RecordsInit
<1>5. exchanges \in 0 .. MaxRuns /\ asks \in 0 .. MaxAsks
  BY RecordsAssumption DEF RecordsInit
<1> QED
  BY <1>1, <1>2, <1>3, <1>4, <1>5 DEF RecordsInit, RecordsInv, RecordsTypeOK

\* The page and its requests: they write the page, and the row only through
\* update_session, but for the page of a new thread, which creates it.
LEMMA PageKeeps ==
  ASSUME RecordsInv,
         CreateRow \/ OpenPage \/ ClosePage \/ StopStream \/ (\E title \in patches : PatchArrives(title))
  PROVE  RecordsInv'
<1> USE RecordsAssumption, TitleFacts
    DEF RecordsInv, RecordsTypeOK, RenamesEndure, NoTitleUnderWay, wishes, PageIs, RunIs
<1>1. CASE CreateRow
  <2>1. listed' \in BOOLEAN /\ gone' \in BOOLEAN /\ (gone' => row' = Absent)
    <3>1. listed' = listed
      BY <1>1 DEF CreateRow, Upserted
    <3>2. gone' = FALSE \/ (gone' = gone /\ row' = row)
      BY <1>1 DEF CreateRow, Upserted
    <3>3. listed \in BOOLEAN /\ gone \in BOOLEAN /\ (gone => row = Absent)
      OBVIOUS
    <3> HIDE DEF RecordsInv, RecordsTypeOK
    <3> QED
      <4>1. CASE gone' = FALSE
        BY <4>1, <3>1, <3>3
      <4>2. CASE gone' = gone /\ row' = row
        BY <4>2, <3>1, <3>3
      <4> QED
        BY <4>1, <4>2, <3>2
  <2>2. /\ row' \in Titles \cup {Absent} /\ saved' \in Titles \cup {Absent}
        /\ patches' \subseteq Titles \ {Untitled}
    BY <1>1 DEF CreateRow, Upserted
  <2>3. /\ run' \in [phase : {"idle", "running", "titling", "titled"}, title : Titles]
        /\ page' \in [phase : {"closed", "new", "ready", "streaming"}, title : Titles]
    BY <1>1 DEF CreateRow, Upserted
  <2>4. /\ exchanges' \in 0 .. MaxRuns /\ asks' \in 0 .. MaxAsks
        /\ rename' \in Wished \cup {Absent} /\ asked' \in Wished \cup {Absent}
        /\ deletion' \in {"none", "unlisted", "selected"}
    BY <1>1 DEF CreateRow, Upserted
  <2>5. RenamesEndure' /\ NoTitleUnderWay'
    BY <1>1 DEF CreateRow, Upserted
  <2> QED
    BY <2>1, <2>2, <2>3, <2>4, <2>5
<1>2. CASE OpenPage
  BY <1>2 DEF OpenPage
<1>3. CASE ClosePage
  BY <1>3 DEF ClosePage
<1>4. CASE StopStream
  BY <1>4 DEF StopStream, StreamEnds
<1>5. CASE \E title \in patches : PatchArrives(title)
  BY <1>5, UpdatedKeepsAbsent DEF PatchArrives, Updated
<1> QED
  BY <1>1, <1>2, <1>3, <1>4, <1>5

\* A run begins with the title of the checkpoint, and writes no other over a
\* title the user has given.
LEMMA RunKeeps ==
  ASSUME RecordsInv,
         Submit \/ SaveChannels \/ BeginTitle \/ SyncTitle \/ EndRun \/ RestartServer
  PROVE  RecordsInv'
<1> USE RecordsAssumption, TitleFacts
    DEF RecordsInv, RecordsTypeOK, RenamesEndure, NoTitleUnderWay, wishes, PageIs, RunIs
<1>1. CASE Submit
  BY <1>1 DEF Submit
<1>2. CASE SaveChannels
  BY <1>2 DEF SaveChannels, Shown
<1>3. CASE BeginTitle
  <2>1. run.title = Untitled /\ run.phase = "running"
    BY <1>3 DEF BeginTitle, ShouldGenerate
  <2>2. asked = Absent
    BY <2>1
  <2> QED
    BY <1>3, <2>2 DEF BeginTitle
<1>4. CASE SyncTitle
  BY <1>4, UpdatedKeepsAbsent DEF SyncTitle, Updated
<1>5. CASE EndRun
  BY <1>5 DEF EndRun, StreamSees, StreamEnds, Shown
<1>6. CASE RestartServer
  <2>1. listed' \in BOOLEAN /\ gone' \in BOOLEAN /\ (gone' => row' = Absent)
    BY <1>6 DEF RestartServer, StreamSees, StreamEnds
  <2>2. /\ row' \in Titles \cup {Absent} /\ saved' \in Titles \cup {Absent}
        /\ patches' \subseteq Titles \ {Untitled}
    BY <1>6 DEF RestartServer, StreamSees, StreamEnds
  <2>3. /\ run' \in [phase : {"idle", "running", "titling", "titled"}, title : Titles]
        /\ page' \in [phase : {"closed", "new", "ready", "streaming"}, title : Titles]
    BY <1>6 DEF RestartServer, StreamSees, StreamEnds
  <2>4. /\ exchanges' \in 0 .. MaxRuns /\ asks' \in 0 .. MaxAsks
        /\ rename' \in Wished \cup {Absent} /\ asked' \in Wished \cup {Absent}
        /\ deletion' \in {"none", "unlisted", "selected"}
    BY <1>6 DEF RestartServer, StreamSees, StreamEnds
  <2>5. RenamesEndure' /\ NoTitleUnderWay'
    BY <1>6 DEF RestartServer, StreamSees, StreamEnds
  <2> QED
    BY <2>1, <2>2, <2>3, <2>4, <2>5
<1> QED
  BY <1>1, <1>2, <1>3, <1>4, <1>5, <1>6

\* A rename is remembered as asked for only when no run is in progress; the
\* deletion is what makes the row absent.
LEMMA WishesKeep ==
  ASSUME RecordsInv,
         \/ \E title \in Wished : RenameState(title)
         \/ RenameRow \/ Unlist \/ SelectOwner \/ DeleteRow \/ EnsureThread
  PROVE  RecordsInv'
<1> USE RecordsAssumption, TitleFacts
    DEF RecordsInv, RecordsTypeOK, RenamesEndure, NoTitleUnderWay, wishes, PageIs, RunIs
<1>1. CASE \E title \in Wished : RenameState(title)
  BY <1>1 DEF RenameState
<1>2. CASE RenameRow
  BY <1>2, UpdatedKeepsAbsent DEF RenameRow, Updated
<1>3. CASE Unlist \/ SelectOwner
  <2>1. listed' \in BOOLEAN /\ gone' \in BOOLEAN /\ (gone' => row' = Absent)
    <3>1. listed' = FALSE \/ listed' = listed
      BY <1>3 DEF Unlist, SelectOwner
    <3>2. gone' = gone /\ row' = row
      BY <1>3 DEF Unlist, SelectOwner
    <3>3. listed \in BOOLEAN /\ gone \in BOOLEAN /\ (gone => row = Absent)
      OBVIOUS
    <3> HIDE DEF RecordsInv, RecordsTypeOK
    <3>4. listed' \in BOOLEAN
      BY <3>1, <3>3, Zenon
    <3>5. gone' \in BOOLEAN /\ (gone' => row' = Absent)
      BY <3>2, <3>3, Zenon
    <3> QED
      BY <3>4, <3>5
  <2>2. /\ row' \in Titles \cup {Absent} /\ saved' \in Titles \cup {Absent}
        /\ patches' \subseteq Titles \ {Untitled}
    BY <1>3 DEF Unlist, SelectOwner
  <2>3. /\ run' \in [phase : {"idle", "running", "titling", "titled"}, title : Titles]
        /\ page' \in [phase : {"closed", "new", "ready", "streaming"}, title : Titles]
    BY <1>3 DEF Unlist, SelectOwner
  <2>4. /\ exchanges' \in 0 .. MaxRuns /\ asks' \in 0 .. MaxAsks
        /\ rename' \in Wished \cup {Absent} /\ asked' \in Wished \cup {Absent}
        /\ deletion' \in {"none", "unlisted", "selected"}
    BY <1>3 DEF Unlist, SelectOwner
  <2>5. RenamesEndure' /\ NoTitleUnderWay'
    BY <1>3 DEF Unlist, SelectOwner
  <2> QED
    BY <2>1, <2>2, <2>3, <2>4, <2>5
<1>4. CASE DeleteRow \/ EnsureThread
  <2>1. listed' \in BOOLEAN /\ gone' \in BOOLEAN /\ (gone' => row' = Absent)
    <3>1. listed' = TRUE \/ listed' = listed
      BY <1>4 DEF DeleteRow, EnsureThread
    <3>2. (gone' = TRUE /\ row' = Absent) \/ (gone' = gone /\ row' = row)
      BY <1>4 DEF DeleteRow, EnsureThread
    <3>3. listed \in BOOLEAN /\ gone \in BOOLEAN /\ (gone => row = Absent)
      OBVIOUS
    <3> HIDE DEF RecordsInv, RecordsTypeOK
    <3>4. listed' \in BOOLEAN
      BY <3>1, <3>3, Zenon
    <3>5. gone' \in BOOLEAN /\ (gone' => row' = Absent)
      <4>1. CASE gone' = TRUE /\ row' = Absent
        BY <4>1
      <4>2. CASE gone' = gone /\ row' = row
        BY <4>2, <3>3
      <4> QED
        BY <4>1, <4>2, <3>2
    <3> QED
      BY <3>4, <3>5
  <2>2. /\ row' \in Titles \cup {Absent} /\ saved' \in Titles \cup {Absent}
        /\ patches' \subseteq Titles \ {Untitled}
    BY <1>4 DEF DeleteRow, EnsureThread
  <2>3. /\ run' \in [phase : {"idle", "running", "titling", "titled"}, title : Titles]
        /\ page' \in [phase : {"closed", "new", "ready", "streaming"}, title : Titles]
    BY <1>4 DEF DeleteRow, EnsureThread
  <2>4. /\ exchanges' \in 0 .. MaxRuns /\ asks' \in 0 .. MaxAsks
        /\ rename' \in Wished \cup {Absent} /\ asked' \in Wished \cup {Absent}
        /\ deletion' \in {"none", "unlisted", "selected"}
    BY <1>4 DEF DeleteRow, EnsureThread
  <2>5. RenamesEndure' /\ NoTitleUnderWay'
    BY <1>4 DEF DeleteRow, EnsureThread
  <2> QED
    BY <2>1, <2>2, <2>3, <2>4, <2>5
<1> QED
  BY <1>1, <1>2, <1>3, <1>4

\* Every step of the page and of the runs keeps the invariant.
LEMMA RecordsKeep == RecordsInv /\ [RecordsNext]_recordVars => RecordsInv'
<1> SUFFICES ASSUME RecordsInv, [RecordsNext]_recordVars PROVE RecordsInv'
  OBVIOUS
<1>1. CASE UNCHANGED recordVars
  BY <1>1 DEF RecordsInv, RecordsTypeOK, RenamesEndure, NoTitleUnderWay, recordVars, wishes
<1>2. CASE RecordsNext
  BY <1>2, PageKeeps, RunKeeps, WishesKeep DEF RecordsNext
<1> QED
  BY <1>1, <1>2

\* So the invariant holds throughout.
LEMMA RecordsAlways == RecordsSpec => []RecordsInv
BY RecordsInitially, RecordsKeep, PTL DEF RecordsSpec

\* A rename made while no run is in progress stays in the checkpoint and in the
\* runs that follow, and a deleted row is brought back by no title that is still
\* under way (hooks.ts, title_middleware.py, session_manager.py).
THEOREM WishesStay == RecordsSpec => []WishesEndure
<1>1. RecordsInv => WishesEndure
  BY DEF RecordsInv, WishesEndure
<1> QED
  BY <1>1, RecordsAlways, PTL

\* The records of a thread keep their types.
THEOREM RecordsTyped == RecordsSpec => []RecordsTypeOK
<1>1. RecordsInv => RecordsTypeOK
  BY DEF RecordsInv
<1> QED
  BY <1>1, RecordsAlways, PTL

-----------------------------------------------------------------------------
(***************************************************************************)
(* The files. That the agent reads no host path in what it wrote last      *)
(* needs the cache of sandboxes: an edit writes through the sandbox it has *)
(* read with only while that one is cached, and what was written last      *)
(* through a sandbox is recorded there, or about to be.                    *)
(***************************************************************************)

\* An edit that writes through its sandbox's record has a sandbox in the cache.
EditorsCached == \A t \in FileThreads : editing[t] # NoEdit /\ editing[t].current => t \in ElementsOf(cached)

\* What was written last through a sandbox, that sandbox has recorded or is to record.
MineRecorded == \A t \in FileThreads : mine[t] \subseteq recorded[t] \cup unrecorded[t]

\* The names earlier messages are read to list are those of what was listed.
NamesRead ==
    \A t \in FileThreads :
        /\ named[t] = {ReadAs[o] : o \in announced[t]}
        /\ due[t] \subseteq announced[t] \cup named[t]

FilesInv == FilesTypeOK /\ EditorsCached /\ MineRecorded /\ NamesRead

\* There are no files at the start.
LEMMA FilesInitially == FilesInit => FilesInv
<1> SUFFICES ASSUME FilesInit PROVE FilesInv
  OBVIOUS
<1>1. FilesTypeOK
  BY FileAssumption DEF FilesInit, FilesTypeOK
<1>2. EditorsCached /\ MineRecorded /\ NamesRead
  BY DEF FilesInit, EditorsCached, MineRecorded, NamesRead
<1> QED
  BY <1>1, <1>2 DEF FilesInv

\* What get and acquire make of the cache: its own sandbox is in, at most one other is out.
LEMMA Acquires == ASSUME FilesInv, NEW t \in FileThreads
                  PROVE  /\ Acquired(t) \in Seq(FileThreads) /\ Len(Acquired(t)) <= MaxCached
                         /\ Distinct(Acquired(t))
                         /\ t \in ElementsOf(Acquired(t)) /\ t \notin EvictedBy(t)
                         /\ \A o \in ElementsOf(cached) : o \in EvictedBy(t) \/ o \in ElementsOf(Acquired(t))
<1> DEFINE others == Others(t)
           L == Len(others)
           all == Append(others, t)
           out == EvictedBy(t)
           new == Acquired(t)
<1>1. cached \in Seq(FileThreads) /\ Len(cached) <= MaxCached /\ Distinct(cached) /\ MaxCached \in Nat \ {0}
  BY FileAssumption DEF FilesInv, FilesTypeOK, Distinct
<1>2. IsWithout(others, cached, {t}, Len(cached), FileThreads)
  BY <1>1, WithoutIs DEF Others
<1> HIDE DEF others
<1>3. /\ others \in Seq(FileThreads) /\ L \in Nat /\ L <= MaxCached /\ DOMAIN others = 1 .. L
      /\ Distinct(others)
      /\ \A k \in 1 .. L : others[k] # t
      /\ \A o \in ElementsOf(cached) : o # t => \E k \in 1 .. L : others[k] = o
  <2>1. others \in Seq(FileThreads) /\ L <= Len(cached) /\ Distinct(others)
    BY <1>1, <1>2 DEF IsWithout
  <2>2. L \in Nat /\ L <= MaxCached /\ DOMAIN others = 1 .. L
    BY <1>1, <2>1
  <2>3. \A k \in 1 .. L : others[k] # t
    BY <1>2 DEF IsWithout
  <2>4. \A j \in 1 .. Len(cached) : cached[j] # t => \E k \in 1 .. L : others[k] = cached[j]
    BY <1>2 DEF IsWithout
  <2>5. DOMAIN cached = 1 .. Len(cached)
    BY <1>1
  <2> QED
    BY <2>1, <2>2, <2>3, <2>4, <2>5 DEF ElementsOf
<1>4. /\ all \in Seq(FileThreads) /\ Len(all) = L + 1 /\ DOMAIN all = 1 .. (L + 1)
      /\ all[L + 1] = t /\ \A k \in 1 .. L : all[k] = others[k]
      /\ 1 .. (L + 1) = (1 .. L) \cup {L + 1}
  BY <1>3
<1>5. Distinct(all)
  BY <1>3, <1>4 DEF Distinct
<1>6. out = IF L = MaxCached THEN {others[1]} ELSE {}
  BY DEF EvictedBy, others
<1>7. IsWithout(new, all, out, L + 1, FileThreads)
  BY <1>4, WithoutIs DEF Acquired, others
<1> HIDE DEF all, new, out
<1>8. t \notin out
  <2>1. 1 \in 1 .. L \/ L # MaxCached
    <3>1. L \in Nat /\ MaxCached \in Nat /\ MaxCached # 0
      BY <1>1, <1>3
    <3> HIDE DEF L
    <3> QED
      BY <3>1
  <2> QED
    BY <1>3, <1>6, <2>1
<1>9. new \in Seq(FileThreads) /\ Distinct(new) /\ DOMAIN new = 1 .. Len(new)
  BY <1>5, <1>7 DEF IsWithout
<1>10. Len(new) <= MaxCached
  <2> DEFINE m == Len(new)
  <2>3. m \in Nat
    BY <1>9
  <2>4. m <= L + 1 /\ ((\E j \in 1 .. (L + 1) : all[j] \in out) => m < L + 1)
    BY <1>7 DEF IsWithout
  <2> HIDE DEF m
  <2>1. CASE L = MaxCached
    <3>1. all[1] \in out /\ 1 \in 1 .. (L + 1)
      BY <1>1, <1>4, <1>6, <2>1
    <3>2. m < L + 1
      BY <2>4, <3>1
    <3> QED
      BY <1>1, <2>1, <2>3, <3>2 DEF m
  <2>2. CASE L # MaxCached
    <3>1. L < MaxCached
      <4>1. L \in Nat /\ MaxCached \in Nat /\ L <= MaxCached /\ L # MaxCached
        BY <1>1, <1>3, <2>2
      <4> HIDE DEF L
      <4> QED
        BY <4>1
    <3> QED
      BY <1>1, <1>3, <2>3, <2>4, <3>1 DEF m
  <2> QED
    BY <2>1, <2>2
<1>11. \A j \in 1 .. (L + 1) : all[j] \notin out => all[j] \in ElementsOf(new)
  BY <1>7, <1>9 DEF IsWithout, ElementsOf
<1>12. t \in ElementsOf(new)
  BY <1>4, <1>8, <1>11
<1>13. ASSUME NEW o \in ElementsOf(cached) PROVE o \in out \/ o \in ElementsOf(new)
  <2>1. CASE o = t
    BY <1>12, <2>1
  <2>2. CASE o # t
    <3>1. PICK k \in 1 .. L : others[k] = o
      BY <1>3, <2>2
    <3> QED
      BY <1>4, <1>11, <3>1
  <2> QED
    BY <2>1, <2>2
<1> QED
  BY <1>8, <1>9, <1>10, <1>12, <1>13 DEF out, new

\* What the cache and the records become when t uses its sandbox: what a sandbox that stays
\* has is kept, and of one that goes nothing.
LEMMA UsesKeep == ASSUME FilesInv, NEW t \in FileThreads
                  PROVE  /\ Cleared(t, recorded) \in [FileThreads -> SUBSET FileNames]
                         /\ Cleared(t, unrecorded) \in [FileThreads -> SUBSET FileNames]
                         /\ Cleared(t, mine) \in [FileThreads -> SUBSET FileNames]
                         /\ Detached(t) \in [FileThreads -> Edits \cup {NoEdit}]
                         /\ \A o \in FileThreads :
                               Cleared(t, mine)[o] \subseteq Cleared(t, recorded)[o] \cup Cleared(t, unrecorded)[o]
                         /\ \A o \in FileThreads : o \notin ElementsOf(Acquired(t))
                                => Cleared(t, recorded)[o] = {} /\ Cleared(t, unrecorded)[o] = {}
                         /\ \A o \in FileThreads : Detached(t)[o] # NoEdit /\ Detached(t)[o].current
                                => o \in ElementsOf(Acquired(t))
<1>1. /\ recorded \in [FileThreads -> SUBSET FileNames] /\ mine \in [FileThreads -> SUBSET FileNames]
      /\ unrecorded \in [FileThreads -> SUBSET FileNames]
      /\ \A o \in FileThreads : o \notin ElementsOf(cached) => recorded[o] = {} /\ unrecorded[o] = {}
      /\ \A o \in FileThreads : editing[o] \in Edits \cup {NoEdit}
  BY DEF FilesInv, FilesTypeOK, ElementsOf
<1>2. \A o \in ElementsOf(cached) : o \in EvictedBy(t) \/ o \in ElementsOf(Acquired(t))
  BY Acquires
<1>3. \A o \in FileThreads : /\ Cleared(t, recorded)[o] = (IF o \in EvictedBy(t) THEN {} ELSE recorded[o])
                             /\ Cleared(t, unrecorded)[o] = (IF o \in EvictedBy(t) THEN {} ELSE unrecorded[o])
                             /\ Cleared(t, mine)[o] = (IF o \in EvictedBy(t) THEN {} ELSE mine[o])
  BY DEF Cleared
<1>4. /\ Cleared(t, recorded) \in [FileThreads -> SUBSET FileNames]
      /\ Cleared(t, unrecorded) \in [FileThreads -> SUBSET FileNames]
      /\ Cleared(t, mine) \in [FileThreads -> SUBSET FileNames]
  BY <1>1 DEF Cleared
<1>5. ASSUME NEW e \in Edits
      PROVE  [e EXCEPT !.current = FALSE] \in Edits /\ ~[e EXCEPT !.current = FALSE].current
  BY DEF Edits
<1>6. ASSUME NEW o \in FileThreads
      PROVE  /\ Detached(t)[o] \in Edits \cup {NoEdit}
             /\ Detached(t)[o] = editing[o] \/ ~Detached(t)[o].current
             /\ o \in EvictedBy(t) => Detached(t)[o] = NoEdit \/ ~Detached(t)[o].current
  BY <1>1, <1>5 DEF Detached
<1>7. Detached(t) \in [FileThreads -> Edits \cup {NoEdit}]
  BY <1>6 DEF Detached
<1>8. \A o \in FileThreads : Cleared(t, mine)[o] \subseteq Cleared(t, recorded)[o] \cup Cleared(t, unrecorded)[o]
  BY <1>3 DEF FilesInv, MineRecorded
<1>9. \A o \in FileThreads : o \notin ElementsOf(Acquired(t))
                              => Cleared(t, recorded)[o] = {} /\ Cleared(t, unrecorded)[o] = {}
  BY <1>1, <1>2, <1>3
<1>10. ASSUME NEW o \in FileThreads, Detached(t)[o] # NoEdit, Detached(t)[o].current
       PROVE  o \in ElementsOf(Acquired(t))
  <2>1. editing[o] # NoEdit /\ editing[o].current /\ o \notin EvictedBy(t)
    BY <1>6, <1>10
  <2>2. o \in ElementsOf(cached)
    BY <2>1 DEF FilesInv, EditorsCached
  <2> QED
    BY <1>2, <2>1, <2>2
<1> QED
  BY <1>4, <1>7, <1>8, <1>9, <1>10

\* The new cache, records and edits, of a step that leaves the rest of the invariant alone.
LEMMA CacheKeeps == ASSUME FilesInv,
                           cached' \in Seq(FileThreads), Len(cached') <= MaxCached, Distinct(cached'),
                           recorded' \in [FileThreads -> SUBSET FileNames], mine' \in [FileThreads -> SUBSET FileNames],
                           unrecorded' \in [FileThreads -> SUBSET FileNames],
                           editing' \in [FileThreads -> Edits \cup {NoEdit}],
                           uploaded' \in [FileThreads -> SUBSET FileNames],
                           shared' \in [FileNames -> Contents \cup {NoFile}],
                           syncing' \in [FileThreads -> FileNames \cup {NoFile}],
                           uploads' \in 0 .. MaxUploads,
                           \A o \in FileThreads : mine'[o] \subseteq recorded'[o] \cup unrecorded'[o],
                           \A o \in FileThreads : o \notin ElementsOf(cached') => recorded'[o] = {} /\ unrecorded'[o] = {},
                           \A o \in FileThreads : editing'[o] # NoEdit /\ editing'[o].current => o \in ElementsOf(cached'),
                           UNCHANGED <<named, announced, due, listings>>
                    PROVE  FilesInv'
<1>1. FilesTypeOK'
  <2>1. \A i, j \in DOMAIN cached' : cached'[i] = cached'[j] => i = j
    BY DEF Distinct
  <2>2. \A o \in FileThreads : o \notin {cached'[i] : i \in DOMAIN cached'} => recorded'[o] = {} /\ unrecorded'[o] = {}
    BY DEF ElementsOf
  <2>4. named' \in [FileThreads -> SUBSET FileNames] /\ announced' \in [FileThreads -> SUBSET FileNames]
        /\ due' \in [FileThreads -> SUBSET FileNames] /\ listings' \in 0 .. MaxListings
    BY DEF FilesInv, FilesTypeOK
  <2> QED
    BY <2>1, <2>2, <2>4 DEF FilesTypeOK
<1>2. EditorsCached' /\ MineRecorded'
  BY DEF EditorsCached, MineRecorded, ElementsOf
<1>3. NamesRead'
  BY DEF FilesInv, NamesRead
<1> QED
  BY <1>1, <1>2, <1>3 DEF FilesInv

\* The types of the cache and of the records, one by one.
LEMMA FilesKnown == FilesInv =>
    /\ cached \in Seq(FileThreads) /\ Len(cached) <= MaxCached /\ Distinct(cached)
    /\ recorded \in [FileThreads -> SUBSET FileNames] /\ mine \in [FileThreads -> SUBSET FileNames]
    /\ unrecorded \in [FileThreads -> SUBSET FileNames]
    /\ editing \in [FileThreads -> Edits \cup {NoEdit}]
    /\ uploaded \in [FileThreads -> SUBSET FileNames]
    /\ shared \in [FileNames -> Contents \cup {NoFile}]
    /\ syncing \in [FileThreads -> FileNames \cup {NoFile}]
    /\ uploads \in 0 .. MaxUploads
    /\ \A o \in FileThreads : mine[o] \subseteq recorded[o] \cup unrecorded[o]
    /\ \A o \in FileThreads : o \notin ElementsOf(cached) => recorded[o] = {} /\ unrecorded[o] = {}
    /\ \A o \in FileThreads : editing[o] # NoEdit /\ editing[o].current => o \in ElementsOf(cached)
  BY DEF FilesInv, FilesTypeOK, EditorsCached, MineRecorded, Distinct, ElementsOf

\* An upload begins: the name goes to the directory, and the sandbox is used.
LEMMA UploadKeeps == ASSUME FilesInv, NEW t \in FileThreads, NEW n \in FileNames, Upload(t, n) PROVE FilesInv'
<1>1. /\ cached' = Acquired(t) /\ recorded' = Cleared(t, recorded) /\ unrecorded' = Cleared(t, unrecorded)
      /\ mine' = Cleared(t, mine) /\ editing' = Detached(t)
      /\ UNCHANGED <<shared, named, announced, due, listings>>
  BY DEF Upload, Uses
<1>2. uploaded' \in [FileThreads -> SUBSET FileNames] /\ syncing' \in [FileThreads -> FileNames \cup {NoFile}]
  BY FilesKnown DEF Upload
<1>3. uploads' \in 0 .. MaxUploads
  BY FilesKnown, FileAssumption DEF Upload
<1>4. shared' \in [FileNames -> Contents \cup {NoFile}]
  BY <1>1, FilesKnown
<1> QED
  BY <1>1, <1>2, <1>3, <1>4, Acquires, UsesKeep, CacheKeeps

\* Records that lose a name.
LEMMA DisownedKeeps == ASSUME NEW f \in [FileThreads -> SUBSET FileNames], NEW n
                       PROVE  /\ Disowned(f, n) \in [FileThreads -> SUBSET FileNames]
                              /\ \A o \in FileThreads : Disowned(f, n)[o] \subseteq f[o]
  BY DEF Disowned

\* The rest of an upload and of a listing: no cache is used.
LEMMA DirectoryKeeps == ASSUME FilesInv, NEW t \in FileThreads,
                               Sync(t) \/ SyncNot(t) \/ \E n \in FileNames : DeleteUpload(t, n)
                        PROVE  FilesInv'
<1>1. /\ UNCHANGED <<cached, recorded, unrecorded, editing, named, announced, due, uploads, listings>>
      /\ mine' = mine \/ mine' = Disowned(mine, syncing[t])
  BY DEF Sync, SyncNot, DeleteUpload
<1>2. ConvertsTo \in [FileNames -> FileNames]
  BY FileAssumption
<1>3. uploaded' \in [FileThreads -> SUBSET FileNames]
  <2>1. uploaded \in [FileThreads -> SUBSET FileNames] /\ syncing[t] \in FileNames \cup {NoFile}
    BY FilesKnown
  <2>2. CASE Sync(t)
    BY <1>2, <2>1, <2>2 DEF Sync
  <2>3. CASE SyncNot(t)
    BY <2>1, <2>3 DEF SyncNot
  <2>4. CASE \E n \in FileNames : DeleteUpload(t, n)
    BY <2>1, <2>4 DEF DeleteUpload
  <2> QED
    BY <2>2, <2>3, <2>4
<1>4. syncing' \in [FileThreads -> FileNames \cup {NoFile}]
  <2>1. syncing \in [FileThreads -> FileNames \cup {NoFile}]
    BY FilesKnown
  <2> QED
    BY <1>2, <2>1 DEF Sync, SyncNot, DeleteUpload
<1>5. shared' \in [FileNames -> Contents \cup {NoFile}]
  <2>1. shared \in [FileNames -> Contents \cup {NoFile}]
    BY FilesKnown
  <2> QED
    BY <2>1 DEF Sync, SyncNot, DeleteUpload
<1>6. mine' \in [FileThreads -> SUBSET FileNames] /\ \A o \in FileThreads : mine'[o] \subseteq mine[o]
  BY <1>1, FilesKnown, DisownedKeeps
<1>7. \A o \in FileThreads : mine'[o] \subseteq recorded'[o] \cup unrecorded'[o]
  BY <1>1, <1>6, FilesKnown
<1>8. /\ cached' \in Seq(FileThreads) /\ Len(cached') <= MaxCached /\ Distinct(cached')
      /\ recorded' \in [FileThreads -> SUBSET FileNames] /\ unrecorded' \in [FileThreads -> SUBSET FileNames]
      /\ editing' \in [FileThreads -> Edits \cup {NoEdit}]
      /\ uploads' \in 0 .. MaxUploads
      /\ \A o \in FileThreads : o \notin ElementsOf(cached') => recorded'[o] = {} /\ unrecorded'[o] = {}
      /\ \A o \in FileThreads : editing'[o] # NoEdit /\ editing'[o].current => o \in ElementsOf(cached')
  BY <1>1, FilesKnown
<1> QED
  BY <1>1, <1>3, <1>4, <1>5, <1>6, <1>7, <1>8, CacheKeeps

\* The new files of a turn are listed, and their names are what later turns read.
LEMMA ListFilesKeeps == ASSUME FilesInv, NEW t \in FileThreads, ListFiles(t) PROVE FilesInv'
<1> DEFINE new == NewFiles(t)
<1>1. /\ named' = [named EXCEPT ![t] = @ \cup {ReadAs[n] : n \in new}]
      /\ announced' = [announced EXCEPT ![t] = @ \cup new]
      /\ due' = [due EXCEPT ![t] = @ \cup uploaded[t]]
      /\ listings < MaxListings /\ listings' = listings + 1
      /\ UNCHANGED <<uploaded, shared, cached, recorded, unrecorded, syncing, editing, mine, uploads>>
  BY DEF ListFiles
<1>2. /\ named \in [FileThreads -> SUBSET FileNames] /\ announced \in [FileThreads -> SUBSET FileNames]
      /\ due \in [FileThreads -> SUBSET FileNames] /\ uploaded \in [FileThreads -> SUBSET FileNames]
      /\ listings \in 0 .. MaxListings
  BY DEF FilesInv, FilesTypeOK
<1>3. new \subseteq FileNames /\ {ReadAs[n] : n \in new} \subseteq FileNames /\ uploaded[t] \subseteq new \cup named[t]
  BY <1>2, FileAssumption DEF NewFiles
<1>4. FilesTypeOK'
  <2>1. listings' \in 0 .. MaxListings
    BY <1>1, <1>2, FileAssumption
  <2>2. /\ named' \in [FileThreads -> SUBSET FileNames] /\ announced' \in [FileThreads -> SUBSET FileNames]
        /\ due' \in [FileThreads -> SUBSET FileNames]
    BY <1>1, <1>2, <1>3
  <2> QED
    BY <1>1, <2>1, <2>2 DEF FilesInv, FilesTypeOK
<1>5. EditorsCached' /\ MineRecorded'
  BY <1>1 DEF FilesInv, EditorsCached, MineRecorded, ElementsOf
<1> HIDE DEF new
<1>6. ASSUME NEW o \in FileThreads
      PROVE  named'[o] = {ReadAs[n] : n \in announced'[o]} /\ due'[o] \subseteq announced'[o] \cup named'[o]
  <2>1. named[o] = {ReadAs[n] : n \in announced[o]} /\ due[o] \subseteq announced[o] \cup named[o]
    BY DEF FilesInv, NamesRead
  <2>2. CASE o # t
    BY <1>1, <1>2, <2>1, <2>2
  <2>3. CASE o = t
    <3>1. /\ named'[o] = named[o] \cup {ReadAs[n] : n \in new} /\ announced'[o] = announced[o] \cup new
          /\ due'[o] = due[o] \cup uploaded[o]
      BY <1>1, <1>2, <2>3
    <3>2. named'[o] = {ReadAs[n] : n \in announced'[o]}
      BY <2>1, <3>1
    <3> QED
      BY <1>3, <2>1, <2>3, <3>1, <3>2
  <2> QED
    BY <2>2, <2>3
<1>7. NamesRead'
  BY <1>6 DEF NamesRead
<1> QED
  BY <1>4, <1>5, <1>7 DEF FilesInv

\* A tool that writes a file past its sandbox, or writes none.
LEMMA UseKeeps == ASSUME FilesInv, NEW t \in FileThreads,
                         UseSandbox(t) \/ \E n \in Edited, text \in Contents : BashWrites(t, n, text)
                  PROVE  FilesInv'
<1>1. /\ cached' = Acquired(t) /\ recorded' = Cleared(t, recorded) /\ unrecorded' = Cleared(t, unrecorded)
      /\ editing' = Detached(t)
      /\ mine' = Cleared(t, mine) \/ \E n \in Edited : mine' = Disowned(Cleared(t, mine), n)
      /\ shared' = shared \/ \E n \in Edited, text \in Contents : shared' = [shared EXCEPT ![n] = Resolved(text)]
      /\ UNCHANGED <<uploaded, syncing, named, announced, due, uploads, listings>>
  BY DEF UseSandbox, Uses, BashWrites
<1>2. shared' \in [FileNames -> Contents \cup {NoFile}]
  <2>1. shared \in [FileNames -> Contents \cup {NoFile}]
    BY FilesKnown
  <2>2. \A text \in Contents : Resolved(text) \in Contents
    BY DEF Resolved, Contents
  <2> QED
    BY <1>1, <2>1, <2>2
<1>3. mine' \in [FileThreads -> SUBSET FileNames] /\ \A o \in FileThreads : mine'[o] \subseteq Cleared(t, mine)[o]
  <2>1. Cleared(t, mine) \in [FileThreads -> SUBSET FileNames]
    BY UsesKeep
  <2> QED
    BY <1>1, <2>1, DisownedKeeps
<1>4. \A o \in FileThreads : mine'[o] \subseteq recorded'[o] \cup unrecorded'[o]
  BY <1>1, <1>3, UsesKeep
<1>5. /\ uploaded' \in [FileThreads -> SUBSET FileNames]
      /\ syncing' \in [FileThreads -> FileNames \cup {NoFile}] /\ uploads' \in 0 .. MaxUploads
  BY <1>1, FilesKnown
<1> QED
  BY <1>1, <1>2, <1>3, <1>4, <1>5, Acquires, UsesKeep, CacheKeeps

\* write_file has yet to record the file that it writes.
LEMMA WriteByToolKeeps == ASSUME FilesInv, NEW t \in FileThreads, NEW n \in Edited, NEW text \in Contents, NEW append \in BOOLEAN,
                                 WriteByTool(t, n, text, append)
                          PROVE  FilesInv'
<1> DEFINE kept == Cleared(t, unrecorded)
           there == Cleared(t, recorded)
           own == Disowned(Cleared(t, mine), n)
<1>1. /\ cached' = Acquired(t) /\ editing' = Detached(t)
      /\ shared' = [shared EXCEPT ![n] = Content(n, text, append)]
      /\ unrecorded' = [kept EXCEPT ![t] = @ \cup {n}] /\ mine' = [own EXCEPT ![t] = @ \cup {n}]
      /\ recorded' = there
      /\ UNCHANGED <<uploaded, syncing, named, announced, due, uploads, listings>>
  BY DEF WriteByTool, Records
<1>2. n \in FileNames
  BY FileAssumption
<1>3. /\ kept \in [FileThreads -> SUBSET FileNames] /\ there \in [FileThreads -> SUBSET FileNames]
      /\ Cleared(t, mine) \in [FileThreads -> SUBSET FileNames]
  BY UsesKeep
<1>4. own \in [FileThreads -> SUBSET FileNames] /\ \A o \in FileThreads : own[o] \subseteq there[o] \cup kept[o]
  BY <1>3, UsesKeep, DisownedKeeps
<1>5. \A o \in FileThreads : o \notin ElementsOf(Acquired(t)) => there[o] = {} /\ kept[o] = {} /\ o # t
  BY Acquires, UsesKeep
<1> HIDE DEF kept, there, own
<1>6. /\ recorded' \in [FileThreads -> SUBSET FileNames] /\ unrecorded' \in [FileThreads -> SUBSET FileNames]
      /\ mine' \in [FileThreads -> SUBSET FileNames]
      /\ \A o \in FileThreads : mine'[o] \subseteq recorded'[o] \cup unrecorded'[o]
      /\ \A o \in FileThreads : o \notin ElementsOf(cached') => recorded'[o] = {} /\ unrecorded'[o] = {}
  BY <1>1, <1>2, <1>3, <1>4, <1>5
<1>7. shared' \in [FileNames -> Contents \cup {NoFile}]
  <2>1. shared \in [FileNames -> Contents \cup {NoFile}]
    BY FilesKnown
  <2>2. Content(n, text, append) \in Contents
    BY DEF Content, Resolved, Contents
  <2> QED
    BY <1>1, <2>1, <2>2
<1>8. /\ uploaded' \in [FileThreads -> SUBSET FileNames]
      /\ syncing' \in [FileThreads -> FileNames \cup {NoFile}] /\ uploads' \in 0 .. MaxUploads
  BY <1>1, FilesKnown
<1> QED
  BY <1>1, <1>6, <1>7, <1>8, Acquires, UsesKeep, CacheKeeps

\* The path of a file that was written is recorded.
LEMMA RecordWriteKeeps == ASSUME FilesInv, NEW t \in FileThreads, NEW n \in Edited, RecordWrite(t, n) PROVE FilesInv'
<1>1. /\ n \in unrecorded[t]
      /\ recorded' = [recorded EXCEPT ![t] = @ \cup {n}] /\ unrecorded' = [unrecorded EXCEPT ![t] = @ \ {n}]
      /\ UNCHANGED <<uploaded, shared, cached, syncing, editing, named, announced, due, mine, uploads, listings>>
  BY DEF RecordWrite
<1>2. /\ recorded \in [FileThreads -> SUBSET FileNames] /\ unrecorded \in [FileThreads -> SUBSET FileNames]
      /\ \A o \in FileThreads : mine[o] \subseteq recorded[o] \cup unrecorded[o]
      /\ \A o \in FileThreads : o \notin ElementsOf(cached) => recorded[o] = {} /\ unrecorded[o] = {}
  BY FilesKnown
<1>3. /\ recorded' \in [FileThreads -> SUBSET FileNames] /\ unrecorded' \in [FileThreads -> SUBSET FileNames]
      /\ \A o \in FileThreads : mine'[o] \subseteq recorded'[o] \cup unrecorded'[o]
      /\ \A o \in FileThreads : o \notin ElementsOf(cached') => recorded'[o] = {} /\ unrecorded'[o] = {}
  <2>1. n \in FileNames /\ t \in ElementsOf(cached)
    BY <1>1, <1>2
  <2>2. recorded'[t] = recorded[t] \cup {n} /\ unrecorded'[t] = unrecorded[t] \ {n}
    BY <1>1, <1>2
  <2>3. \A o \in FileThreads : o # t => recorded'[o] = recorded[o] /\ unrecorded'[o] = unrecorded[o]
    BY <1>1, <1>2
  <2>4. ElementsOf(cached') = ElementsOf(cached)
    BY <1>1 DEF ElementsOf
  <2> QED
    BY <1>1, <1>2, <2>1, <2>2, <2>3, <2>4
<1>4. /\ cached' \in Seq(FileThreads) /\ Len(cached') <= MaxCached /\ Distinct(cached')
      /\ mine' \in [FileThreads -> SUBSET FileNames] /\ editing' \in [FileThreads -> Edits \cup {NoEdit}]
      /\ uploaded' \in [FileThreads -> SUBSET FileNames] /\ shared' \in [FileNames -> Contents \cup {NoFile}]
      /\ syncing' \in [FileThreads -> FileNames \cup {NoFile}] /\ uploads' \in 0 .. MaxUploads
      /\ \A o \in FileThreads : editing'[o] # NoEdit /\ editing'[o].current => o \in ElementsOf(cached')
  BY <1>1, FilesKnown
<1> QED
  BY <1>1, <1>3, <1>4, CacheKeeps

\* str_replace has read a file through the sandbox that is in the cache now.
LEMMA BeginReplaceKeeps == ASSUME FilesInv, NEW t \in FileThreads, NEW n \in Edited, BeginReplace(t, n) PROVE FilesInv'
<1> DEFINE e == [name |-> n, text |-> ReadBack(t, n), current |-> TRUE]
<1>1. /\ shared[n] # NoFile
      /\ cached' = Acquired(t) /\ recorded' = Cleared(t, recorded)
      /\ unrecorded' = Cleared(t, unrecorded) /\ mine' = Cleared(t, mine)
      /\ editing' = [Detached(t) EXCEPT ![t] = e]
      /\ UNCHANGED <<uploaded, shared, syncing, named, announced, due, uploads, listings>>
  BY DEF BeginReplace
<1>2. e \in Edits
  <2>1. n \in FileNames
    BY FileAssumption
  <2>2. shared[n] \in Contents
    BY <1>1, <2>1, FilesKnown
  <2>3. ReadBack(t, n) \in Contents
    BY <2>2 DEF ReadBack, Reversed, Contents
  <2> QED
    BY <2>1, <2>3 DEF Edits
<1> HIDE DEF e
<1>3. editing' \in [FileThreads -> Edits \cup {NoEdit}]
  BY <1>1, <1>2, UsesKeep
<1>4. \A o \in FileThreads : editing'[o] # NoEdit /\ editing'[o].current => o \in ElementsOf(cached')
  <2>1. \A o \in FileThreads : o # t => editing'[o] = Detached(t)[o]
    BY <1>1, UsesKeep
  <2> QED
    BY <1>1, <2>1, Acquires, UsesKeep
<1>5. /\ uploaded' \in [FileThreads -> SUBSET FileNames] /\ shared' \in [FileNames -> Contents \cup {NoFile}]
      /\ syncing' \in [FileThreads -> FileNames \cup {NoFile}] /\ uploads' \in 0 .. MaxUploads
  BY <1>1, FilesKnown
<1> QED
  BY <1>1, <1>3, <1>4, <1>5, Acquires, UsesKeep, CacheKeeps

\* and writes what it has made of it through the sandbox it has read with, if that is still there.
LEMMA EndReplaceKeeps == ASSUME FilesInv, NEW t \in FileThreads, EndReplace(t) PROVE FilesInv'
<1> DEFINE edit == editing[t]
           own == IF edit.current THEN {edit.name} ELSE {}
           left == Disowned(mine, edit.name)
<1>1. /\ edit # NoEdit
      /\ \E text \in {edit.text, "skill path"} : shared' = [shared EXCEPT ![edit.name] = Resolved(text)]
      /\ unrecorded' = [unrecorded EXCEPT ![t] = @ \cup own] /\ mine' = [left EXCEPT ![t] = @ \cup own]
      /\ editing' = [editing EXCEPT ![t] = NoEdit]
      /\ UNCHANGED <<uploaded, cached, recorded, syncing, named, announced, due, uploads, listings>>
  BY DEF EndReplace
<1>2. edit.name \in FileNames /\ edit.text \in Contents /\ edit.current \in BOOLEAN
  <2>1. editing \in [FileThreads -> Edits \cup {NoEdit}]
    BY FilesKnown
  <2>2. edit \in Edits
    BY <1>1, <2>1
  <2> HIDE DEF edit
  <2> QED
    BY <2>2 DEF Edits
<1>3. own \subseteq FileNames /\ (own # {} => t \in ElementsOf(cached))
  BY <1>1, <1>2, FilesKnown
<1>4. left \in [FileThreads -> SUBSET FileNames] /\ \A o \in FileThreads : left[o] \subseteq recorded[o] \cup unrecorded[o]
  BY FilesKnown, DisownedKeeps
<1>5. shared' \in [FileNames -> Contents \cup {NoFile}]
  <2>1. shared \in [FileNames -> Contents \cup {NoFile}]
    BY FilesKnown
  <2>2. \A text \in {edit.text, "skill path"} : Resolved(text) \in Contents
    BY <1>2 DEF Resolved, Contents
  <2> QED
    BY <1>1, <2>1, <2>2
<1> HIDE DEF own, left, edit
<1>6. /\ recorded' \in [FileThreads -> SUBSET FileNames] /\ unrecorded' \in [FileThreads -> SUBSET FileNames]
      /\ mine' \in [FileThreads -> SUBSET FileNames]
      /\ \A o \in FileThreads : mine'[o] \subseteq recorded'[o] \cup unrecorded'[o]
  <2>1. recorded \in [FileThreads -> SUBSET FileNames] /\ unrecorded \in [FileThreads -> SUBSET FileNames]
    BY FilesKnown
  <2> QED
    BY <1>1, <1>3, <1>4, <2>1
<1>7. \A o \in FileThreads : o \notin ElementsOf(cached') => recorded'[o] = {} /\ unrecorded'[o] = {}
  <2>1. /\ recorded \in [FileThreads -> SUBSET FileNames] /\ unrecorded \in [FileThreads -> SUBSET FileNames]
        /\ \A o \in FileThreads : o \notin ElementsOf(cached) => recorded[o] = {} /\ unrecorded[o] = {}
    BY FilesKnown
  <2>2. ElementsOf(cached') = ElementsOf(cached)
    BY <1>1 DEF ElementsOf
  <2> QED
    BY <1>1, <1>3, <2>1, <2>2
<1>8. editing' \in [FileThreads -> Edits \cup {NoEdit}]
      /\ \A o \in FileThreads : editing'[o] # NoEdit /\ editing'[o].current => o \in ElementsOf(cached')
  <2>1. /\ editing \in [FileThreads -> Edits \cup {NoEdit}]
        /\ \A o \in FileThreads : editing[o] # NoEdit /\ editing[o].current => o \in ElementsOf(cached)
    BY FilesKnown
  <2>2. editing' = [editing EXCEPT ![t] = NoEdit] /\ ElementsOf(cached') = ElementsOf(cached)
    BY <1>1 DEF ElementsOf
  <2> QED
    BY <2>1, <2>2
<1>9. /\ cached' \in Seq(FileThreads) /\ Len(cached') <= MaxCached /\ Distinct(cached')
      /\ uploaded' \in [FileThreads -> SUBSET FileNames]
      /\ syncing' \in [FileThreads -> FileNames \cup {NoFile}] /\ uploads' \in 0 .. MaxUploads
  BY <1>1, FilesKnown
<1>10. UNCHANGED <<named, announced, due, listings>>
  BY <1>1
<1> QED
  BY <1>5, <1>6, <1>7, <1>8, <1>9, <1>10, CacheKeeps

\* Every step of uploads, listings and tools keeps the invariant.
LEMMA FilesKeep == FilesInv /\ [FilesNext]_filesVars => FilesInv'
<1> SUFFICES ASSUME FilesInv, [FilesNext]_filesVars PROVE FilesInv'
  OBVIOUS
<1>1. CASE UploadStep
  BY <1>1, UploadKeeps, DirectoryKeeps DEF UploadStep
<1>2. CASE ListStep
  BY <1>2, ListFilesKeeps, DirectoryKeeps DEF ListStep
<1>3. CASE ToolStep
  <2>1. PICK t \in FileThreads :
            \/ UseSandbox(t) \/ EndReplace(t)
            \/ \E n \in Edited : BeginReplace(t, n) \/ RecordWrite(t, n)
            \/ \E n \in Edited, text \in Contents :
                  \/ BashWrites(t, n, text)
                  \/ \E append \in BOOLEAN : WriteByTool(t, n, text, append)
    BY <1>3 DEF ToolStep
  <2>2. CASE UseSandbox(t) \/ \E n \in Edited, text \in Contents : BashWrites(t, n, text)
    BY <2>2, UseKeeps
  <2>3. CASE EndReplace(t)
    BY <2>3, EndReplaceKeeps
  <2>4. CASE \E n \in Edited : BeginReplace(t, n) \/ RecordWrite(t, n)
    BY <2>4, BeginReplaceKeeps, RecordWriteKeeps
  <2>5. CASE \E n \in Edited, text \in Contents : \E append \in BOOLEAN : WriteByTool(t, n, text, append)
    BY <2>5, WriteByToolKeeps
  <2> QED
    BY <2>1, <2>2, <2>3, <2>4, <2>5
<1>4. CASE UNCHANGED filesVars
  <2>1. UNCHANGED <<uploaded, shared, cached, recorded, unrecorded, syncing, editing, named, announced, due, mine,
                  uploads, listings>>
    BY <1>4 DEF filesVars
  <2> QED
    BY <2>1 DEF FilesInv, FilesTypeOK, EditorsCached, MineRecorded, NamesRead, ElementsOf
<1> QED
  BY <1>1, <1>2, <1>3, <1>4 DEF FilesNext

\* What a sandbox has recorded is reversed when it is read, and what was written last is recorded
\* unless that is yet to come; and a file that was not listed
\* has the name of one that was.
LEMMA FilesImplied == FilesInv => FilesTypeOK /\ AgentSeesFiles
<1> SUFFICES ASSUME FilesInv PROVE AgentSeesFiles
  BY DEF FilesInv
<1>1. UploadsAreListed
  <2>1. ASSUME NEW t \in FileThreads, NEW n \in due[t], n \notin announced[t]
        PROVE  \E o \in announced[t] : o # n /\ ReadAs[o] = n
    <3>1. n \in {ReadAs[o] : o \in announced[t]}
      BY <2>1 DEF FilesInv, NamesRead
    <3> QED
      BY <2>1, <3>1
  <2> QED
    BY <2>1 DEF UploadsAreListed
<1>2. OwnPathsReadBack
  <2>1. ASSUME NEW t \in FileThreads, NEW n \in mine[t] \ unrecorded[t] PROVE ReadBack(t, n) # "host path"
    <3>1. n \in recorded[t]
      BY DEF FilesInv, MineRecorded
    <3> QED
      BY <3>1 DEF ReadBack, Reversed
  <2> QED
    BY <2>1 DEF OwnPathsReadBack
<1> QED
  BY <1>1, <1>2 DEF AgentSeesFiles

\* The agent is shown every file of its thread, but for those whose name another is read
\* as, and reads no host path in what it wrote last and has recorded (uploads_middleware.py, sandbox/local).
THEOREM FilesGetToAgents == FilesSpec => [](FilesTypeOK /\ AgentSeesFiles)
  BY FilesInitially, FilesKeep, FilesImplied, PTL DEF FilesSpec

-----------------------------------------------------------------------------
(***************************************************************************)
(* All together. A behaviour of MCAgents moves one part, so every          *)
(* component follows its own specification; the detector moves by itself   *)
(* or in turns.                                                            *)
(***************************************************************************)

\* Every component begins as it would alone.
LEMMA PartsInit == AgentsInit =>
    /\ ExtensionsInit /\ SwarmInit /\ LoopInit /\ TurnInit /\ TodoInit /\ RecordsInit /\ FilesInit
    /\ MountInit /\ EvalInit /\ SettingsInit
BY DEF AgentsInit, TurnInit

\* Whichever part moves, each component takes one of its steps or none.
LEMMA PartsStep == [AgentsNext]_<<part, agentsVars, threadsVars, hostVars>> =>
    /\ [ExtensionsNext]_extensionsVars /\ [SwarmNext]_swarmVars
    /\ [TurnNext]_agentVars \/ ([LoopNext]_loopVars /\ UNCHANGED turnVars)
    /\ [TodoNext]_todoVars /\ [RecordsNext]_recordVars /\ [FilesNext]_filesVars
    /\ [MountNext]_mountVars /\ [EvalNext]_evalVars /\ [SettingsNext]_settingsVars
<1> DEFINE Goal == /\ [ExtensionsNext]_extensionsVars /\ [SwarmNext]_swarmVars
                   /\ [TurnNext]_agentVars \/ ([LoopNext]_loopVars /\ UNCHANGED turnVars)
                   /\ [TodoNext]_todoVars /\ [RecordsNext]_recordVars /\ [FilesNext]_filesVars
                   /\ [MountNext]_mountVars /\ [EvalNext]_evalVars /\ [SettingsNext]_settingsVars
<1>1. UNCHANGED agentsVars => /\ UNCHANGED extensionsVars /\ UNCHANGED swarmVars /\ UNCHANGED agentVars
  BY DEF agentsVars
<1>2. UNCHANGED threadsVars => /\ UNCHANGED todoVars /\ UNCHANGED recordVars /\ UNCHANGED filesVars
  BY DEF threadsVars
<1>3. UNCHANGED hostVars => /\ UNCHANGED mountVars /\ UNCHANGED evalVars /\ UNCHANGED settingsVars
  BY DEF hostVars
<1>4. AgentStep => /\ [ExtensionsNext]_extensionsVars /\ [SwarmNext]_swarmVars
                   /\ [TurnNext]_agentVars \/ ([LoopNext]_loopVars /\ UNCHANGED turnVars)
  <2>1. ViewedStep => SwarmNext
    <3>1. ASSUME NEW c \in Spawns, SendDirect(c, Lead) PROVE SwarmNext
      BY <3>1 DEF SwarmNext, ChatStep, Agents
    <3> QED
      BY <3>1 DEF ViewedStep, Viewed, SwarmNext, TeamStep, TaskStep, ChatStep
  <2> QED
    BY <2>1 DEF AgentStep, SwarmNext
<1>5. ThreadStep => [TodoNext]_todoVars /\ [RecordsNext]_recordVars /\ [FilesNext]_filesVars
  BY DEF ThreadStep, FilesNext
<1>6. HostStep => [MountNext]_mountVars /\ [EvalNext]_evalVars /\ [SettingsNext]_settingsVars
  BY DEF HostStep
<1>7. ASSUME AgentsNext PROVE Goal
  BY <1>1, <1>2, <1>3, <1>4, <1>5, <1>6, <1>7 DEF AgentsNext
<1>8. UNCHANGED <<part, agentsVars, threadsVars, hostVars>> => Goal
  BY <1>1, <1>2, <1>3
<1> QED BY <1>7, <1>8

\* The detector moves by itself, or in a turn.
LEMMA TurnAmongParts ==
  TurnInv /\ ([TurnNext]_agentVars \/ ([LoopNext]_loopVars /\ UNCHANGED turnVars))
  => TurnInv' /\ [LoopNext]_loopVars
<1>1. TurnInv /\ UNCHANGED turnVars => TurnInv'
  BY DEF turnVars, TurnInv, TurnKnown, Responding, Final
<1> QED BY <1>1, TurnInvStep, LoopsInTurns

\* Each component does in MCAgents what its own specification says.
LEMMA PartsFollow ==
  AgentsSpec => /\ ExtensionsSpec /\ SwarmSpec /\ LoopSpec /\ []TurnInv
                /\ TodoSpec /\ RecordsSpec /\ FilesSpec
                /\ MountSpec /\ EvalSpec /\ SettingsSpec
BY PartsInit, PartsStep, TurnInvInit, TurnAmongParts, PTL
   DEF AgentsSpec, ExtensionsSpec, SwarmSpec, LoopSpec, TodoSpec, RecordsSpec, FilesSpec, MountSpec,
       EvalSpec, SettingsSpec

\* All components are typed, whichever part moves.
THEOREM AgentsTyped == AgentsSpec => []AgentsTypeOK
<1>1. TurnInv => TurnTypeOK /\ TurnHolds
  BY TurnFollows
<1>2. (/\ ExtensionsTypeOK /\ SwarmTypeOK /\ LoopTypeOK /\ TurnTypeOK /\ TodoTypeOK /\ RecordsTypeOK
       /\ FilesTypeOK /\ MountTypeOK /\ EvalTypeOK /\ SettingsTypeOK) => AgentsTypeOK
  BY DEF AgentsTypeOK
<1> QED BY <1>1, <1>2, PartsFollow, ToolsAndFileInStep, TeamShowsItsTasks, LoopsGetNoFurther, RunsAreReminded,
           RecordsTyped, FilesGetToAgents, MountsAreTyped, EvaluationsTyped, SectionsFollowTheirText, PTL
=============================================================================

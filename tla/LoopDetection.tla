---------------------------- MODULE LoopDetection ----------------------------
(***************************************************************************)
(* agents/middlewares/loop_detection_middleware.py: the bookkeeping of one *)
(* middleware object, which serves many threads.                           *)
(*                                                                         *)
(* A response is the sequence of the tools it calls; two responses with    *)
(* the same calls in any order hash alike.  A response is a step, as the   *)
(* code holds _lock for the whole of _track_and_check.  What a thread has  *)
(* called is forgotten when MaxTracked other threads were used since, and  *)
(* by reset; the history variable `era` holds it since then.               *)
(***************************************************************************)
EXTENDS FiniteSets, Removal

CONSTANTS LoopThreads, Tools,
          Responses,             \* sequences of tools a response may call
          WarnAt, StopAt,        \* warn_threshold, hard_limit
          WindowSize, MaxTracked,
          FreqWarn, FreqStop,    \* per tool, tool_freq_overrides applied
          MaxTracks              \* bound: responses that are tracked

\* The constructor compares no thresholds; the lead agent takes its defaults, where
\* every warning comes before its stop.
ASSUME LoopAssumption ==
    /\ Responses \subseteq Seq(Tools)
    /\ WarnAt \in 1 .. StopAt - 1 /\ StopAt \in 1 .. WindowSize
    /\ WindowSize \in Nat /\ MaxTracked \in Nat \ {0} /\ MaxTracks \in Nat
    /\ FreqStop \in [Tools -> Nat] /\ FreqWarn \in [Tools -> Nat]
    /\ \A n \in Tools : FreqWarn[n] \in 1 .. FreqStop[n] - 1

VARIABLES used,       \* the threads in _history, least recently used first
          history,    \* what _history holds for each thread
          warned,     \* _warned
          freq,       \* _tool_freq
          freqWarned, \* _tool_freq_warned
          era,        \* history: the verdict on each response since forgetting
          tracks      \* responses so far

loopVars == <<used, history, warned, freq, freqWarned, era, tracks>>

\* _hash_tool_calls: the multiset of the calls.
Count(s, e) == Cardinality({i \in DOMAIN s : s[i] = e})
Hash(calls) == [n \in Tools |-> Count(calls, n)]
Hashes == {Hash(r) : r \in Responses}
Verdicts == {"pass", "warn", "freq warn", "stop", "freq stop"}

LoopTypeOK ==
    /\ used \in Seq(LoopThreads) /\ Len(used) <= MaxTracked
    /\ \A i, j \in DOMAIN used : used[i] = used[j] => i = j
    /\ history \in [LoopThreads -> Seq(Hashes)]
    /\ \A t \in LoopThreads : Len(history[t]) <= WindowSize
    /\ warned \in [LoopThreads -> SUBSET Hashes] /\ freqWarned \in [LoopThreads -> SUBSET Tools]
    /\ freq \in [LoopThreads -> [Tools -> Nat]]
    /\ era \in [LoopThreads -> Seq([calls : Responses, verdict : Verdicts])]
    /\ tracks \in 0 .. MaxTracks

NoCalls == [n \in Tools |-> 0]

LoopInit ==
    /\ used = <<>> /\ tracks = 0
    /\ history = [t \in LoopThreads |-> <<>>] /\ era = [t \in LoopThreads |-> <<>>]
    /\ warned = [t \in LoopThreads |-> {}] /\ freqWarned = [t \in LoopThreads |-> {}]
    /\ freq = [t \in LoopThreads |-> NoCalls]
-----------------------------------------------------------------------------
(* The two layers. *)

LastOf(s, n) == IF Len(s) > n THEN SubSeq(s, Len(s) - n + 1, Len(s)) ELSE s

\* Mutant: the response is compared with the ones before it.
WindowBefore(t, calls) == history[t]

\* Mutant: the history of a thread is never trimmed.
WindowUntrimmed(t, calls) == Append(history[t], Hash(calls))

Window(t, calls) == LastOf(Append(history[t], Hash(calls)), WindowSize)

\* Identical call sets.
HashVerdict(t, calls) ==
    LET count == Count(Window(t, calls), Hash(calls)) IN
    IF count >= StopAt THEN "stop"
    ELSE IF count >= WarnAt /\ Hash(calls) \notin warned[t] THEN "warn"
    ELSE "pass"

\* Tool frequencies: the calls are counted until one of them is too many.
Counted(t, calls, k) == [n \in Tools |-> freq[t][n] + Count(SubSeq(calls, 1, k), n)]

Trips(t, calls, k) ==
    LET n == calls[k]  count == Counted(t, calls, k)[n] IN
    count >= FreqStop[n] \/ (count >= FreqWarn[n] /\ n \notin freqWarned[t])

Tripping(t, calls) == {k \in DOMAIN calls : Trips(t, calls, k)}
LeastOf(S) == CHOOSE k \in S : \A j \in S : k <= j

FreqVerdict(t, calls) ==
    LET k == LeastOf(Tripping(t, calls))  n == calls[k] IN
    IF Tripping(t, calls) = {} THEN "pass"
    ELSE IF Counted(t, calls, k)[n] >= FreqStop[n] THEN "freq stop"
    ELSE "freq warn"

Verdict(t, calls) ==
    IF HashVerdict(t, calls) = "pass" THEN FreqVerdict(t, calls) ELSE HashVerdict(t, calls)
-----------------------------------------------------------------------------
(* Operations. *)

Forgotten(T, f, none) == [u \in LoopThreads |-> IF u \in T THEN none ELSE f[u]]

\* Mutant: an evicted thread keeps the warnings it was given.
NoWarningForgotten(T) == warned

WarningsWithout(T) == Forgotten(T, warned, {})

\* _evict_if_needed: the thread used longest ago makes room for a new one.
Evicted(t) ==
    IF t \notin {used[i] : i \in DOMAIN used} /\ Len(used) = MaxTracked THEN {used[1]} ELSE {}

\* _track_and_check of a response with tool calls.
Track(t, calls) ==
    LET verdict == Verdict(t, calls)
        trips   == Tripping(t, calls)
        counted == IF HashVerdict(t, calls) # "pass" THEN freq[t]
                   ELSE Counted(t, calls, IF trips = {} THEN Len(calls) ELSE LeastOf(trips))
        out     == Evicted(t)
    IN
    /\ tracks < MaxTracks
    /\ tracks' = tracks + 1
    /\ used' = Append(Without(used, {t} \cup out), t)
    /\ history' = [Forgotten(out, history, <<>>) EXCEPT ![t] = Window(t, calls)]
    /\ warned' = [WarningsWithout(out) EXCEPT
                      ![t] = @ \cup {Hash(calls) : v \in {verdict} \cap {"warn"}}]
    /\ freq' = [Forgotten(out, freq, NoCalls) EXCEPT ![t] = counted]
    /\ freqWarned' = [Forgotten(out, freqWarned, {}) EXCEPT
                        ![t] = @ \cup (IF verdict = "freq warn" THEN {calls[LeastOf(trips)]} ELSE {})]
    /\ era' = [Forgotten(out, era, <<>>) EXCEPT
                      ![t] = Append(@, [calls |-> calls, verdict |-> verdict])]

\* reset, of a thread or of all.
Reset(T) ==
    /\ used' = Without(used, T)
    /\ history' = Forgotten(T, history, <<>>) /\ era' = Forgotten(T, era, <<>>)
    /\ warned' = WarningsWithout(T)
    /\ freq' = Forgotten(T, freq, NoCalls) /\ freqWarned' = Forgotten(T, freqWarned, {})
    /\ UNCHANGED tracks

LoopNext ==
    \/ \E t \in LoopThreads, calls \in Responses : Track(t, calls)
    \/ \E t \in LoopThreads : Reset({t})
    \/ Reset(LoopThreads)

LoopSpec == LoopInit /\ [][LoopNext]_loopVars
-----------------------------------------------------------------------------
(* Properties. *)

\* The calls of n in the responses of an era that passed.
Passed(e, n) ==
    {ik \in UNION {{i} \X DOMAIN e[i].calls : i \in DOMAIN e} :
        e[ik[1]].verdict = "pass" /\ e[ik[1]].calls[ik[2]] = n}

LetThrough(t) == {i \in DOMAIN era[t] : era[t][i].verdict \notin {"stop", "freq stop"}}

\* No thread gets the same set of calls past the detector more than StopAt - 1
\* times within a window, nor one tool FreqStop times, responses not counted
\* that were answered with a warning (which leaves the later calls of a
\* response, or all of them, out of the count).
LoopsAreBroken ==
    \A t \in LoopThreads :
        /\ \A i \in DOMAIN era[t] :
              Cardinality({j \in LetThrough(t) : /\ j \in i - WindowSize + 1 .. i
                                                 /\ Hash(era[t][j].calls) = Hash(era[t][i].calls)}) < StopAt
        /\ \A n \in Tools : Cardinality(Passed(era[t], n)) < FreqStop[n]

\* Nobody is stopped for what he was not warned of since the detector knows
\* him: neither an eviction nor a window that slides leaves half of the records.
WarnedBeforeStop ==
    \A t \in LoopThreads : \A i \in DOMAIN era[t] :
        /\ era[t][i].verdict = "stop" =>
               \E j \in 1 .. i - 1 : /\ era[t][j].verdict = "warn"
                                     /\ Hash(era[t][j].calls) = Hash(era[t][i].calls)
        /\ era[t][i].verdict = "freq stop" =>
               \E j \in 1 .. i - 1 : /\ era[t][j].verdict = "freq warn"
                                     /\ \E n \in Tools : /\ Count(era[t][j].calls, n) > 0
                                                        /\ Count(era[t][i].calls, n) > 0

\* The loop guard stops loops, all of them, and nobody by surprise.
LoopGuardHolds == LoopsAreBroken /\ WarnedBeforeStop
=============================================================================

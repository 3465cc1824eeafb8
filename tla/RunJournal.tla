----------------------------- MODULE RunJournal -----------------------------
(***************************************************************************)
(* runtime/journal.py, the rows of runtime/event_store.py and the end of a *)
(* run in api/runs.py.  LangChain calls the journal back for everything    *)
(* the graph does.  Callbacks run on the event loop or, under the async    *)
(* callback manager, in a thread of the default executor; only the former  *)
(* find a running loop and can start a flush.  A list operation is atomic, *)
(* but copy-then-clear in _flush_sync, `batch + buffer`, then assign after *)
(* a failure, and slice-then-delete in flush are two operations each: an   *)
(* append of a thread between them is the race this model keeps (`swap`).  *)
(* In the second case it is a thread that has looked up the list and       *)
(* appends to the one just replaced; in the third the slice was short of   *)
(* the threshold and what is deleted is not.                               *)
(*                                                                         *)
(* An event is its number.  Token counts are units: a response with usage  *)
(* weighs one, so that a total is the number of times something was added. *)
(***************************************************************************)
EXTENDS Integers, Sequences, FiniteSets, SequencesExt

CONSTANTS MaxEvents,       \* bound: events of the run
          FlushThreshold,  \* flush_threshold
          LlmRuns,         \* LangChain run ids and source ids of model calls
          LoopCallbacks    \* some callbacks run on the event loop

ASSUME JournalAssumption ==
    /\ MaxEvents \in Nat
    /\ FlushThreshold \in Nat \ {0}
    /\ LoopCallbacks \in BOOLEAN

VARIABLES emitted,    \* how many events the callbacks have put
          buffered,   \* _buffer
          swap,       \* between two operations: "take", "return", "cut", or "no"
          seen,       \* length of the buffer the first operation read
          inFlight,   \* batch of the task in _pending_flush_tasks
          finish,     \* where the run's finally block is
          batch,      \* batch of flush()
          stored,     \* events with a row in run_events
          doubled,    \* events with more than one row
          mishap,     \* history: the events each kind of mishap has met
          due         \* history: events put before the last look at the buffer

storeVars == <<stored, doubled>>
bufferVars == <<emitted, buffered, swap, seen, inFlight, storeVars, mishap>>
finishVars == <<finish, batch, due>>

VARIABLES counted,    \* _counted_llm_run_ids
          reported,   \* _counted_external_source_ids
          answered,   \* _counted_message_llm_run_ids
          buckets,    \* the three bucketed token counters
          tokens,     \* _total_tokens
          messages,   \* _msg_count of AI messages
          saved       \* run_completions has the run's row

tokenVars == <<counted, reported, answered, buckets, tokens, messages>>
journalVars == <<bufferVars, finishVars, tokenVars, saved>>

Callers == {"lead_agent", "subagent", "middleware"}
Mishaps == {"raced", "cancelled", "late"}
Batches == Seq(1 .. MaxEvents)

JournalTypeOK ==
    /\ emitted \in 0 .. MaxEvents
    /\ buffered \in Batches /\ inFlight \in Batches
    /\ batch \in Batches /\ Len(batch) <= FlushThreshold
    /\ swap \in {"no", "take", "return", "cut"} /\ seen \in Nat
    /\ finish \in {"running", "gather", "look", "put", "save", "over"}
    /\ stored \in SUBSET (1 .. MaxEvents) /\ doubled \in SUBSET (1 .. MaxEvents)
    /\ mishap \in [Mishaps -> SUBSET (1 .. MaxEvents)]
    /\ due \in 0 .. MaxEvents
    /\ counted \in SUBSET LlmRuns /\ reported \in SUBSET LlmRuns
    /\ answered \in SUBSET LlmRuns
    /\ buckets \in [Callers -> Nat]
    /\ tokens \in Nat /\ messages \in Nat
    /\ saved \in BOOLEAN

JournalInit ==
    /\ emitted = 0 /\ buffered = <<>> /\ swap = "no" /\ seen = 0
    /\ inFlight = <<>> /\ finish = "running" /\ batch = <<>>
    /\ stored = {} /\ doubled = {} /\ mishap = [r \in Mishaps |-> {}]
    /\ due = 0
    /\ counted = {} /\ reported = {} /\ answered = {} /\ buckets = [c \in Callers |-> 0]
    /\ tokens = 0 /\ messages = 0 /\ saved = FALSE

-----------------------------------------------------------------------------
(* _put and _flush_sync. *)

PutEvent ==
    /\ emitted < MaxEvents
    /\ emitted' = emitted + 1
    /\ buffered' = Append(buffered, emitted + 1)

\* In a thread there is no running loop, and _flush_sync returns.
PutInThread ==
    /\ PutEvent
    /\ UNCHANGED <<swap, seen, inFlight, storeVars, mishap, finishVars, saved>>

MayFlush == inFlight = <<>>

\* On the loop, a full buffer is copied; run.end and run.error flush any.
PutOnLoop(always) ==
    /\ LoopCallbacks /\ finish = "running" /\ swap = "no"
    /\ PutEvent
    /\ IF MayFlush /\ (always \/ Len(buffered) + 1 >= FlushThreshold)
       THEN swap' = "take" /\ seen' = Len(buffered) + 1
       ELSE UNCHANGED <<swap, seen>>
    /\ UNCHANGED <<inFlight, storeVars, mishap, finishVars, saved>>

\* What the first operation read, and what came in since.
Copied == SubSeq(buffered, 1, seen)
Raced == ToSet(SubSeq(buffered, seen + 1, Len(buffered)))

ClearBuffer ==
    /\ swap = "take"
    /\ swap' = "no" /\ seen' = 0
    /\ inFlight' = Copied
    /\ buffered' = <<>>
    /\ mishap' = [mishap EXCEPT !["raced"] = @ \cup Raced]
    /\ UNCHANGED <<emitted, storeVars, finishVars, tokenVars, saved>>

\* Mutant: a failed batch goes back without what was buffered since.
PutBackAlone(events) == events

PutBack(events) == events \o Copied

ReturnBatch ==
    /\ swap = "return"
    /\ swap' = "no" /\ seen' = 0
    /\ LET onTask == finish \in {"running", "gather"} IN
          /\ buffered' = PutBack(IF onTask THEN inFlight ELSE batch)
          /\ inFlight' = IF onTask THEN <<>> ELSE inFlight
          /\ batch' = IF onTask THEN batch ELSE <<>>
          /\ finish' = IF onTask THEN finish ELSE "over"
    /\ mishap' = [mishap EXCEPT !["raced"] = @ \cup Raced]
    /\ UNCHANGED <<emitted, storeVars, due, tokenVars, saved>>

-----------------------------------------------------------------------------
(* put_batch of the store: one transaction, which may commit and then fail, *)
(* as when the connection is lost before the answer.                        *)

Store(events) ==
    /\ stored' = stored \cup ToSet(events)
    /\ doubled' = doubled \cup (stored \cap ToSet(events))

FailedPut(events) ==
    \/ /\ Store(events)
       /\ mishap' = [mishap EXCEPT !["late"] = @ \cup ToSet(events)]
    \/ UNCHANGED <<storeVars, mishap>>

\* _flush_async and _on_flush_done.
FlushTaskDone ==
    /\ inFlight # <<>> /\ swap = "no"
    /\ Store(inFlight)
    /\ inFlight' = <<>>
    /\ UNCHANGED <<emitted, buffered, swap, seen, mishap, finishVars, tokenVars, saved>>

FlushTaskFails ==
    /\ inFlight # <<>> /\ swap = "no"
    /\ FailedPut(inFlight)
    /\ swap' = "return" /\ seen' = Len(buffered)
    /\ UNCHANGED <<emitted, buffered, inFlight, finishVars, tokenVars, saved>>

-----------------------------------------------------------------------------
(* The callbacks that count. *)

AddTokens(c) ==
    /\ tokens' = tokens + 1
    /\ buckets' = [buckets EXCEPT ![c] = @ + 1]

\* Mutant: every callback of a call counts.
LlmEndCountsAgain(r, c, usage) ==
    /\ IF usage
       THEN counted' = counted \cup {r} /\ AddTokens(c)
       ELSE UNCHANGED <<counted, tokens, buckets>>
    /\ UNCHANGED reported
    /\ messages' = IF r \in answered THEN messages ELSE messages + 1
    /\ answered' = answered \cup {r}

\* on_llm_end may be fired again for the same run id.
LlmEnd(r, c, usage) ==
    /\ IF usage /\ r \notin counted
       THEN counted' = counted \cup {r} /\ AddTokens(c)
       ELSE UNCHANGED <<counted, tokens, buckets>>
    /\ UNCHANGED reported
    /\ messages' = IF r \in answered THEN messages ELSE messages + 1
    /\ answered' = answered \cup {r}

\* A record of record_external_llm_usage, at any time; no event.  A source id is
\* only looked for among those reported this way.
ExternalUsage(r, c) ==
    /\ r \notin reported
    /\ reported' = reported \cup {r} /\ AddTokens(c)
    /\ UNCHANGED <<counted, answered, messages, bufferVars, finishVars, saved>>

Response ==
    \E r \in LlmRuns, c \in Callers, usage \in BOOLEAN :
        /\ LlmEnd(r, c, usage)
        /\ PutInThread \/ PutOnLoop(FALSE)

\* Every other callback puts one event and counts no tokens.
OtherEvent ==
    /\ UNCHANGED tokenVars
    /\ PutInThread \/ PutOnLoop(FALSE) \/ PutOnLoop(TRUE)

-----------------------------------------------------------------------------
(* The finally block of _run_agent_task: flush, save_completion. *)

LoopFree == swap = "no"

Finalize ==
    /\ finish = "running" /\ LoopFree
    /\ finish' = "gather"
    /\ UNCHANGED <<bufferVars, batch, due, tokenVars, saved>>

Gathered ==
    /\ finish = "gather" /\ inFlight = <<>> /\ LoopFree
    /\ finish' = "look"
    /\ UNCHANGED <<bufferVars, batch, due, tokenVars, saved>>

\* `_buffer[: threshold]`, and `del _buffer[: threshold]`.
InBatch == IF Len(buffered) < FlushThreshold THEN Len(buffered) ELSE FlushThreshold

TakeBatch ==
    /\ finish = "look" /\ buffered # <<>> /\ swap = "no"
    /\ swap' = "cut" /\ seen' = InBatch
    /\ UNCHANGED <<emitted, buffered, inFlight, storeVars, mishap, finishVars, tokenVars, saved>>

\* Mutant: the slice has no end.
DeleteBatchWhole ==
    /\ swap = "cut"
    /\ swap' = "no" /\ seen' = 0
    /\ batch' = buffered /\ buffered' = <<>>
    /\ finish' = "put"
    /\ UNCHANGED <<emitted, inFlight, storeVars, mishap, due, tokenVars, saved>>

\* Mutant: the batch is not deleted from the buffer.
DeleteBatchKeeping ==
    /\ swap = "cut"
    /\ swap' = "no" /\ seen' = 0
    /\ batch' = Copied /\ finish' = "put"
    /\ UNCHANGED <<emitted, buffered, inFlight, storeVars, mishap, due, tokenVars, saved>>

DeleteBatch ==
    /\ swap = "cut"
    /\ swap' = "no" /\ seen' = 0
    /\ batch' = Copied /\ finish' = "put"
    /\ buffered' = SubSeq(buffered, InBatch + 1, Len(buffered))
    /\ mishap' = [mishap EXCEPT !["raced"] = @ \cup ToSet(SubSeq(buffered, seen + 1, InBatch))]
    /\ UNCHANGED <<emitted, inFlight, storeVars, due, tokenVars, saved>>

BatchStored ==
    /\ finish = "put" /\ swap = "no"
    /\ Store(batch)
    /\ batch' = <<>> /\ finish' = "look"
    /\ UNCHANGED <<emitted, buffered, swap, seen, inFlight, mishap, due, tokenVars, saved>>

\* The error is raised out of flush: no completion row (ReturnBatch).
BatchFails ==
    /\ finish = "put" /\ swap = "no"
    /\ FailedPut(batch)
    /\ swap' = "return" /\ seen' = Len(buffered)
    /\ UNCHANGED <<emitted, buffered, inFlight, finishVars, tokenVars, saved>>

\* Mutant: flush stops after one batch.
FlushedOnce ==
    /\ finish = "look" /\ swap = "no"
    /\ finish' = "save" /\ due' = emitted
    /\ UNCHANGED <<bufferVars, batch, tokenVars, saved>>

\* The buffer is empty: get_completion_data, and on to save_completion.
Flushed ==
    /\ finish = "look" /\ buffered = <<>> /\ swap = "no"
    /\ finish' = "save" /\ due' = emitted
    /\ UNCHANGED <<bufferVars, batch, tokenVars, saved>>

SaveCompletion ==
    /\ finish = "save"
    /\ finish' = "over"
    /\ saved' \in BOOLEAN
    /\ UNCHANGED <<bufferVars, batch, due, tokenVars>>

\* task.cancel() in the finally block: CancelledError is no Exception, so a
\* batch on its way is not put back; the gather passes it on to the flush task.
CancelFinish ==
    /\ swap = "no"
    /\ \/ finish = "gather" /\ inFlight # <<>>
       \/ finish \in {"put", "save"}
    /\ LET going == IF finish = "put" THEN batch ELSE inFlight IN
          \/ /\ Store(going)
             /\ UNCHANGED mishap
          \/ /\ mishap' = [mishap EXCEPT !["cancelled"] = @ \cup ToSet(going)]
             /\ UNCHANGED storeVars
    /\ inFlight' = <<>> /\ batch' = <<>> /\ finish' = "over"
    /\ saved' \in IF finish = "save" THEN BOOLEAN ELSE {saved}
    /\ UNCHANGED <<emitted, buffered, swap, seen, due, tokenVars>>

JournalNext ==
    \/ Response \/ OtherEvent
    \/ \E r \in LlmRuns, c \in Callers : ExternalUsage(r, c)
    \/ ClearBuffer \/ ReturnBatch \/ FlushTaskDone \/ FlushTaskFails
    \/ Finalize \/ Gathered \/ TakeBatch \/ DeleteBatch
    \/ BatchStored \/ BatchFails \/ Flushed \/ SaveCompletion \/ CancelFinish

JournalSpec == JournalInit /\ [][JournalNext]_journalVars
-----------------------------------------------------------------------------
(* Properties. *)

Held == ToSet(buffered) \cup ToSet(inFlight) \cup ToSet(batch)
Gone == mishap["raced"] \cup mishap["cancelled"]

\* However flushes fail, overlap and are retried, an event a callback has put
\* is in a row, on its way there, or in one of two named gaps: it was appended
\* between the two operations of a swap, or the run was cancelled mid-flush.
\* Nothing is taken twice: an event gets a second row only because a put_batch
\* committed and then failed.
EventsAccounted ==
    /\ 1 .. emitted \subseteq Held \cup stored \cup Gone
    /\ doubled \subseteq mishap["late"]

\* A run's summary is only saved over complete telemetry: everything put up
\* to then is stored, except in the same two gaps.
CompletionAfterEvents == saved => 1 .. due \subseteq stored \cup Gone

\* The bucketed counters add up to the total, and a model call is counted once
\* however often its callback fires and however often it is reported from outside.
\* One exception: a call that is counted here and reported from outside under the
\* same id counts twice, for neither path looks at what the other has counted.
TokensCountedOnce ==
    /\ tokens = Cardinality(counted \cup reported) + Cardinality(counted \cap reported)
    /\ tokens = buckets["lead_agent"] + buckets["subagent"] + buckets["middleware"]
    /\ messages = Cardinality(answered)

\* The line of an EventLog: what is being stored is at its head.
Line == inFlight \o batch \o buffered

Log == INSTANCE EventLog WITH
    put <- emitted, line <- Line, rows <- stored, again <- doubled,
    unnoticed <- mishap["late"], gone <- Gone, closing <- finish = "save"

\* Flush tasks, flush() and what they put back keep the events in one line: batches
\* are stored whole and from its head, whoever stores them. A batch may be lost from
\* the head, and from behind it events that nobody has tried to store.
JournalIsALog == Log!Spec

\* The stored run tells what has happened: all its events, the oldest first, and their
\* summary.
RunsAreStored == EventsAccounted /\ CompletionAfterEvents /\ Log!OldestFirst
=============================================================================

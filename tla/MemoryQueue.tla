---------------------------- MODULE MemoryQueue ----------------------------
(***************************************************************************)
(* agents/memory/queue.py and the read, ask, write of updater.py: the      *)
(* conversations that MemoryMiddleware hands over after each agent turn    *)
(* wait for a debounce timer, are taken in batches, and each updates the   *)
(* memory of its user in PostgreSQL.                                       *)
(*                                                                         *)
(* Timers are threads.  A timer is armed, then woken (its function runs    *)
(* and waits for the lock), and cancel() stops only an armed one.  `armed` *)
(* is the one _timer refers to; a batch that is taken by an older timer or *)
(* by flush() sets _timer to None and leaves an armed one stray.           *)
(*                                                                         *)
(* A conversation is the number of its add(); its messages hold the whole  *)
(* thread, so a later one of the same thread replaces it.  All threads     *)
(* belong to one user, the interesting case.  What the LLM makes of the    *)
(* current memory and a conversation is memory that covers both, and at    *)
(* most one new fact.  Sections are written whole, facts are inserted.     *)
(***************************************************************************)
EXTENDS FiniteSets, SequencesExt, Removal

CONSTANTS ChatThreads,   \* thread ids
          Signals,       \* correction_detected, reinforcement_detected
          FactKeys,      \* normalised contents of facts
          UpdatePool,    \* max_workers of _MEMORY_EXECUTOR
          MaxAdds,       \* bound: calls of add()
          MaxFlushes,    \* bound: calls of flush()
          MaxClears      \* bound: calls of clear()

ASSUME MemoryAssumption ==
    /\ UpdatePool \in Nat \ {0}
    /\ MaxAdds \in Nat /\ MaxFlushes \in Nat /\ MaxClears \in Nat

VARIABLES added,       \* history: the thread of every add()
          queue,       \* _queue: conversations with their signals
          processing,  \* _processing
          armed,       \* _timer is set and has not fired
          stray,       \* armed timers nothing refers to
          woken,       \* _process_queue calls that wait for the lock
          batches,     \* the batches taken: what is left, and whether open
          calls        \* calls of flush() and clear() still to come

VARIABLES job,         \* update_memory_sync of each conversation
          read,        \* the memory it has read
          sections,    \* user_memory_sections: the conversations covered
          facts,       \* user_memory_facts: how many rows per content
          owed,        \* history: signals of a thread since its last take
          superseded,  \* history: conversations replaced in the queue
          cleared,     \* history: conversations dropped by clear()
          overlap      \* history: an update timed out or clear() hit a batch

queueVars == <<added, queue, processing, batches, calls, owed, superseded, cleared>>
timerVars == <<armed, stray, woken>>
updateVars == <<job, read, sections, facts>>
memoryVars == <<queueVars, timerVars, updateVars, overlap>>

Conversations == 1 .. MaxAdds
Entries == [conv : Conversations, signals : SUBSET Signals]
Memory == [sections : SUBSET Conversations, facts : SUBSET FactKeys]
Nothing == [sections |-> {}, facts |-> {}]

MemoryTypeOK ==
    /\ added \in Seq(ChatThreads) /\ Len(added) <= MaxAdds
    /\ queue \in Seq(Entries)
    /\ processing \in BOOLEAN /\ armed \in BOOLEAN
    /\ stray \in Nat /\ woken \in Nat
    /\ batches \in Seq([left : Seq(Entries), open : BOOLEAN, waiting : BOOLEAN])
    /\ job \in [Conversations -> {"none", "queued", "asked", "done"}]
    /\ read \in [Conversations -> Memory]
    /\ sections \subseteq Conversations
    /\ facts \in [FactKeys -> Nat]
    /\ owed \in [ChatThreads -> SUBSET Signals]
    /\ superseded \subseteq Conversations /\ cleared \subseteq Conversations
    /\ overlap \in BOOLEAN
    /\ calls \in [flush : 0 .. MaxFlushes, clear : 0 .. MaxClears]

MemoryInit ==
    /\ added = <<>> /\ queue = <<>> /\ processing = FALSE
    /\ armed = FALSE /\ stray = 0 /\ woken = 0
    /\ batches = <<>>
    /\ calls = [flush |-> MaxFlushes, clear |-> MaxClears]
    /\ job = [n \in Conversations |-> "none"]
    /\ read = [n \in Conversations |-> Nothing]
    /\ sections = {} /\ facts = [f \in FactKeys |-> 0]
    /\ owed = [t \in ChatThreads |-> {}]
    /\ superseded = {} /\ cleared = {} /\ overlap = FALSE

-----------------------------------------------------------------------------
(* The queue. *)

OfThread(t) == {e \in ToSet(queue) : added[e.conv] = t}
OfOthers(t) == Without(queue, OfThread(t))
ConvsIn(entries) == {entries[i].conv : i \in DOMAIN entries}

\* Mutant: the replaced entry's signals are dropped.
FreshSignals(t, s) == s

MergedSignals(t, s) == s \cup UNION {e.signals : e \in OfThread(t)}

\* Mutant: the new conversation is queued beside the old one.
EnqueueBoth(t, s) ==
    queue' = Append(queue, [conv |-> Len(added) + 1, signals |-> MergedSignals(t, s)])

Enqueue(t, s) ==
    queue' = Append(OfOthers(t), [conv |-> Len(added) + 1, signals |-> MergedSignals(t, s)])

Add(t, s) ==
    /\ Len(added) < MaxAdds
    /\ Enqueue(t, s)
    /\ superseded' = superseded \cup {e.conv : e \in OfThread(t)}
    /\ added' = Append(added, t)
    /\ owed' = [owed EXCEPT ![t] = @ \cup s]
    /\ armed' = TRUE
    /\ UNCHANGED <<stray, woken, processing, batches, calls, cleared, updateVars, overlap>>

\* MemoryMiddleware, after a turn in which the user and the agent have spoken:
\* reinforcement is looked for only where there was no correction.
SignalSets == {{}} \cup {{x} : x \in Signals}

AfterAgent(t) == \E s \in SignalSets : Add(t, s)

TimerFires ==
    /\ \/ armed /\ armed' = FALSE /\ UNCHANGED stray
       \/ stray > 0 /\ stray' = stray - 1 /\ UNCHANGED armed
    /\ woken' = woken + 1
    /\ UNCHANGED <<queueVars, updateVars, overlap>>

\* Mutant: while a batch is processed the timer is not set again.
RearmNever == UNCHANGED armed

Rearm == armed' = TRUE

\* _process_queue takes the lock: a batch is under way, try again later.
ProcessLater ==
    /\ woken > 0 /\ processing
    /\ woken' = woken - 1
    /\ Rearm
    /\ UNCHANGED <<stray, queueVars, updateVars, overlap>>

ProcessNothing ==
    /\ woken > 0 /\ ~processing /\ queue = <<>>
    /\ woken' = woken - 1
    /\ UNCHANGED <<armed, stray, queueVars, updateVars, overlap>>

\* Mutant: the queue is copied and not cleared.
TakeCopy == UNCHANGED queue

TakeAll == queue' = <<>>

ProcessBatch ==
    /\ woken > 0 /\ ~processing /\ queue # <<>>
    /\ woken' = woken - 1
    /\ processing' = TRUE
    /\ batches' = Append(batches, [left |-> queue, open |-> TRUE, waiting |-> FALSE])
    /\ TakeAll
    /\ armed' = FALSE
    /\ stray' = IF armed THEN stray + 1 ELSE stray
    /\ owed' = [t \in ChatThreads |-> {}]
    /\ UNCHANGED <<added, calls, superseded, cleared, updateVars, overlap>>

\* flush(): the cancel under the lock, then _process_queue with the lock anew.
Flush ==
    /\ calls.flush > 0
    /\ calls' = [calls EXCEPT !.flush = @ - 1]
    /\ armed' = FALSE /\ woken' = woken + 1
    /\ UNCHANGED <<stray, added, queue, processing, batches, owed, superseded, cleared,
                   updateVars, overlap>>

Clear ==
    /\ calls.clear > 0
    /\ calls' = [calls EXCEPT !.clear = @ - 1]
    /\ armed' = FALSE
    /\ cleared' = cleared \cup ConvsIn(queue)
    /\ queue' = <<>> /\ processing' = FALSE
    /\ owed' = [t \in ChatThreads |-> {}]
    /\ overlap' = (overlap \/ processing)
    /\ UNCHANGED <<stray, woken, added, batches, superseded, updateVars>>

-----------------------------------------------------------------------------
(* A batch, one conversation after the other. *)

Submit(b) ==
    LET next == Head(batches[b].left).conv IN
    /\ batches[b].open /\ ~batches[b].waiting /\ batches[b].left # <<>>
    /\ batches' = [batches EXCEPT ![b].waiting = TRUE]
    /\ job' = [job EXCEPT ![next] = "queued"]
    /\ UNCHANGED <<added, queue, processing, calls, owed, superseded, cleared,
                   timerVars, read, sections, facts, overlap>>

\* future.result(timeout=120) returns or raises, and what failed is not retried.
Collected(b, late) ==
    LET current == Head(batches[b].left).conv IN
    /\ batches[b].waiting
    /\ late <=> job[current] # "done"
    /\ batches' = [batches EXCEPT ![b].waiting = FALSE, ![b].left = Tail(@)]
    /\ overlap' = (overlap \/ late)
    /\ UNCHANGED <<added, queue, processing, calls, owed, superseded, cleared,
                   timerVars, updateVars>>

\* Mutant: the queue is emptied when its batch is done.
CloseBatchClearing(b) ==
    /\ batches[b].open /\ batches[b].left = <<>>
    /\ batches' = [batches EXCEPT ![b].open = FALSE]
    /\ processing' = FALSE /\ queue' = <<>>
    /\ UNCHANGED <<added, calls, owed, superseded, cleared, timerVars, updateVars, overlap>>

CloseBatch(b) ==
    /\ batches[b].open /\ batches[b].left = <<>>
    /\ batches' = [batches EXCEPT ![b].open = FALSE]
    /\ processing' = FALSE
    /\ UNCHANGED <<added, queue, calls, owed, superseded, cleared, timerVars, updateVars, overlap>>

-----------------------------------------------------------------------------
(* update_memory_sync in the executor. *)

WorkerFree == Cardinality({n \in Conversations : job[n] = "asked"}) < UpdatePool

Forget(n) == read' = [read EXCEPT ![n] = Nothing]

Stored == {f \in FactKeys : facts[f] > 0}

ReadMemory(n) ==
    /\ job[n] = "queued" /\ WorkerFree
    /\ job' = [job EXCEPT ![n] = "asked"]
    /\ read' = [read EXCEPT ![n] = [sections |-> sections, facts |-> Stored]]
    /\ UNCHANGED <<sections, facts, queueVars, timerVars, overlap>>

NewFact(n, f) == f \notin read[n].facts

\* _apply_updates on what was read, _write_memory: sections whole, one fact
\* if it is new to what was read.
WriteMemory(n) ==
    /\ job[n] = "asked"
    /\ job' = [job EXCEPT ![n] = "done"]
    /\ sections' = read[n].sections \cup {n}
    /\ \/ UNCHANGED facts
       \/ \E f \in FactKeys : NewFact(n, f) /\ facts' = [facts EXCEPT ![f] = @ + 1]
    /\ Forget(n)
    /\ UNCHANGED <<queueVars, timerVars, overlap>>

\* No user, no text, an answer that is not JSON, a failing model or database.
UpdateFails(n) ==
    /\ job[n] \in {"queued", "asked"}
    /\ job[n] = "queued" => WorkerFree
    /\ job' = [job EXCEPT ![n] = "done"]
    /\ Forget(n)
    /\ UNCHANGED <<sections, facts, queueVars, timerVars, overlap>>

UpdateEnds(n) == WriteMemory(n) \/ UpdateFails(n)

BatchNext(b) == Submit(b) \/ Collected(b, FALSE) \/ Collected(b, TRUE) \/ CloseBatch(b)
LockTaken == ProcessLater \/ ProcessNothing \/ ProcessBatch

MemoryNext ==
    \/ \E t \in ChatThreads : AfterAgent(t)
    \/ TimerFires \/ LockTaken \/ Flush \/ Clear
    \/ \E b \in DOMAIN batches : BatchNext(b)
    \/ \E n \in Conversations : ReadMemory(n) \/ UpdateEnds(n)

MemorySpec == MemoryInit /\ [][MemoryNext]_memoryVars

(* Timers fire, threads run, and a wait for an update ends after 120 s; an  *)
(* update itself may hang.                                                  *)
MemoryFairness ==
    /\ WF_memoryVars(TimerFires) /\ WF_memoryVars(LockTaken)
    /\ WF_memoryVars(\E b \in DOMAIN batches : BatchNext(b))

MemoryFairSpec == MemorySpec /\ MemoryFairness
-----------------------------------------------------------------------------
(* Properties. *)

InBatches == UNION {ConvsIn(batches[b].left) : b \in DOMAIN batches}
OpenBatches == {b \in DOMAIN batches : batches[b].open}

\* No conversation falls between the stools of timers, flushes and batches:
\* each waits, is in a batch, has been handed to the updater, or was replaced
\* by a later one of its thread or dropped by clear().  And it is processed
\* once: what waits is in no batch, one entry per thread, and was not submitted.
EachInOnePlace ==
    /\ \A n \in 1 .. Len(added) :
          n \in ConvsIn(queue) \cup InBatches \cup superseded \cup cleared \/ job[n] # "none"
    /\ \A i, j \in DOMAIN queue : added[queue[i].conv] = added[queue[j].conv] => i = j
    /\ \A n \in ConvsIn(queue) : n \notin InBatches /\ job[n] = "none"

\* A correction the user made survives the replacement of its conversation:
\* an entry carries every signal of its thread since the last take.
SignalsCarried == \A e \in ToSet(queue) : e.signals = owed[added[e.conv]]

\* What users say reaches the updater once, with its signals.
ConversationsAccounted == EachInOnePlace /\ SignalsCarried

\* Memory is read, an LLM asked and the result written without a lock: what
\* keeps updates of one user apart is that batches and the updates in them
\* follow each other.  So long as no wait timed out and clear() hit no batch,
\* no update undoes another and no fact is stored twice.
UpdatesKeptApart ==
    overlap \/ (/\ Cardinality(OpenBatches) <= 1
                /\ \A f \in FactKeys : facts[f] <= 1
                /\ \A n \in Conversations : job[n] = "asked" => read[n].sections = sections)

\* What the updater has, or has had, is taken no more.
Unsubmitted == {e \in UNION {ToSet(batches[b].left) : b \in DOMAIN batches} : job[e.conv] = "none"}
InState(states) == {n \in Conversations : job[n] \in states}

Inbox == INSTANCE MemoryInbox WITH
    said <- added, waiting <- ToSet(queue), taken <- Unsubmitted,
    handed <- InState({"queued", "asked"}), over <- InState({"done"}),
    remembered <- sections, hurried <- overlap

\* Timers, flush(), clear() and the batches of the queue do what an inbox does.
QueueIsAnInbox == Inbox!Spec

\* What is said is remembered, once and in order.
MemoryHolds ==
    /\ ConversationsAccounted /\ UpdatesKeptApart
    /\ Inbox!AsSaid /\ Inbox!HandedOnce

\* Every conversation leaves the queue, though updates hang.
QueueDrains == \A n \in Conversations : n \in ConvsIn(queue) ~> n \notin ConvsIn(queue)
=============================================================================

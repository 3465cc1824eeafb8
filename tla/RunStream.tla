----------------------------- MODULE RunStream -----------------------------
(***************************************************************************)
(* api/runs.py with core/task_registry.py: the life of one run, from the   *)
(* POST that creates it to the delayed cleanup, and the SSE connections    *)
(* that watch it.  Everything runs on one asyncio loop: an action is what  *)
(* a coroutine does between two suspension points, and a cancel reaches    *)
(* the task at the suspension it waits in.                                 *)
(*                                                                         *)
(* Left out: payloads, SSE formatting, the contents of the telemetry rows, *)
(* which callback feeds them (module RunJournal), and on_disconnect, which *)
(* the code stores and never reads.                                        *)
(***************************************************************************)
EXTENDS EventBus

CONSTANTS WithRedis,  \* enable_redis_stream() was called: publish() suspends
          MaxChunks   \* bound on the log when the graph still streams

ASSUME RunAssumption == WithRedis \in BOOLEAN /\ MaxChunks \in Nat

VARIABLES task,       \* where the background task is (Points)
          onLoop,     \* the task runs on without suspending
          cancelled,  \* task.cancel() was called and not yet delivered
          journal,    \* the RunJournal was initialised
          handle,     \* the run has an entry in _TASKS
          status,     \* runs[run_id]["status"]
          cleaner,    \* the task that runs bus.cleanup()
          conn,       \* the connection of each client (ConnStates)
          replay,     \* what the connection has still to replay
          got,        \* the ids the client holds, as received
          log,        \* history: the kinds of all events published
          joined      \* history: Len(log) when the live connection subscribed

taskVars == <<task, onLoop, cancelled, journal, handle, status, cleaner>>
connVars == <<conn, replay, got, joined>>
vars == <<busVars, taskVars, connVars, log>>

(***************************************************************************)
(* The points of the task.  "preparing": the handler awaits                *)
(* _ensure_swarm_team, no task yet.  "created": not run yet.  "chunk",     *)
(* "token", "error", "summary", "end": in the publish of that event.       *)
(* "finish": about to publish "end".  "lost": the process restarted.       *)
(***************************************************************************)
Points == {"none", "preparing", "created", "setup", "graph", "chunk", "token",
           "error", "flush", "save", "summary", "finish", "end", "done", "lost"}
Over == {"done", "lost"}
NotYet == {"none", "preparing"}

Statuses == {"absent", "pending", "running", "success", "error", "cancelled"}

Watching == {"open", "replay", "live"}
ConnStates == Watching \cup {"idle", "posting", "ended", "expired", "checkpoint"}

TypeOK ==
    /\ BusTypeOK
    /\ task \in Points
    /\ onLoop \in BOOLEAN /\ cancelled \in BOOLEAN
    /\ journal \in BOOLEAN /\ handle \in BOOLEAN
    /\ status \in Statuses
    /\ cleaner \in {"idle", "waiting", "done"}
    /\ conn \in [Clients -> ConnStates]
    /\ replay \in [Clients -> Seq(Events)]
    /\ got \in [Clients -> Seq(Nat)]
    /\ log \in Seq(Kinds)
    /\ joined \in [Clients -> Nat]

Init ==
    /\ BusInit
    /\ task = "none" /\ status = "absent" /\ cleaner = "idle"
    /\ onLoop = FALSE /\ cancelled = FALSE /\ journal = FALSE /\ handle = FALSE
    /\ conn = [c \in Clients |-> "idle"]
    /\ replay = [c \in Clients |-> <<>>]
    /\ got = [c \in Clients |-> <<>>]
    /\ log = <<>>
    /\ joined = [c \in Clients |-> 0]

LastId(ids) == IF ids = <<>> THEN NoId ELSE ids[Len(ids)]

\* is_running(): a handle whose task has not finished.
IsRunning == handle /\ task # "done"

-----------------------------------------------------------------------------
(* The endpoints. *)

\* POST /runs/stream.  With swarm_enabled the handler suspends before it
\* creates the task; the run is listed as pending meanwhile.
StreamRun(c) ==
    /\ task = "none" /\ conn[c] = "idle"
    /\ status' = "pending"
    /\ \/ /\ task' = "preparing"
          /\ conn' = [conn EXCEPT ![c] = "posting"]
          /\ UNCHANGED handle
       \/ /\ task' = "created" /\ handle' = TRUE
          /\ conn' = [conn EXCEPT ![c] = "open"]
    /\ UNCHANGED <<busVars, onLoop, cancelled, journal, cleaner, replay, got, joined, log>>

\* _ensure_swarm_team is done (its failures are swallowed).
Launch(c) ==
    /\ task = "preparing" /\ conn[c] = "posting"
    /\ task' = "created" /\ handle' = TRUE
    /\ conn' = [conn EXCEPT ![c] = "open"]
    /\ UNCHANGED <<busVars, onLoop, cancelled, journal, status, cleaner, replay, got, joined, log>>

\* GET .../runs/{id}/stream, with or without the Last-Event-ID the client
\* holds.  is_running() forgets the handle of a finished task.
Reconnect(c) ==
    /\ ~onLoop /\ task # "none"
    /\ conn[c] \notin Watching \cup {"posting"}
    /\ handle' = IsRunning
    /\ \/ /\ IsRunning \/ buffer # <<>>
          /\ conn' = [conn EXCEPT ![c] = "open"]
          /\ \/ got' = [got EXCEPT ![c] = <<>>]
             \/ UNCHANGED got
       \/ /\ ~IsRunning /\ buffer = <<>>
          /\ conn' = [conn EXCEPT ![c] = "checkpoint"]
          /\ UNCHANGED got
    /\ UNCHANGED <<busVars, task, onLoop, cancelled, journal, status, cleaner, replay, joined, log>>

\* GET /threads/{id}/stream: join the thread's running task, if any.
JoinThread(c) ==
    /\ ~onLoop /\ IsRunning
    /\ conn[c] \notin Watching \cup {"posting"}
    /\ conn' = [conn EXCEPT ![c] = "open"]
    /\ got' = [got EXCEPT ![c] = <<>>]
    /\ UNCHANGED <<busVars, taskVars, replay, joined, log>>

\* Mutant: the status is left to the task.
CancelTaskOnly ==
    /\ ~onLoop /\ task \notin {"none", "lost"}
    /\ cancelled' = (cancelled \/ IsRunning)
    /\ UNCHANGED <<busVars, task, onLoop, journal, handle, status, cleaner, connVars, log>>

\* POST .../cancel
CancelRun ==
    /\ ~onLoop /\ task \notin {"none", "lost"}
    /\ status' = "cancelled"
    /\ cancelled' = (cancelled \/ IsRunning)
    /\ UNCHANGED <<busVars, task, onLoop, journal, handle, cleaner, connVars, log>>

-----------------------------------------------------------------------------
(* _run_agent_task: each action resumes the task and runs it to its next   *)
(* suspension, or to the next point when nothing suspends.                 *)

At(point) == task = point /\ ~cancelled
Go(point) == task' = point /\ onLoop' = FALSE
RunOn(point) == task' = point /\ onLoop' = TRUE

\* After a publish: only the Redis write suspends.
InPublish(point) == task' = point /\ onLoop' = ~WithRedis

\* The try block is over: flush the journal, or go straight to the end event.
EnterFinally == IF journal THEN Go("flush") ELSE RunOn("finish")

Emit(kind) == Publish(kind) /\ log' = Append(log, kind)

\* The first run of the process sets the telemetry tables up and suspends.
StartTask ==
    /\ At("created")
    /\ \/ /\ Go("setup")
          /\ UNCHANGED <<journal, status>>
       \/ /\ Go("graph")
          /\ journal' = TRUE /\ status' = "running"
    /\ UNCHANGED <<busVars, cancelled, handle, cleaner, connVars, log>>

JournalReady ==
    /\ At("setup")
    /\ Go("graph")
    /\ journal' \in BOOLEAN
    /\ status' = "running"
    /\ UNCHANGED <<busVars, cancelled, handle, cleaner, connVars, log>>

GraphChunk ==
    /\ At("graph") /\ Len(log) < MaxChunks
    /\ Emit("data")
    /\ InPublish("chunk")
    /\ UNCHANGED <<cancelled, journal, handle, status, cleaner, connVars>>

\* A values chunk in custom mode is followed by a token usage event.
TokenUsage ==
    /\ At("chunk") /\ Len(log) < MaxChunks
    /\ Emit("data")
    /\ InPublish("token")
    /\ UNCHANGED <<cancelled, journal, handle, status, cleaner, connVars>>

NextChunk ==
    /\ At("chunk") \/ At("token")
    /\ Go("graph")
    /\ UNCHANGED <<busVars, cancelled, journal, handle, status, cleaner, connVars, log>>

GraphDone ==
    /\ At("graph")
    /\ status' = "success"
    /\ EnterFinally
    /\ UNCHANGED <<busVars, cancelled, journal, handle, cleaner, connVars, log>>

GraphFails ==
    /\ At("graph")
    /\ status' = "error"
    /\ Emit("data")
    /\ InPublish("error")
    /\ UNCHANGED <<cancelled, journal, handle, cleaner, connVars>>

ErrorPublished ==
    /\ At("error")
    /\ EnterFinally
    /\ UNCHANGED <<busVars, cancelled, journal, handle, status, cleaner, connVars, log>>

Flushed ==
    /\ At("flush")
    /\ Go("save")
    /\ UNCHANGED <<busVars, cancelled, journal, handle, status, cleaner, connVars, log>>

Saved ==
    /\ At("save")
    /\ Emit("data")
    /\ InPublish("summary")
    /\ UNCHANGED <<cancelled, journal, handle, status, cleaner, connVars>>

\* flush() or save_completion() raised, or the summary is out.
FinalizerDone ==
    /\ At("flush") \/ At("save") \/ At("summary")
    /\ RunOn("finish")
    /\ UNCHANGED <<busVars, cancelled, journal, handle, status, cleaner, connVars, log>>

\* Mutant: the handle goes before the end event is out.
UnregisterFirst ==
    /\ At("finish")
    /\ Emit("end")
    /\ InPublish("end")
    /\ handle' = FALSE
    /\ UNCHANGED <<cancelled, journal, status, cleaner, connVars>>

PublishEnd ==
    /\ At("finish")
    /\ Emit("end")
    /\ InPublish("end")
    /\ UNCHANGED <<cancelled, journal, handle, status, cleaner, connVars>>

\* unregister(), create_task(bus.cleanup(delay = 120)), return.
TaskReturns ==
    /\ At("end")
    /\ Go("done")
    /\ handle' = FALSE
    /\ cleaner' = "waiting"
    /\ UNCHANGED <<busVars, cancelled, journal, status, connVars, log>>

\* CancelledError in the try block: caught, and the finally block runs.
CancelInTry ==
    /\ cancelled /\ task \in {"graph", "chunk", "token"}
    /\ cancelled' = FALSE
    /\ status' = "cancelled"
    /\ EnterFinally
    /\ UNCHANGED <<busVars, journal, handle, cleaner, connVars, log>>

\* CancelledError in the except handler: the finally block runs all the same.
CancelInHandler ==
    /\ cancelled /\ task = "error"
    /\ cancelled' = FALSE
    /\ EnterFinally
    /\ UNCHANGED <<busVars, journal, handle, status, cleaner, connVars, log>>

\* CancelledError before the try block, or inside the finally block, where
\* `except Exception` does not catch it: the rest of the task is skipped.
CancelOutsideTry ==
    /\ cancelled
    /\ task \in {"created", "setup", "flush", "save", "summary", "end"}
    /\ cancelled' = FALSE
    /\ Go("done")
    /\ UNCHANGED <<busVars, journal, handle, status, cleaner, connVars, log>>

\* bus.cleanup() wakes up after its delay.
Cleanup ==
    /\ cleaner = "waiting" /\ ~onLoop
    /\ cleaner' = "done"
    /\ DropRun
    /\ UNCHANGED <<task, onLoop, cancelled, journal, handle, status, connVars, log>>

-----------------------------------------------------------------------------
(* _sse_consumer: the generator is resumed when the client has taken what  *)
(* it yielded last.                                                        *)

\* The client receives e; the stream is over when e is the end event.
Receive(c, e, state) ==
    /\ got' = [got EXCEPT ![c] = Append(@, e.id)]
    /\ conn' = [conn EXCEPT ![c] = IF e.kind = "end" THEN "ended" ELSE state]

\* Every way out of the live loop passes through its finally block.
StopLive(c) ==
    /\ Unsubscribe(c)
    /\ joined' = [joined EXCEPT ![c] = 0]

GoLive(c) ==
    /\ Subscribe(c)
    /\ conn' = [conn EXCEPT ![c] = "live"]
    /\ joined' = [joined EXCEPT ![c] = Len(log)]
    /\ UNCHANGED got

\* Mutant: the connection subscribes first, and the queue fills while it
\* replays.
SubscribeFirst(c) ==
    /\ conn[c] = "open" /\ ~onLoop
    /\ LET events == BufferedAfter(LastId(got[c])) IN
       \/ /\ events # <<>>
          /\ Receive(c, Head(events), "replay")
          /\ replay' = [replay EXCEPT ![c] = Tail(events)]
          /\ Subscribe(c)
          /\ UNCHANGED joined
       \/ /\ events = <<>>
          /\ GoLive(c)
          /\ UNCHANGED replay
    /\ UNCHANGED <<taskVars, log>>

\* After the metadata event: take the snapshot to replay, after the last id
\* the client holds if it sent one, and yield its first event.
Snapshot(c) ==
    /\ conn[c] = "open" /\ ~onLoop
    /\ LET events == BufferedAfter(LastId(got[c])) IN
       \/ /\ events # <<>>
          /\ Receive(c, Head(events), "replay")
          /\ replay' = [replay EXCEPT ![c] =
                           IF Head(events).kind = "end" THEN <<>> ELSE Tail(events)]
          /\ UNCHANGED <<busVars, joined>>
       \/ /\ events = <<>>
          /\ GoLive(c)
          /\ UNCHANGED replay
    /\ UNCHANGED <<taskVars, log>>

Replay(c) ==
    /\ conn[c] = "replay" /\ ~onLoop
    /\ replay[c] # <<>>
    /\ Receive(c, Head(replay[c]), "replay")
    /\ replay' = [replay EXCEPT ![c] = IF Head(@).kind = "end" THEN <<>> ELSE Tail(@)]
    /\ UNCHANGED <<busVars, taskVars, joined, log>>

\* The snapshot is exhausted: only now does the connection subscribe.
JoinLive(c) ==
    /\ conn[c] = "replay" /\ ~onLoop
    /\ replay[c] = <<>>
    /\ GoLive(c)
    /\ UNCHANGED <<taskVars, replay, log>>

Deliver(c) ==
    /\ conn[c] = "live" /\ ~onLoop
    /\ queue[c] # <<>>
    /\ Receive(c, Head(queue[c]), "live")
    /\ IF Head(queue[c]).kind = "end"
       THEN StopLive(c)
       ELSE Take(c) /\ UNCHANGED joined
    /\ UNCHANGED <<taskVars, replay, log>>

\* Mutant: the handle of a finished task counts as running.
ExpireIfUnregistered(c) ==
    /\ conn[c] = "live" /\ ~onLoop
    /\ queue[c] = <<>>
    /\ ~handle
    /\ conn' = [conn EXCEPT ![c] = "expired"]
    /\ StopLive(c)
    /\ UNCHANGED <<taskVars, replay, got, log>>

\* Nothing for 120 seconds: the connection stays only while the run does.
Expire(c) ==
    /\ conn[c] = "live" /\ ~onLoop
    /\ queue[c] = <<>>
    /\ ~IsRunning
    /\ handle' = FALSE
    /\ conn' = [conn EXCEPT ![c] = "expired"]
    /\ StopLive(c)
    /\ UNCHANGED <<task, onLoop, cancelled, journal, status, cleaner, replay, got, log>>

\* The client goes away; the run does not notice.
Disconnect(c) ==
    /\ conn[c] \in Watching /\ ~onLoop
    /\ conn' = [conn EXCEPT ![c] = "idle"]
    /\ replay' = [replay EXCEPT ![c] = <<>>]
    /\ StopLive(c)
    /\ UNCHANGED <<taskVars, got, log>>

-----------------------------------------------------------------------------
(* The process dies and is started again: all of this is memory.  What the *)
(* checkpointer and Redis hold survives, and no endpoint reads the latter. *)
Restart ==
    /\ task \notin {"none", "lost"} /\ ~onLoop
    /\ buffer' = <<>> /\ counter' = 0
    /\ subscribers' = {} /\ queue' = [c \in Clients |-> <<>>]
    /\ task' = "lost" /\ status' = "absent" /\ cleaner' = "idle"
    /\ onLoop' = FALSE /\ cancelled' = FALSE /\ journal' = FALSE /\ handle' = FALSE
    /\ conn' = [c \in Clients |->
                   IF conn[c] \in Watching \cup {"posting"} THEN "idle" ELSE conn[c]]
    /\ replay' = [c \in Clients |-> <<>>] /\ joined' = [c \in Clients |-> 0]
    /\ UNCHANGED <<got, log>>

TaskNext ==
    \/ StartTask \/ JournalReady
    \/ GraphChunk \/ TokenUsage \/ NextChunk \/ GraphDone
    \/ GraphFails \/ ErrorPublished
    \/ Flushed \/ Saved \/ FinalizerDone
    \/ PublishEnd \/ TaskReturns
    \/ CancelInTry \/ CancelInHandler \/ CancelOutsideTry

ConsumerNext(c) ==
    Snapshot(c) \/ Replay(c) \/ JoinLive(c) \/ Deliver(c) \/ Expire(c)

Next ==
    \/ TaskNext
    \/ CancelRun \/ Cleanup \/ Restart
    \/ \E c \in Clients :
          \/ StreamRun(c) \/ Launch(c) \/ Reconnect(c) \/ JoinThread(c)
          \/ ConsumerNext(c) \/ Disconnect(c)

(* The event loop runs whatever is ready, the graph's stream is bounded by *)
(* the recursion limit and the model timeouts, and a connected client      *)
(* reads.  Nothing obliges a client to connect, leave or cancel.           *)
Fairness ==
    /\ WF_vars(TaskNext)
    /\ \A c \in Clients : WF_vars(ConsumerNext(c)) /\ WF_vars(Launch(c))

Spec == Init /\ [][Next]_vars
FairSpec == Spec /\ Fairness
-----------------------------------------------------------------------------
(* Properties. *)

\* The stream a client sees, as OrderedStream promises it.
Mode(c) ==
    CASE conn[c] \in Watching -> "on"
      [] conn[c] = "ended" -> "ended"
      [] OTHER -> "off"

Abstract == INSTANCE OrderedStream WITH mode <- [c \in Clients |-> Mode(c)]

\* Publishing, replaying, resuming with Last-Event-ID, overflowing queues and
\* restarts only ever skip events: what a client receives on one stream is in
\* log order, without duplicates, and "end" is the last thing the run writes
\* and the only thing that ends a stream (StreamEvent's "monotonically
\* increasing id for reconnection").
StreamsAreOrdered == Abstract!Spec

\* The buffer is the newest part of the run's log and so is each registered
\* queue: whatever is dropped is dropped from the old end, without holes.
LogSuffix ==
    /\ Len(buffer) = IF counter < BufferMax THEN counter ELSE BufferMax
    /\ \A i \in DOMAIN buffer : buffer[i].id = counter - Len(buffer) + i - 1
    /\ \A c \in subscribers : \A i \in DOMAIN queue[c] :
          queue[c][i].id = counter - Len(queue[c]) + i - 1

\* The events of s lie in the log l, above id low, in log order.
InOrder(s, low, l) ==
    \A i \in 1 .. Len(s) :
        /\ s[i].id > low /\ s[i].id < Len(l)
        /\ s[i].kind = l[s[i].id + 1]
        /\ \A j \in 1 .. Len(s) : i < j => s[i].id < s[j].id

\* What a connection has still to replay or to fetch lies ahead of what its
\* client holds, and it has a replay or a queue, never both.
ClientInOrder(c) ==
    /\ \A i \in 1 .. Len(got[c]) : got[c][i] < Len(log)
    /\ InOrder(queue[c], LastId(got[c]), log)
    /\ InOrder(replay[c], LastId(got[c]), log)
    /\ conn[c] # "live" => queue[c] = <<>> /\ c \notin subscribers
    /\ conn[c] # "replay" => replay[c] = <<>>

\* The bus numbers events as the run wrote them until the run is over, nothing
\* is written behind the end event, and every connection is in order.  This is
\* the induction behind StreamsAreOrdered and NoOrphanQueue.
OrderInv ==
    /\ task \notin Over => counter = Len(log)
    /\ cleaner = "waiting" => task = "done"
    /\ \A i \in 1 .. Len(log) :
          log[i] = "end" => i = Len(log) /\ task \in Over \cup {"end"}
    /\ InOrder(buffer, NoId, log)
    /\ \A c \in Clients : ClientInOrder(c)

\* A queue registered with the bus has a connection reading it: no path out
\* of _sse_consumer leaves behind a queue that publish() would keep filling.
NoOrphanQueue == \A c \in subscribers : conn[c] = "live"

\* However the task ended, and whenever the cancel reached it, a run whose
\* task is over is not listed as pending or running.
DoneIsTerminal == task = "done" => status \in {"success", "error", "cancelled"}

\* A subscribed connection misses an event published after it subscribed
\* only because its queue was full: the queue is still full when the first
\* event after the hole is delivered.
HolesOnlyByOverflow ==
    [][\A c \in Clients :
          conn[c] = "live" /\ got'[c] # got[c]
          => \A i \in joined[c] + 1 .. Len(log) :
                LastId(got[c]) < i - 1 /\ i - 1 < LastId(got'[c])
                => Len(queue[c]) = QueueMax]_vars

\* The 120 second timeout never drops a client from a run that goes on, nor a
\* client that had subscribed before the end event was published: that client
\* receives the end event.
ExpiresOnlyAfterRun ==
    [][\A c \in Clients :
          conn[c] = "live" /\ conn'[c] = "expired"
          => /\ task \in Over
             /\ Abstract!Closed => joined[c] = Len(log)]_vars

\* A connection is never left hanging: the end event, the timeout or the
\* client closes it, even when the task was cancelled before it could write
\* the end event or a cleanup took the subscribers away.
StreamsClose == \A c \in Clients : conn[c] \in Watching ~> conn[c] \notin Watching

\* README.md:66: a client that has received the end event has received every
\* event of the run, whatever happened to its connections.
NoEventLost == \A c \in Clients : conn[c] = "ended" => Len(got[c]) = Len(log)

\* runs.py:415: cancelling a pending run cancels it.
CancelSticks == [][status = "cancelled" => status' # "running"]_vars
=============================================================================

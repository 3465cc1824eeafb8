------------------------------ MODULE EventBus ------------------------------
(***************************************************************************)
(* core/event_bus.py: the in-memory bus between a run's background task    *)
(* and the SSE connections that watch it.  Every map of the bus is keyed   *)
(* by run_id and no operation touches two keys, so the module keeps the    *)
(* entry of one run: an absent key is the empty buffer, counter 0 and no   *)
(* subscribers, which is how every reader of those maps treats it.         *)
(*                                                                         *)
(* Each operation of the bus is synchronous up to the optional Redis write *)
(* at the end of publish(), so each is one atomic action here; where the   *)
(* caller is suspended is the caller's business (module RunStream).        *)
(***************************************************************************)
EXTENDS Integers, Sequences

CONSTANTS Clients,    \* the SSE connections' owners
          BufferMax,  \* _BUFFER_MAX_SIZE
          QueueMax    \* _QUEUE_MAX_SIZE

ASSUME BusAssumption ==
    /\ BufferMax \in Nat \ {0}
    /\ QueueMax \in Nat \ {0}

VARIABLES buffer,       \* _buffers[run_id]
          counter,      \* _counters[run_id]
          subscribers,  \* the clients whose queue is in _subscribers[run_id]
          queue         \* the asyncio.Queue each client holds (empty if none)

busVars == <<buffer, counter, subscribers, queue>>

Kinds == {"data", "end"}
Events == [id : Nat, kind : Kinds]

\* "No Last-Event-ID": the ids of a run start at 0.
NoId == -1

BusTypeOK ==
    /\ buffer \in Seq(Events) /\ Len(buffer) <= BufferMax
    /\ counter \in Nat
    /\ subscribers \in SUBSET Clients
    /\ queue \in [Clients -> Seq(Events)]
    /\ \A c \in Clients : Len(queue[c]) <= QueueMax

BusInit ==
    /\ buffer = <<>>
    /\ counter = 0
    /\ subscribers = {}
    /\ queue = [c \in Clients |-> <<>>]

\* deque(maxlen = n), and a queue that gives up its oldest entry when full.
KeepLast(s, n) == IF Len(s) <= n THEN s ELSE SubSeq(s, Len(s) - n + 1, Len(s))

\* Mutant: put_nowait on a full queue fails and the failure is swallowed.
PushedUnlessFull(q, e) == IF Len(q) < QueueMax THEN Append(q, e) ELSE q

\* Mutant: the queue of a subscriber has no bound.
PushedUnbounded(q, e) == Append(q, e)

Pushed(q, e) == KeepLast(Append(q, e), QueueMax)

NextEvent(kind) == [id |-> counter, kind |-> kind]

\* Mutant: the event reaches the buffer but the live queues only hear of it
\* when they are empty.
PublishIfIdle(kind) ==
    /\ counter' = counter + 1
    /\ buffer' = KeepLast(Append(buffer, NextEvent(kind)), BufferMax)
    /\ queue' = [c \in Clients |->
                    IF c \in subscribers /\ queue[c] = <<>>
                    THEN Pushed(queue[c], NextEvent(kind))
                    ELSE queue[c]]
    /\ UNCHANGED subscribers

Publish(kind) ==
    /\ counter' = counter + 1
    /\ buffer' = KeepLast(Append(buffer, NextEvent(kind)), BufferMax)
    /\ queue' = [c \in Clients |->
                    IF c \in subscribers
                    THEN Pushed(queue[c], NextEvent(kind))
                    ELSE queue[c]]
    /\ UNCHANGED subscribers

Subscribe(c) ==
    /\ subscribers' = subscribers \cup {c}
    /\ UNCHANGED <<buffer, counter, queue>>

\* Mutant: the connection goes away but its queue stays registered.
ForgetQueue(c) ==
    /\ queue' = [queue EXCEPT ![c] = <<>>]
    /\ UNCHANGED <<buffer, counter, subscribers>>

\* The client's reference to its queue dies with the connection.
Unsubscribe(c) ==
    /\ subscribers' = subscribers \ {c}
    /\ queue' = [queue EXCEPT ![c] = <<>>]
    /\ UNCHANGED <<buffer, counter>>

\* queue.get() by the connection that owns it.
Take(c) ==
    /\ queue[c] # <<>>
    /\ queue' = [queue EXCEPT ![c] = Tail(@)]
    /\ UNCHANGED <<buffer, counter, subscribers>>

\* Mutant: Last-Event-ID itself is replayed again.
BufferedFrom(after) ==
    LET hits == {i \in DOMAIN buffer : buffer[i].id = after}
    IN  IF after = NoId THEN buffer
        ELSE IF hits = {} THEN <<>>
        ELSE SubSeq(buffer, CHOOSE i \in hits : TRUE, Len(buffer))

\* get_buffered_events: nothing at all when `after` is no longer buffered.
BufferedAfter(after) ==
    LET hits == {i \in DOMAIN buffer : buffer[i].id = after}
    IN  IF after = NoId THEN buffer
        ELSE IF hits = {} THEN <<>>
        ELSE SubSeq(buffer, (CHOOSE i \in hits : TRUE) + 1, Len(buffer))

\* cleanup(), after its delay.  The queues themselves stay with their owners.
DropRun ==
    /\ buffer' = <<>>
    /\ counter' = 0
    /\ subscribers' = {}
    /\ UNCHANGED queue
=============================================================================

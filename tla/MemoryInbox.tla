---------------------------- MODULE MemoryInbox ----------------------------
(***************************************************************************)
(* What the memory queue promises of the conversations it is given, however*)
(* its timers, flushes and batches interleave: of a thread the last one    *)
(* waits, with every signal since the last take; what waits is taken all at*)
(* once, handed to the updater one by one in the order it was said, and    *)
(* each update is remembered on top of the others.  When the queue is in a *)
(* hurry, because an update timed out or clear() hit a batch, the order is *)
(* gone and an update may undo others; none is handed over twice even then *)
(* (agents/memory/queue.py, header).                                       *)
(***************************************************************************)
EXTENDS Integers, Sequences

CONSTANTS ChatThreads, Signals

VARIABLES said,       \* the thread of each conversation
          waiting,    \* entries that may still be replaced
          taken,      \* entries that will be handed to the updater
          handed,     \* conversations the updater works on
          over,       \* those it is done with, successfully or not
          remembered, \* those the memory covers
          hurried

inboxVars == <<said, waiting, taken, handed, over, remembered, hurried>>

Init ==
    /\ said = <<>> /\ hurried = FALSE
    /\ waiting = {} /\ taken = {} /\ handed = {} /\ over = {} /\ remembered = {}

Say(t, s) ==
    LET old == {e \in waiting : said[e.conv] = t}
        new == [conv |-> Len(said) + 1, signals |-> s \cup UNION {e.signals : e \in old}]
    IN /\ said' = Append(said, t)
       /\ waiting' = (waiting \ old) \cup {new}
       /\ UNCHANGED <<taken, handed, over, remembered, hurried>>

Take ==
    /\ hurried \/ (taken = {} /\ handed = {})
    /\ taken' = taken \cup waiting /\ waiting' = {}
    /\ UNCHANGED <<said, handed, over, remembered, hurried>>

Hand(e) ==
    /\ e \in taken
    /\ hurried \/ (handed = {} /\ \A f \in taken : e.conv <= f.conv)
    /\ taken' = taken \ {e} /\ handed' = handed \cup {e.conv}
    /\ UNCHANGED <<said, waiting, over, remembered, hurried>>

Done(n) ==
    /\ n \in handed
    /\ handed' = handed \ {n} /\ over' = over \cup {n}
    /\ UNCHANGED <<said, waiting, taken, hurried>>

Fail(n) == Done(n) /\ UNCHANGED remembered
Remember(n) == Done(n) /\ remembered' = remembered \cup {n}
Undo(n) == hurried /\ Done(n) /\ n \in remembered' /\ remembered' \in SUBSET (over \cup {n})

Drop ==
    /\ waiting' = {} /\ hurried' \in {hurried, TRUE}
    /\ UNCHANGED <<said, taken, handed, over, remembered>>

Hurry ==
    /\ hurried' = TRUE
    /\ UNCHANGED <<said, waiting, taken, handed, over, remembered>>

Next ==
    \/ \E t \in ChatThreads, s \in SUBSET Signals : Say(t, s)
    \/ Take \/ Drop \/ Hurry
    \/ \E e \in taken : Hand(e)
    \/ \E n \in handed : Fail(n) \/ Remember(n) \/ Undo(n)

Spec == Init /\ [][Next]_inboxVars
-----------------------------------------------------------------------------
\* The updater gets the conversations in the order they were said, each once; what it
\* has had comes before all that is still to come.
AsSaid == hurried \/ \A n \in handed \cup over, e \in taken \cup waiting : n < e.conv
HandedOnce ==
    /\ handed \cap over = {}
    /\ \A e \in taken \cup waiting : e.conv \notin handed \cup over
=============================================================================

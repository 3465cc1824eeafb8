------------------------------ MODULE EventLog ------------------------------
(***************************************************************************)
(* What the journal promises of the events of a run, however its flushes   *)
(* fail, overlap, and are retried or cancelled: events stand in line, rows *)
(* are made from the head of the line on, and an event is lost at the head *)
(* of the line or before anybody has tried to store it.  A commit that     *)
(* nobody learns of leaves its events in line.  The summary is for an      *)
(* empty line (runtime/journal.py, header).                                *)
(***************************************************************************)
EXTENDS Integers, Sequences

VARIABLES put,       \* how many events there have been
          line,      \* those that wait to be stored, in order
          rows,      \* those with a row
          again,     \* those with more than one
          unnoticed, \* those of a commit that seemed to fail
          gone,      \* those that left the line without
          due,       \* what the summary is over
          closing,   \* the summary is being saved
          saved

logVars == <<put, line, rows, again, unnoticed, gone, due, closing, saved>>

Init ==
    /\ put = 0 /\ line = <<>>
    /\ rows = {} /\ again = {} /\ unnoticed = {} /\ gone = {}
    /\ due = 0 /\ closing = FALSE /\ saved = FALSE

In(events) == {events[i] : i \in DOMAIN events}

Waiting == In(line)
FirstOf(n) == In(SubSeq(line, 1, n))
Behind(n) == SubSeq(line, n + 1, Len(line))

Put ==
    /\ put' = put + 1 /\ line' = Append(line, put + 1)
    /\ UNCHANGED <<rows, again, unnoticed, gone, due, closing, saved>>

StoreFirst(n) ==
    /\ rows' = rows \cup FirstOf(n)
    /\ again' = again \cup (rows \cap FirstOf(n))

WithoutFirst(n) == line' = Behind(n)

Commit(n) ==
    /\ StoreFirst(n) /\ WithoutFirst(n)
    /\ UNCHANGED <<put, unnoticed, gone, due, closing, saved>>

CommitUnnoticed(n) ==
    /\ StoreFirst(n) /\ unnoticed' = unnoticed \cup FirstOf(n)
    /\ UNCHANGED <<put, line, gone, due, closing, saved>>

LoseFirst(n) ==
    /\ WithoutFirst(n) /\ gone' = gone \cup FirstOf(n)
    /\ UNCHANGED <<put, rows, again, unnoticed, due, closing, saved>>

\* Of what is behind the first n, k that nobody has tried to store.
LoseBehind(n, k) ==
    LET untried == In(SubSeq(Behind(n), 1, k)) IN
    /\ untried \cap rows = {} /\ gone' = gone \cup untried
    /\ line' = SubSeq(line, 1, n) \o SubSeq(Behind(n), k + 1, Len(Behind(n)))
    /\ UNCHANGED <<put, rows, again, unnoticed, due, closing, saved>>

Close ==
    /\ line = <<>> /\ ~closing /\ ~saved
    /\ due' = put /\ closing' = TRUE
    /\ UNCHANGED <<put, line, rows, again, unnoticed, gone, saved>>

Save ==
    /\ closing
    /\ closing' = FALSE /\ saved' \in BOOLEAN
    /\ UNCHANGED <<put, line, rows, again, unnoticed, gone, due>>

Next ==
    \/ Put \/ Close \/ Save
    \/ \E n \in 0 .. Len(line) :
          \/ Commit(n) \/ CommitUnnoticed(n) \/ LoseFirst(n)
          \/ \E k \in 0 .. Len(Behind(n)) : LoseBehind(n, k)

Spec == Init /\ [][Next]_logVars
-----------------------------------------------------------------------------
\* The rows are the oldest events: none is newer than one that waits, unless it waits
\* itself since its commit went unnoticed.
OldestFirst == \A r \in rows \ Waiting, w \in Waiting : r < w
=============================================================================

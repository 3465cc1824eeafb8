--------------------------- MODULE OrderedStream ---------------------------
(***************************************************************************)
(* What a run's event stream promises its clients, in the process or over  *)
(* Redis, whatever happens to the connections.  The run writes a log; the  *)
(* entry "end" closes it.  A client on the stream receives entries of the  *)
(* log in log order, each at most once per stream it opens or resumes, and *)
(* its stream ends with the entry "end" and with nothing else.  Entries    *)
(* may be skipped: the bus drops what a slow client does not fetch         *)
(* (event_bus.py, header), and Redis trims the stream to a maximal length. *)
(***************************************************************************)
EXTENDS Integers, Sequences

CONSTANTS Clients

VARIABLES log,   \* the kinds of the events published, in order
          got,   \* the ids each client holds, as it received them
          mode   \* "off", "on" (receiving) or "ended" (has seen "end")

abstractVars == <<log, got, mode>>

Closed == log # <<>> /\ log[Len(log)] = "end"

LastId(ids) == IF ids = <<>> THEN -1 ELSE ids[Len(ids)]

Init ==
    /\ log = <<>>
    /\ got = [c \in Clients |-> <<>>]
    /\ mode = [c \in Clients |-> "off"]

Write(kind) ==
    /\ ~Closed
    /\ log' = Append(log, kind)
    /\ UNCHANGED <<got, mode>>

\* A client opens a stream, from the start or after the last id it holds.
Open(c) ==
    /\ mode[c] # "on"
    /\ mode' = [mode EXCEPT ![c] = "on"]
    /\ \/ UNCHANGED got
       \/ got' = [got EXCEPT ![c] = <<>>]
    /\ UNCHANGED log

\* What a client gets follows what it holds: later entries of the log, in log order.
Extends(new, old) ==
    /\ Len(old) < Len(new)
    /\ \A i \in 1 .. Len(old) : new[i] = old[i]
    /\ \A i \in (Len(old) + 1) .. Len(new) :
          new[i] + 1 \in DOMAIN log /\ (i > 1 => new[i - 1] < new[i])

Receive(c) ==
    /\ mode[c] = "on"
    /\ Extends(got'[c], got[c])
    /\ got' = [got EXCEPT ![c] = got'[c]]
    /\ mode' = [mode EXCEPT ![c] = IF log[LastId(got'[c]) + 1] = "end" THEN "ended" ELSE "on"]
    /\ UNCHANGED log

\* Connections break, one by one or all at once; a client that gives up on
\* the stream shows the checkpointed state instead.
Leave(cs) ==
    /\ mode' = [c \in Clients |-> IF c \in cs THEN "off" ELSE mode[c]]
    /\ UNCHANGED <<log, got>>

Next ==
    \/ \E kind \in {"data", "end"} : Write(kind)
    \/ \E c \in Clients : Open(c) \/ Receive(c)
    \/ \E cs \in SUBSET Clients : Leave(cs)

Spec == Init /\ [][Next]_abstractVars
=============================================================================

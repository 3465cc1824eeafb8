---------------------------- MODULE RedisStream ----------------------------
(***************************************************************************)
(* core/redis_stream.py for one run: EventBus.publish appends its events   *)
(* (core/event_bus.py), and stream_sse reads them, from the beginning, from*)
(* the id a client had last, or from what comes next ("$").  Redis is      *)
(* external: it trims the stream to about maxlen, drops the key when its   *)
(* time is up, and any call may fail, before or after it took effect.      *)
(* Event n has an id that grows with n; the last event is "end".           *)
(***************************************************************************)
EXTENDS Integers, Sequences, FiniteSets

CONSTANTS Events,    \* number of events of the run, with "end"
          MaxLen,    \* STREAM_MAXLEN
          ReadCount, \* count of stream_sse
          Readers,
          MaxFails   \* bound: failed calls

ASSUME StreamAssumption ==
    Events \in Nat \ {0} /\ MaxLen \in Nat \ {0} /\ ReadCount \in Nat \ {0} /\ MaxFails \in Nat

VARIABLES published,  \* number of events EventBus has handed over
          entries,    \* the events in the stream
          expires,    \* does the key have a time to live?
          reading,    \* each reader: the id it reads from; what was published when it
                      \* began to wait; and, as history, where it started
          got,        \* history: what each reader has yielded
          neverStored, \* history: events that were never stored
          trimmedAway, \* history: events that were stored and are no more
          fails

redisVars == <<published, entries, expires, reading, got, neverStored, trimmedAway, fails>>

Latest == -1   \* "$"
NotReading == [at |-> "idle", from |-> 0, since |-> 0, start |-> 0]

StreamTypeOK ==
    /\ published \in 0 .. Events /\ fails \in 0 .. MaxFails
    /\ entries \subseteq 1 .. published
    /\ (entries = {} => ~expires) /\ expires \in BOOLEAN
    /\ \A r \in Readers :
          /\ reading[r].at \in {"idle", "between", "waiting", "over"}
          /\ reading[r].from \in Latest .. Events
          /\ reading[r].since \in 0 .. Events /\ reading[r].start \in 0 .. Events
    /\ neverStored \cup trimmedAway \subseteq 1 .. published

StreamInit ==
    /\ published = 0 /\ entries = {} /\ expires = FALSE
    /\ reading = [r \in Readers |-> NotReading]
    /\ got = [r \in Readers |-> <<>>]
    /\ neverStored = {} /\ trimmedAway = {} /\ fails = 0

CallFails(n) == fails + n <= MaxFails /\ fails' = fails + n
-----------------------------------------------------------------------------
\* publish: xadd, which may trim but leaves at least MaxLen, and expire.
Publish ==
    LET n == published + 1 IN
    /\ published < Events /\ published' = n
    /\ \/ \E trimmed \in SUBSET entries :
             /\ Cardinality(entries \ trimmed) >= MaxLen - 1 \/ trimmed = {}
             /\ \A i \in trimmed, j \in entries \ trimmed : i < j
             /\ entries' = (entries \ trimmed) \cup {n}
             /\ trimmedAway' = trimmedAway \cup trimmed
             /\ \/ expires' = TRUE /\ UNCHANGED fails
                \/ CallFails(1) /\ UNCHANGED expires
             /\ UNCHANGED neverStored
       \/ /\ CallFails(1) /\ neverStored' = neverStored \cup {n}
          /\ UNCHANGED <<entries, expires, trimmedAway>>
    /\ UNCHANGED <<reading, got>>

\* The key's time is up, or EventBus.cleanup has it deleted.
DropKey ==
    /\ entries # {} /\ (expires \/ published = Events)
    /\ trimmedAway' = trimmedAway \cup entries
    /\ entries' = {} /\ expires' = FALSE
    /\ UNCHANGED <<published, reading, got, neverStored, fails>>

\* stream_sse, from the given last_id.
Open(r) ==
    /\ reading[r].at = "idle"
    /\ \E last \in {Latest} \cup 0 .. published :
          reading' = [reading EXCEPT ![r] = [at |-> "between", from |-> last, since |-> published,
                                             start |-> IF last = Latest THEN published ELSE last]]
    /\ UNCHANGED <<published, entries, expires, got, neverStored, trimmedAway, fails>>

\* read begins: "$" stands for the last event there is now.
BeginRead(r) ==
    /\ reading[r].at = "between"
    /\ reading' = [reading EXCEPT ![r] =
           [at |-> "waiting", from |-> @.from, since |-> published,
            start |-> IF @.from = Latest THEN published ELSE @.start]]
    /\ UNCHANGED <<published, entries, expires, got, neverStored, trimmedAway, fails>>

\* Mutant: the next read is from the end of the stream.
SkippedTo(batch) == published

\* current_id = eid, of the last event that was yielded.
ReadUpTo(batch) == batch[Len(batch)]

Sorted(S) ==
    CHOOSE s \in [1 .. Cardinality(S) -> S] : \A i, j \in DOMAIN s : i < j => s[i] < s[j]

\* xread: the first Count entries after the id, which the reader yields.
YieldBatch(r) ==
    LET from  == IF reading[r].from = Latest THEN reading[r].since ELSE reading[r].from
        later == Sorted({n \in entries : n > from})
        batch == SubSeq(later, 1, IF Len(later) < ReadCount THEN Len(later) ELSE ReadCount)
    IN /\ reading[r].at = "waiting" /\ batch # <<>>
       /\ got' = [got EXCEPT ![r] = @ \o batch]
       /\ reading' = [reading EXCEPT ![r] =
              [at |-> IF ReadUpTo(batch) = Events THEN "over" ELSE "between",
               from |-> ReadUpTo(batch), since |-> @.since, start |-> @.start]]
       /\ UNCHANGED <<published, entries, expires, neverStored, trimmedAway, fails>>

\* The wait is over with nothing read, or the call fails: a keepalive.
KeepAlive(r) ==
    /\ reading[r].at = "waiting"
    /\ reading' = [reading EXCEPT ![r].at = "between"]
    /\ UNCHANGED <<published, entries, expires, got, neverStored, trimmedAway, fails>>

StreamNext ==
    \/ Publish \/ DropKey
    \/ \E r \in Readers : Open(r) \/ BeginRead(r) \/ YieldBatch(r) \/ KeepAlive(r)

StreamSpec == StreamInit /\ [][StreamNext]_redisVars
-----------------------------------------------------------------------------
Yielded(r) == {got[r][i] : i \in DOMAIN got[r]}

\* A reader yields events in their order and each once, and of those after its
\* starting point it has passed over only what was never stored or was dropped.
\* With "$" it starts anew with each read until it has got something.
ReadersMissNothing ==
    \A r \in Readers :
        /\ \A i, j \in DOMAIN got[r] : i < j => got[r][i] < got[r][j]
        /\ got[r] # <<>> =>
              (reading[r].start + 1) .. got[r][Len(got[r])]
                  \subseteq Yielded(r) \cup neverStored \cup trimmedAway

\* A reader as a client of the event stream, whose ids begin at 0.
Logged == [n \in 1 .. published |-> IF n = Events THEN "end" ELSE "data"]
Ids(r) == [i \in DOMAIN got[r] |-> got[r][i] - 1]
Mode(r) == CASE reading[r].at = "idle" -> "off"
             [] reading[r].at = "over" -> "ended"
             [] OTHER -> "on"

Ordered == INSTANCE OrderedStream WITH
    Clients <- Readers, log <- Logged,
    got <- [r \in Readers |-> Ids(r)], mode <- [r \in Readers |-> Mode(r)]

\* The same stream as a client of the process has.
StreamIsOrdered == Ordered!Spec
=============================================================================

------------------------------ MODULE Storage ------------------------------
(***************************************************************************)
(* storage/database.py and storage/checkpointer.py: the connection pool and*)
(* the checkpointer of a process, which are made when somebody first asks  *)
(* for them, over several awaits and without a lock.                       *)
(*                                                                         *)
(* A process is the API server, whose lifespan asks for the checkpointer   *)
(* before it serves; the gateway, whose lifespan sets up the threads' table*)
(* and then those of the teams, and goes on when it cannot; or a LangGraph *)
(* runtime (external), which is given the proxy of checkpointer.py, a      *)
(* MemorySaver until PostgreSQL has answered, and whose runs write titles. *)
(***************************************************************************)
EXTENDS Integers, FiniteSets

CONSTANTS Coroutines,
          Processes,     \* "server", "gateway", "runtime"
          Checkpoints,
          MaxRefusals    \* bound: times PostgreSQL does not answer

NoCheckpoint == "no checkpoint"

ASSUME StorageAssumption ==
    /\ Processes \subseteq {"server", "gateway", "runtime"} /\ MaxRefusals \in Nat
    /\ IsFiniteSet(Coroutines) /\ NoCheckpoint \notin Checkpoints

VARIABLES process,
          stage,      \* of its lifespan: "starting", "teams", "serving", "closed"
          pool,       \* _pool: a number, or 0
          pools,      \* the pools that are open
          saver,      \* _checkpointer: "none", "entered", "set up"
          upTables,   \* do the tables exist?
          awaits,     \* what each coroutine waits for, and for whom it does it
          attempted,  \* _init_attempted of the proxy
          real,       \* is its _real set?
          memory,     \* checkpoints in the MemorySaver
          rows,       \* checkpoints in PostgreSQL
          astray,     \* history: checkpoints saved while another call had not got
                      \* the real saver yet
          together,   \* history: two coroutines made pools at the same time
          refusals

poolVars == <<pool, pools, together>>
proxyVars == <<attempted, real, memory, rows, astray>>
storageVars == <<process, stage, poolVars, saver, upTables, awaits, proxyVars, refusals>>

Waiting == [for |-> "nobody", what |-> "nothing", checkpoint |-> NoCheckpoint]
Begin(c, who, what, k) == awaits' = [awaits EXCEPT ![c] = [for |-> who, what |-> what, checkpoint |-> k]]
Await(c, what) == awaits' = [awaits EXCEPT ![c].what = what]
Leave(c) == awaits' = [awaits EXCEPT ![c] = Waiting]
Resting(c) == awaits[c] = Waiting

StorageTypeOK ==
    /\ process \in Processes /\ stage \in {"starting", "teams", "serving", "closed"}
    /\ pool \in pools \cup {0} /\ pools \subseteq 1 .. Cardinality(Coroutines)
    /\ saver \in {"none", "entered", "set up"} /\ upTables \in BOOLEAN
    /\ \A c \in Coroutines :
          /\ awaits[c].for \in {"nobody", "lifespan", "request", "proxy"}
          /\ awaits[c].what \in {"nothing", "saver", "setup", "pool", "query"}
          /\ awaits[c].for = "proxy" <=> awaits[c].checkpoint # NoCheckpoint
    /\ attempted \in BOOLEAN /\ real \in BOOLEAN /\ together \in BOOLEAN
    /\ memory \subseteq Checkpoints /\ rows \subseteq Checkpoints /\ memory \cap rows = {}
    /\ astray \subseteq Checkpoints /\ refusals \in 0 .. MaxRefusals

StorageInit ==
    /\ process \in Processes
    /\ stage = IF process = "runtime" THEN "serving" ELSE "starting"
    /\ pool = 0 /\ pools = {} /\ saver = "none" /\ upTables = FALSE
    /\ awaits = [c \in Coroutines |-> Waiting]
    /\ attempted = FALSE /\ real = FALSE /\ memory = {} /\ rows = {} /\ astray = {}
    /\ together = FALSE /\ refusals = 0
-----------------------------------------------------------------------------
\* get_db_connection and _init_pool: what the next await is.
AskPool == IF pool = 0 THEN "pool" ELSE "query"

\* The lifespan begins: get_checkpointer, or the first or the second setup.
BeginLifespan(c) ==
    /\ stage \in {"starting", "teams"} /\ \A o \in Coroutines : Resting(o)
    /\ Begin(c, "lifespan", IF process = "server" THEN "saver" ELSE AskPool, NoCheckpoint)
    /\ UNCHANGED <<process, stage, poolVars, saver, upTables, proxyVars, refusals>>

\* Where a setup leaves the lifespan, done or skipped.
AfterSetup == IF process = "gateway" /\ stage = "starting" THEN "teams" ELSE "serving"

\* A request of the server or the gateway asks for a connection, or a run, of the
\* runtime too, that has found a title.
BeginRequest(c) ==
    /\ stage = "serving" /\ Resting(c)
    /\ Begin(c, "request", AskPool, NoCheckpoint)
    /\ UNCHANGED <<process, stage, poolVars, saver, upTables, proxyVars, refusals>>

\* aput of the proxy: the first call goes for the real saver, the others do not
\* wait for it.
Aput(c, k) ==
    /\ process = "runtime" /\ Resting(c) /\ k \notin memory \cup rows
    /\ \A o \in Coroutines : awaits[o].checkpoint # k
    /\ IF attempted
       THEN /\ memory' = IF real THEN memory ELSE memory \cup {k}
            /\ rows' = IF real THEN rows \cup {k} ELSE rows
            /\ astray' = IF \E o \in Coroutines : awaits[o].for = "proxy"
                         THEN astray \cup {k} ELSE astray
            /\ UNCHANGED <<awaits, attempted>>
       ELSE /\ attempted' = TRUE
            /\ Begin(c, "proxy", "saver", k)
            /\ UNCHANGED <<memory, rows, astray>>
    /\ UNCHANGED <<process, stage, poolVars, saver, upTables, real, refusals>>

\* The steps of get_checkpointer: __aenter__, after which the saver is there for
\* others, its setup, and the tables, for which it asks for a connection.
Entered(c) ==
    /\ awaits[c].what = "saver"
    /\ saver' = "entered" /\ Await(c, "setup")
    /\ UNCHANGED <<process, stage, poolVars, upTables, proxyVars, refusals>>

SetsUp(c) ==
    /\ awaits[c].what = "setup"
    /\ Await(c, AskPool)
    /\ UNCHANGED <<process, stage, poolVars, saver, upTables, proxyVars, refusals>>

\* create_pool has ended: the pool is the last that was made.
PoolMade(c) ==
    LET new == Cardinality(pools) + 1 IN
    /\ awaits[c].what = "pool"
    /\ pool' = new /\ pools' = pools \cup {new}
    /\ together' = (together \/ \E o \in Coroutines \ {c} : awaits[o].what = "pool")
    /\ Await(c, "query")
    /\ UNCHANGED <<process, stage, saver, upTables, proxyVars, refusals>>

\* The query has ended, and with it what it was for.  Many requests look for the
\* table of threads first.
Answered(c) ==
    /\ awaits[c].what = "query" /\ Leave(c)
    /\ \/ /\ awaits[c].for = "request" /\ upTables' \in {upTables, TRUE}
          /\ UNCHANGED <<stage, saver, proxyVars>>
       \/ /\ awaits[c].for = "lifespan" /\ stage' = AfterSetup
          /\ upTables' = (upTables \/ stage = "starting")
          /\ saver' = IF process = "server" THEN "set up" ELSE saver
          /\ UNCHANGED proxyVars
       \/ /\ awaits[c].for = "proxy" /\ saver' = "set up" /\ upTables' = TRUE
          /\ real' = TRUE /\ rows' = rows \cup {awaits[c].checkpoint}
          /\ UNCHANGED <<stage, attempted, memory, astray>>
    /\ UNCHANGED <<process, poolVars, refusals>>

\* PostgreSQL does not answer: the server stops, the gateway goes on without its
\* tables, a request fails.
Refused(c) ==
    /\ awaits[c].what # "nothing" /\ awaits[c].for # "proxy" /\ refusals < MaxRefusals
    /\ refusals' = refusals + 1 /\ Leave(c)
    /\ stage' = IF awaits[c].for = "request" THEN stage
                ELSE IF process = "server" THEN "closed" ELSE AfterSetup
    /\ IF stage' = "closed" THEN pool' = 0 /\ pools' = {} /\ saver' = "none"
       ELSE UNCHANGED <<pool, pools, saver>>
    /\ UNCHANGED <<process, upTables, together, proxyVars>>

\* Mutant: the proxy tries again with its next call.
TriesAgain(c) ==
    /\ awaits[c].for = "proxy" /\ refusals < MaxRefusals
    /\ refusals' = refusals + 1 /\ Leave(c)
    /\ memory' = memory \cup {awaits[c].checkpoint} /\ attempted' = FALSE
    /\ UNCHANGED <<process, stage, poolVars, saver, upTables, real, rows, astray>>

\* The proxy stays a MemorySaver.
StaysInMemory(c) ==
    /\ awaits[c].for = "proxy" /\ refusals < MaxRefusals
    /\ refusals' = refusals + 1 /\ Leave(c)
    /\ memory' = memory \cup {awaits[c].checkpoint}
    /\ UNCHANGED <<process, stage, poolVars, saver, upTables, attempted, real, rows, astray>>

\* close_db, by the lifespan of the server.
CloseDb ==
    /\ process = "server" /\ stage = "serving" /\ \A c \in Coroutines : Resting(c)
    /\ stage' = "closed" /\ saver' = "none"
    /\ pool' = 0 /\ pools' = pools \ {pool}
    /\ UNCHANGED <<process, upTables, awaits, together, proxyVars, refusals>>

StorageNext ==
    \/ CloseDb
    \/ \E c \in Coroutines :
          \/ BeginLifespan(c) \/ BeginRequest(c) \/ \E k \in Checkpoints : Aput(c, k)
          \/ Entered(c) \/ SetsUp(c) \/ PoolMade(c) \/ Answered(c)
          \/ Refused(c) \/ StaysInMemory(c)

StorageSpec == StorageInit /\ [][StorageNext]_storageVars
-----------------------------------------------------------------------------
(* Properties. *)

\* A server serves with a checkpointer and tables that are set up, and closes
\* all that it has opened.
ServerIsReady ==
    process = "server" =>
        /\ stage = "serving" => saver = "set up" /\ upTables /\ pool # 0
        /\ stage = "closed" => pools = {} /\ saver = "none"

\* Connections are in one pool, unless it was made for several at the same time:
\* for requests of a gateway that could not reach PostgreSQL at its start, or for
\* the runs of a runtime and the proxy. A server never makes a second one.
OnePool == pools \subseteq {pool} \/ (together /\ process # "server")

\* The proxy finds what it has saved, but for checkpoints that other calls saved
\* while the first had not got the real saver yet: once it has, nobody looks into
\* the memory again.
CheckpointsFound == (memory \cup rows) \ astray \subseteq IF real THEN rows ELSE memory

\* Pool and checkpointer are made once and lose nothing, but for two named races.
StorageHolds == ServerIsReady /\ OnePool /\ CheckpointsFound
=============================================================================

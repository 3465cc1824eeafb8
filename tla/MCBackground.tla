---------------------------- MODULE MCBackground ----------------------------
(***************************************************************************)
(* What goes on behind the turns, for TLC: the journal of a run, the queue *)
(* of memory updates, the sandbox containers, and what processes share on  *)
(* disk, in Redis and in PostgreSQL: the custom skills, the cache of the   *)
(* data analysis, the stream of a run, the pool and the checkpointer.      *)
(* These have nothing in common, so a behaviour moves one of them, chosen  *)
(* at the start.                                                           *)
(***************************************************************************)
EXTENDS RunJournal, MemoryQueue, AioSandbox, SkillInstall, AnalysisCache, RedisStream,
        Storage

VARIABLE part  \* the component that moves

YamlNames ==
    [a \in Archives |-> CASE a = "bad" -> Unnamed [] a = "other" -> "n2" [] OTHER -> "n1"]
LineNames ==
    [a \in Archives |-> CASE a = "two" -> "quoted" [] a = "other" -> Unnamed [] OTHER -> "n1"]

\* The same two tables, named otherwise, and two files of one name.
CsvFile(name, text) == [name |-> name, holds |-> text]
FilesOfCalls ==
    [c \in Calls |-> CASE c = "c1" -> <<CsvFile("a", "x"), CsvFile("b", "y")>>
                       [] c = "c2" -> <<CsvFile("b", "y"), CsvFile("a", "x")>>
                       [] c = "c3" -> <<CsvFile("a", "x"), CsvFile("a", "y")>>]

BackgroundInit ==
    /\ part \in {"journal", "memory", "sandboxes", "skills", "analysis", "stream", "storage"}
    /\ JournalInit /\ MemoryInit /\ SandboxInit
    /\ SkillsInit /\ CacheInit /\ StreamInit /\ StorageInit
    /\ part # "sandboxes" => backend = CHOOSE b \in Backends : TRUE
    /\ part # "storage" => process = CHOOSE p \in Processes : TRUE

jobVars == <<journalVars, memoryVars, sandboxVars>>
sharedVars == <<skillVars, cacheVars, redisVars, storageVars>>

ProcessStep ==
    \/ part = "journal" /\ JournalNext /\ UNCHANGED <<memoryVars, sandboxVars>>
    \/ part = "memory" /\ MemoryNext /\ UNCHANGED <<journalVars, sandboxVars>>
    \/ part = "sandboxes" /\ SandboxNext /\ UNCHANGED <<journalVars, memoryVars>>

SharedStep ==
    \/ part = "skills" /\ SkillsNext /\ UNCHANGED <<cacheVars, redisVars, storageVars>>
    \/ part = "analysis" /\ CacheNext /\ UNCHANGED <<skillVars, redisVars, storageVars>>
    \/ part = "stream" /\ StreamNext /\ UNCHANGED <<skillVars, cacheVars, storageVars>>
    \/ part = "storage" /\ StorageNext /\ UNCHANGED <<skillVars, cacheVars, redisVars>>

BackgroundNext ==
    /\ UNCHANGED part
    /\ \/ ProcessStep /\ UNCHANGED sharedVars
       \/ SharedStep /\ UNCHANGED jobVars

BackgroundSpec ==
    /\ BackgroundInit /\ [][BackgroundNext]_<<part, jobVars, sharedVars>>
    /\ MemoryFairness /\ SandboxFairness

\* Type correctness of the components.
BackgroundTypeOK ==
    /\ JournalTypeOK /\ MemoryTypeOK /\ SandboxTypeOK
    /\ SkillsTypeOK /\ CacheTypeOK /\ StreamTypeOK /\ StorageTypeOK

\* The journal is the log of events, the queue of updates the inbox, and a stream read from
\* Redis the stream of the process (EventLog, MemoryInbox, OrderedStream): whatever the
\* buffers, batches and calls that fail do in between, nothing is lost, doubled or swapped
\* that was promised (runtime/journal.py, agents/memory/queue.py, core/redis_stream.py).
PromisesKept == JournalIsALog /\ QueueIsAnInbox /\ StreamIsOrdered
=============================================================================

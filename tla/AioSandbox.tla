----------------------------- MODULE AioSandbox -----------------------------
(***************************************************************************)
(* community/aio_sandbox: the provider of sandbox containers, its state    *)
(* files and its backends, as the tools of sandbox/tools.py use it.        *)
(* Several processes share the containers: the id of a sandbox follows     *)
(* from its thread, a file records that a thread has one, and a flock per  *)
(* thread keeps two processes from creating it at once.  A release takes   *)
(* neither that lock nor the lock of the thread.                           *)
(*                                                                         *)
(* A container is the number of its creation.  The name of a thread's      *)
(* container is fixed, so Docker and the provisioner run at most one.      *)
(* _sandboxes, _sandbox_infos and _thread_sandboxes change together and    *)
(* are one `cache`.  A file that is torn or unreadable loads as none.      *)
(* Of the calls of one thread in one process a second waits for the lock   *)
(* of the thread and then finds the cache filled, so one stands for all.   *)
(* Faults: a process or container dies, a probe, a save, a removal or a    *)
(* stop fails.  A create may fail without a fault of the budget.           *)
(***************************************************************************)
EXTENDS Integers, FiniteSets

CONSTANTS Procs,           \* processes with a provider
          SandboxThreads,  \* thread ids
          Backends,        \* "local" (Docker) and "remote" (provisioner)
          MaxContainers,   \* bound: containers created
          MaxFaults,       \* bound: faults of all kinds
          MaxSweeps        \* bound: passes of idle checkers and shutdowns

NoProc == "nobody"

ASSUME SandboxAssumption ==
    /\ NoProc \notin Procs
    /\ Backends \subseteq {"local", "remote"}
    /\ MaxContainers \in Nat /\ MaxFaults \in Nat /\ MaxSweeps \in Nat

VARIABLES backend,     \* which backend the configuration selects
          up,          \* the process runs
          closing,     \* _shutdown_called
          cache,       \* the container a process has for a thread, or 0
          call,        \* where the tool call of a process and thread is
          found,       \* the container acquire has discovered or created
          fresh,       \* it was created, and has no file yet
          flock,       \* holder of the thread's lock file
          releases     \* release() calls under way

VARIABLES running,     \* the container that runs under the thread's name
          record,      \* the thread's state file loads
          born,        \* containers created so far
          faults,      \* faults so far
          sweeps,      \* passes of idle checkers and shutdowns so far
          dropped,     \* history: containers that died or were released
          unrecorded   \* history: with no file, by a failure or in a crash

callVars == <<call, found, fresh>>
processVars == <<up, closing, cache, callVars, flock>>
hostVars == <<running, record, born>>
releaseVars == <<releases, sweeps>>
sandboxHistory == <<dropped, unrecorded>>
sandboxVars == <<backend, processVars, releaseVars, hostVars, faults, sandboxHistory>>

Containers == 1 .. MaxContainers
CallPoints == {"no", "lock", "load", "create", "ready", "adopt", "save", "got", "use"}
Releases == [proc : Procs, thread : SandboxThreads, by : {"idle", "shutdown"},
             step : {"chosen", "remove", "destroy"}, container : 0 .. MaxContainers]
PerThread(S) == [Procs -> [SandboxThreads -> S]]

SandboxTypeOK ==
    /\ backend \in Backends
    /\ up \in [Procs -> BOOLEAN] /\ closing \in [Procs -> BOOLEAN]
    /\ cache \in PerThread(0 .. MaxContainers)
    /\ call \in PerThread(CallPoints) /\ found \in PerThread(0 .. MaxContainers)
    /\ fresh \in PerThread(BOOLEAN)
    /\ flock \in [SandboxThreads -> Procs \cup {NoProc}]
    /\ releases \subseteq Releases
    /\ running \in [SandboxThreads -> 0 .. MaxContainers]
    /\ record \in [SandboxThreads -> BOOLEAN]
    /\ born \in 0 .. MaxContainers /\ faults \in 0 .. MaxFaults /\ sweeps \in 0 .. MaxSweeps
    /\ dropped \subseteq Containers /\ unrecorded \subseteq Containers

All(v) == [p \in Procs |-> [t \in SandboxThreads |-> v]]

SandboxInit ==
    /\ backend \in Backends
    /\ up = [p \in Procs |-> TRUE] /\ closing = [p \in Procs |-> FALSE]
    /\ cache = All(0)
    /\ call = All("no") /\ found = All(0) /\ fresh = All(FALSE)
    /\ flock = [t \in SandboxThreads |-> NoProc] /\ releases = {}
    /\ running = [t \in SandboxThreads |-> 0]
    /\ record = [t \in SandboxThreads |-> FALSE]
    /\ born = 0 /\ faults = 0 /\ sweeps = 0
    /\ dropped = {} /\ unrecorded = {}

Fault == faults < MaxFaults /\ faults' = faults + 1
NoFault == UNCHANGED faults
Sweep == sweeps < MaxSweeps /\ sweeps' = sweeps + 1
Runs(t) == {running[t]} \ {0}

-----------------------------------------------------------------------------
(* A tool call: ensure_sandbox_initialized, acquire, _acquire_internal.     *)

Goto(p, t, point) == call' = [call EXCEPT ![p][t] = point]
Unlock(t) == flock' = [flock EXCEPT ![t] = NoProc]

\* get() of the id in the state, or the in-process cache.
CallCached(p, t) ==
    /\ up[p] /\ call[p][t] = "no" /\ cache[p][t] # 0
    /\ Goto(p, t, "use")
    /\ found' = [found EXCEPT ![p][t] = cache[p][t]]
    /\ UNCHANGED <<backend, up, closing, cache, fresh, flock, releaseVars, hostVars,
                   faults, sandboxHistory>>

CallUncached(p, t) ==
    /\ up[p] /\ call[p][t] = "no" /\ cache[p][t] = 0
    /\ Goto(p, t, "lock")
    /\ UNCHANGED <<backend, up, closing, cache, found, fresh, flock, releaseVars,
                   hostVars, faults, sandboxHistory>>

\* Mutant: the lock of the thread's file is not exclusive.
LockShared(p, t) == flock' = [flock EXCEPT ![t] = p]

LockFile(p, t) ==
    /\ flock[t] = NoProc
    /\ flock' = [flock EXCEPT ![t] = p]

LockState(p, t) ==
    /\ call[p][t] = "lock"
    /\ LockFile(p, t)
    /\ Goto(p, t, "load")
    /\ UNCHANGED <<backend, up, closing, cache, found, fresh, releaseVars, hostVars,
                   faults, sandboxHistory>>

\* discover() of the backend finds a container under the thread's name.
Alive(t) == running[t] # 0

\* _try_recover: the file is there and the container answers.
Discovered(p, t) ==
    /\ call[p][t] = "load" /\ record[t] /\ Alive(t)
    /\ found' = [found EXCEPT ![p][t] = running[t]]
    /\ Goto(p, t, "adopt")
    /\ UNCHANGED <<backend, up, closing, cache, fresh, flock, releaseVars, hostVars,
                   faults, sandboxHistory>>

\* No file, or no answer of a container: then the file goes too.
NotRecovered(p, t) ==
    /\ call[p][t] = "load"
    /\ IF record[t] /\ Alive(t) THEN Fault ELSE NoFault
    /\ record' = [record EXCEPT ![t] = FALSE]
    /\ unrecorded' = IF record[t] THEN unrecorded \cup Runs(t) ELSE unrecorded
    /\ Goto(p, t, "create")
    /\ UNCHANGED <<backend, up, closing, cache, found, fresh, flock, releaseVars,
                   running, born, dropped>>

\* Docker: a container of the name is removed first.
NewContainer(p, t) ==
    /\ backend = "local" \/ ~Alive(t)
    /\ born < MaxContainers
    /\ born' = born + 1
    /\ running' = [running EXCEPT ![t] = born + 1]
    /\ found' = [found EXCEPT ![p][t] = born + 1]

\* The provisioner is external: asked for a sandbox that runs, it answers with
\* that one.
SameContainer(p, t) ==
    /\ backend = "remote" /\ Alive(t)
    /\ found' = [found EXCEPT ![p][t] = running[t]]
    /\ UNCHANGED <<running, born>>

Create(p, t) ==
    /\ call[p][t] = "create"
    /\ Goto(p, t, "ready")
    /\ NewContainer(p, t) \/ SameContainer(p, t)
    /\ fresh' = [fresh EXCEPT ![p][t] = TRUE]
    /\ UNCHANGED <<backend, up, closing, cache, flock, releaseVars, record, faults,
                   sandboxHistory>>

\* Mutant: an error leaves the lock file locked.
RaiseLocked(p, t) ==
    /\ Goto(p, t, "no")
    /\ found' = [found EXCEPT ![p][t] = 0]
    /\ fresh' = [fresh EXCEPT ![p][t] = FALSE]
    /\ UNCHANGED flock

\* The exception leaves acquire and becomes the tool's error message.
Raise(p, t) ==
    /\ Goto(p, t, "no")
    /\ found' = [found EXCEPT ![p][t] = 0]
    /\ fresh' = [fresh EXCEPT ![p][t] = FALSE]
    /\ Unlock(t)

CreateFails(p, t) ==
    /\ call[p][t] = "create"
    /\ Raise(p, t)
    /\ running' \in {running, IF backend = "local" THEN [running EXCEPT ![t] = 0] ELSE running}
    /\ UNCHANGED <<backend, up, closing, cache, releaseVars, record, born, faults,
                   sandboxHistory>>

Ready(p, t) ==
    /\ call[p][t] = "ready"
    /\ Goto(p, t, "adopt")
    /\ UNCHANGED <<backend, up, closing, cache, found, fresh, flock, releaseVars,
                   hostVars, faults, sandboxHistory>>

\* Stopped(t, c): the container that stop reaches for a known container c:
\* Docker is asked by container id, the provisioner by sandbox id.
Stopped(t, c) == IF backend = "local" THEN Runs(t) \cap {c} ELSE Runs(t)
Stop(t, c) ==
    /\ running' = IF Stopped(t, c) = {} THEN running ELSE [running EXCEPT ![t] = 0]
    /\ dropped' = dropped \cup Stopped(t, c) \cup {c}

\* Mutant: a container that is not ready in time is left running.
NeverReadyLeft(p, t) ==
    /\ call[p][t] = "ready" /\ Fault
    /\ Raise(p, t)
    /\ UNCHANGED <<backend, up, closing, cache, releaseVars, hostVars, sandboxHistory>>

NeverReady(p, t) ==
    /\ call[p][t] = "ready" /\ Fault
    /\ Stop(t, found[p][t])
    /\ Raise(p, t)
    /\ UNCHANGED <<backend, up, closing, cache, releaseVars, record, born, unrecorded>>

\* Into the dictionaries under _lock.  After a recovery nothing is saved: with
\* both backends the URL that was discovered is the one of the file.
Adopt(p, t) ==
    /\ call[p][t] = "adopt"
    /\ cache' = [cache EXCEPT ![p][t] = found[p][t]]
    /\ IF fresh[p][t]
       THEN Goto(p, t, "save") /\ UNCHANGED <<found, flock>>
       ELSE Goto(p, t, "got") /\ found' = [found EXCEPT ![p][t] = 0] /\ Unlock(t)
    /\ UNCHANGED <<backend, up, closing, fresh, releaseVars, hostVars, faults,
                   sandboxHistory>>

Save(p, t) ==
    /\ call[p][t] = "save"
    /\ \/ /\ NoFault /\ record' = [record EXCEPT ![t] = TRUE]
          /\ unrecorded' = unrecorded \ {found[p][t]}
       \/ /\ Fault /\ record' = [record EXCEPT ![t] = FALSE]
          /\ unrecorded' = unrecorded \cup {found[p][t]}
    /\ fresh' = [fresh EXCEPT ![p][t] = FALSE]
    /\ Goto(p, t, "got") /\ Unlock(t)
    /\ found' = [found EXCEPT ![p][t] = 0]
    /\ UNCHANGED <<backend, up, closing, cache, releaseVars, running, born, dropped>>

\* provider.get(sandbox_id) after acquire: gone again, SandboxNotFoundError.
Got(p, t) ==
    /\ call[p][t] = "got"
    /\ Goto(p, t, IF cache[p][t] = 0 THEN "no" ELSE "use")
    /\ found' = [found EXCEPT ![p][t] = cache[p][t]]
    /\ UNCHANGED <<backend, up, closing, cache, fresh, flock, releaseVars, hostVars,
                   faults, sandboxHistory>>

Used(p, t) ==
    /\ call[p][t] = "use"
    /\ Goto(p, t, "no")
    /\ found' = [found EXCEPT ![p][t] = 0]
    /\ UNCHANGED <<backend, up, closing, cache, fresh, flock, releaseVars, hostVars,
                   faults, sandboxHistory>>

-----------------------------------------------------------------------------
(* The idle checker, shutdown and release. *)

ToRelease(p, by, threads) ==
    releases' = releases \cup {[proc |-> p, thread |-> t, by |-> by, step |-> "chosen",
                                container |-> 0] : t \in threads}

\* One pass at a time; what it chooses was not touched for idle_timeout, which
\* any sandbox may be at any time, also while a long tool call uses it.
ChooseIdle(p, chosen) ==
    /\ up[p] /\ ~closing[p] /\ Sweep
    /\ \A t \in chosen : cache[p][t] # 0
    /\ \A r \in releases : ~(r.proc = p /\ r.by = "idle")
    /\ ToRelease(p, "idle", chosen)
    /\ UNCHANGED <<backend, up, closing, cache, callVars, flock, hostVars, faults,
                   sandboxHistory>>

\* The checker finishes its list while shutdown, after 5 s, releases too.
Shutdown(p) ==
    /\ up[p] /\ ~closing[p] /\ Sweep
    /\ closing' = [closing EXCEPT ![p] = TRUE]
    /\ ToRelease(p, "shutdown", {t \in SandboxThreads : cache[p][t] # 0})
    /\ UNCHANGED <<backend, up, cache, callVars, flock, hostVars, faults, sandboxHistory>>

\* Under _lock: out of the dictionaries.  What is not there is not released.
Drop(r) ==
    LET c == cache[r.proc][r.thread] IN
    /\ r.step = "chosen"
    /\ cache' = [cache EXCEPT ![r.proc][r.thread] = 0]
    /\ releases' = (releases \ {r}) \cup
           (IF c = 0 THEN {} ELSE {[r EXCEPT !.step = "remove", !.container = c]})
    /\ dropped' = IF c = 0 THEN dropped ELSE dropped \cup {c}
    /\ UNCHANGED <<backend, up, closing, callVars, flock, sweeps, hostVars, faults,
                   unrecorded>>

RemoveFile(r) ==
    /\ r.step = "remove"
    /\ \/ /\ NoFault /\ record' = [record EXCEPT ![r.thread] = FALSE]
          /\ unrecorded' = IF record[r.thread]
                           THEN unrecorded \cup (Runs(r.thread) \ {r.container})
                           ELSE unrecorded
       \/ Fault /\ UNCHANGED <<record, unrecorded>>
    /\ releases' = (releases \ {r}) \cup {[r EXCEPT !.step = "destroy"]}
    /\ UNCHANGED <<backend, up, closing, cache, callVars, flock, sweeps, running,
                   born, dropped>>

Destroy(r) ==
    /\ r.step = "destroy"
    /\ \/ NoFault /\ Stop(r.thread, r.container) /\ UNCHANGED unrecorded
       \/ /\ Fault /\ UNCHANGED <<running, dropped>>
          /\ unrecorded' = unrecorded \cup {r.container}
    /\ releases' = releases \ {r}
    /\ UNCHANGED <<backend, up, closing, cache, callVars, flock, sweeps, record, born>>

-----------------------------------------------------------------------------
(* Processes and containers end. *)

\* Every thread of the process stops where it is; a flock dies with it.
Vanish(p) ==
    /\ up' = [up EXCEPT ![p] = FALSE]
    /\ cache' = [cache EXCEPT ![p] = [t \in SandboxThreads |-> 0]]
    /\ call' = [call EXCEPT ![p] = [t \in SandboxThreads |-> "no"]]
    /\ found' = [found EXCEPT ![p] = [t \in SandboxThreads |-> 0]]
    /\ fresh' = [fresh EXCEPT ![p] = [t \in SandboxThreads |-> FALSE]]
    /\ flock' = [t \in SandboxThreads |-> IF flock[t] = p THEN NoProc ELSE flock[t]]
    /\ releases' = {r \in releases : r.proc # p}
    /\ unrecorded' = unrecorded \cup {found[p][t] : t \in {u \in SandboxThreads : fresh[p][u]}}
                      \cup {r.container : r \in {s \in releases : s.proc = p /\ s.step = "destroy"}}
    /\ UNCHANGED <<backend, closing, sweeps, hostVars, dropped>>

Crash(p) == up[p] /\ Fault /\ Vanish(p)

\* The signal goes on to its default, or the interpreter has run atexit.
ExitProcess(p) ==
    /\ up[p] /\ closing[p] /\ ~ \E r \in releases : r.proc = p /\ r.by = "shutdown"
    /\ NoFault
    /\ Vanish(p)

StartProcess(p) ==
    /\ ~up[p]
    /\ up' = [up EXCEPT ![p] = TRUE]
    /\ closing' = [closing EXCEPT ![p] = FALSE]
    /\ UNCHANGED <<backend, cache, callVars, flock, releaseVars, hostVars, faults,
                   sandboxHistory>>

ContainerDies(t) ==
    /\ running[t] # 0 /\ Fault
    /\ dropped' = dropped \cup Runs(t)
    /\ running' = [running EXCEPT ![t] = 0]
    /\ UNCHANGED <<backend, processVars, releaseVars, record, born, unrecorded>>

CallStep(p, t) ==
    \/ Discovered(p, t) \/ NotRecovered(p, t) \/ Create(p, t) \/ CreateFails(p, t)
    \/ Ready(p, t) \/ NeverReady(p, t) \/ Adopt(p, t) \/ Save(p, t) \/ Got(p, t)

SandboxNext ==
    \/ \E p \in Procs, t \in SandboxThreads :
          CallCached(p, t) \/ CallUncached(p, t) \/ LockState(p, t) \/ CallStep(p, t)
          \/ Used(p, t)
    \/ \E p \in Procs, chosen \in SUBSET SandboxThreads \ {{}} : ChooseIdle(p, chosen)
    \/ \E p \in Procs : Shutdown(p) \/ Crash(p) \/ ExitProcess(p) \/ StartProcess(p)
    \/ \E r \in releases : Drop(r) \/ RemoveFile(r) \/ Destroy(r)
    \/ \E t \in SandboxThreads : ContainerDies(t)

SandboxSpec == SandboxInit /\ [][SandboxNext]_sandboxVars

(* A thread in acquire goes on, every wait in it has a timeout, and flock    *)
(* serves its waiters in turn.                                               *)
SandboxFairness ==
    \A p \in Procs, t \in SandboxThreads :
        WF_sandboxVars(CallStep(p, t)) /\ SF_sandboxVars(LockState(p, t))

SandboxFairSpec == SandboxSpec /\ SandboxFairness
-----------------------------------------------------------------------------
(* Properties. *)

\* A tool call or a cache that refers to a container that no longer runs has
\* a reason: a release() somewhere dropped it, it died, or its state file was
\* lost and another process made a new one.  Two processes that ask for the
\* same thread at once are no reason, nor, with Docker, is the release of an
\* older container of the name.
StaleHasAReason ==
    \A p \in Procs, t \in SandboxThreads :
        LET held == {cache[p][t]} \cup (IF call[p][t] = "use" THEN {found[p][t]} ELSE {}) IN
        held \ {0, running[t]} \subseteq dropped \cup unrecorded

\* No container runs on unnoticed: the thread's file leads the next acquire to
\* it, or a call or a release is at it, unless its file was lost, its process
\* crashed in the middle, or its stop failed.
NoneForgotten ==
    \A t \in SandboxThreads :
        running[t] # 0 =>
            \/ record[t]
            \/ running[t] \in unrecorded
            \/ \E p \in Procs : fresh[p][t] /\ found[p][t] = running[t]
            \/ \E r \in releases : r.thread = t /\ r.container = running[t]

\* Containers and what the processes know of them agree, but for named reasons.
ContainersAccounted == StaleHasAReason /\ NoneForgotten

\* Every call that waits for a sandbox gets one or an error, whatever process
\* dies with the lock.
AcquireEnds ==
    \A p \in Procs, t \in SandboxThreads :
        call[p][t] \notin {"no", "use"} ~> call[p][t] \in {"no", "use"}
=============================================================================

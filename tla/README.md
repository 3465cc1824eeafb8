# Formal models of nous-agent

TLA+ models of nous-agent: the Python backend (`src/agent/src`) with its runs,
agents, teams, memory, sandboxes and storage, the stand-alone sandbox package,
the two skills that keep state, and what the web page writes. TLC configurations
check them on small instances, and TLAPS proves the properties that matter most
for every value of the constants. Paths below are relative to `src/agent/src` unless they say otherwise.

Run a model with `tlc -config <X>.cfg <Module>.tla`, check proofs with
`tlapm <Module>.tla`. `PROJECT.json` holds the machine-readable part: the runs,
the source lines each definition translates, the mutants that show every
property can fail, the hazards and the findings.

## 1. Inventory

| Component | State | Operations | Talks to | Hard because | Module |
|---|---|---|---|---|---|
| EventBus `core/event_bus.py` | per run: ring buffer, id counter, subscriber queues | publish, subscribe, replay, cleanup | run task, SSE consumers | drops on overflow, replay after an id, cleanup under live subscribers | `EventBus` |
| Run lifecycle `api/runs.py`, task registry `core/task_registry.py` | `runs`, `_TASKS`, SSE generators | create, reconnect, join, cancel | bus, LangGraph, journal | cancels at any await, two writers of `status`, disconnects, restart | `RunStream` |
| Subagents `subagents/executor.py`, `tools/builtins/task_tool.py` | `_background_tasks`, two pools, poll loop | submit, run with timeout, poll | three threads share one object | no lock on its fields, zombies, nested pools | `Subagents` |
| LLM error handling `agents/middlewares/llm_error_handling_middleware.py` | circuit state, count, deadline, probe flag | check, record, retry | all concurrent model calls | stale outcomes, a probe that never reports | `CircuitBreaker` |
| RunJournal `runtime/` | event buffer, flush tasks, token counters | callbacks, flush, completion | run task, PostgreSQL | a flush in flight while the buffer fills, stores that fail or half fail | `RunJournal` |
| Memory `agents/memory/` | queue, timer, processing flag, memory rows | add, flush, clear, process | timer threads, LLM | stale timers, clear during a batch, read-ask-write | `MemoryQueue` |
| AioSandboxProvider `community/aio_sandbox/` | caches, state files, file locks, containers | acquire, get, release, idle check, shutdown | other processes, Docker or a provisioner | three layers that must agree, crash between layers | `AioSandbox` |
| Local sandbox `sandbox/`, uploads | LRU of sandboxes, recorded writes, directories | acquire, file tools, upload, list | page, agent, host | evictions between read and write | `ThreadFiles` |
| Sandbox package `src/sandbox` | LRU, mounts, recorded writes | the same, with read-only mounts | host | links, nested mounts, `..` | `SandboxMounts` |
| Loop detection, todo middlewares | per-thread windows and reminders (LRU) | hooks | agent loop | eviction, thresholds, runs without an id | `LoopDetection`, `TodoReminders` |
| Lead agent `agents/lead_agent/`, embedded client `client.py` | messages, what was yielded | turns | model, tools, permissions, guardrail, hooks | turns that break off, messages edited after the fact | `AgentTurn` |
| Swarm `swarm/`, `gateway/routers/swarm.py` | teams, members, mailbox rows, event stream | create, spawn, send, poll, watch | teammates' tasks | statements that commit by themselves, failing or deleted team, two clocks, namesakes | `Swarm` |
| Extensions file, MCP cache | file, copies, tools, mtime | update, reload, get tools | two processes write | rewrites from copies with variables resolved, stale mtime | `Extensions` |
| Threads: `core/state.py`, `storage/session_manager.py`, `hooks.ts` | list, row, checkpoint, page | create, run, title, rename, delete | page, gateway, run | five writers of a title on four stores | `ThreadRecords` |
| Skills `skills/`, `gateway/routers/skills.py` | directories | install, list, remove | gateway, clients | check then copy, two parsers | `SkillInstall` |
| Storage `storage/`, lifespans | pool, checkpointer, proxy | lazy creation, setup, close | requests, LangGraph runtime | several awaits without a lock | `Storage` |
| Configuration `config/` | a global per section, the cached config | load, reload, reset, lazy getters | threads, clients | partial loads, sections that linger, check then set | `Settings` |
| Redis streams `core/redis_stream.py` | stream, TTL, readers | publish, read, expire | bus | trimming, failing calls | `RedisStream` |
| Data analysis skill `analyze.py` | database and table map | load, query | other calls, DuckDB | two files, killed calls | `AnalysisCache` |
| Skill creator `run_loop.py`, `run_eval.py` | command files, scores | evaluate, improve | processes, `claude` | parallel queries share a directory | `EvalLoop` |

What makes each component correct is its property in section 3.

## 2. The modules

Each component is a module; `RunStream` EXTENDS `EventBus`, `AgentTurn` EXTENDS
`LoopDetection`. Three modules are abstract: `OrderedStream`, which `RunStream` and
`RedisStream` implement, `EventLog`, which `RunJournal` implements, and `MemoryInbox`, which
`MemoryQueue` implements. `Removal` holds `Without`, what the
caches do with their orders of use: `SelectSeq` of the standard module would say it too,
but its definition is out of the provers' reach. Theorems are in `RunStreamProofs`,
`SubagentsProofs` and `CircuitBreakerProofs`, and for the components that are composed in
`SharedProofs`, `BackgroundProofs`, `AgentsProofs` and `TurnsProofs` (section 5); what
several of these use is in `Lemmas`. `MCRunStream` and `MCSubagents` add symmetry sets.
`MCBackground` composes what goes on behind the turns, `MCAgents` what agents
are given, and a behaviour of theirs moves one component, chosen at the start:
these components share no variable, and their product would only multiply states.
`MCChat` instantiates `AgentTurn` for a finding.

Operators named `PushedUnlessFull`, `SubmitThenMark` and so on, with a comment
that begins "Mutant:", are not part of a specification. Each is a plausible bug
in the definition after it. For each property that a run checks `PROJECT.json` names one
that breaks it; a few more are there to be tried.

### EventBus and RunStream

All code of a run executes on one asyncio loop, so an action is what a coroutine
does from one suspension point to the next. `task` names the suspension point
the background task waits in. Points where nothing suspends (a publish without
Redis, or the step from the `try` block into `publish_end`) set `onLoop`, and
while it holds no other coroutine moves; `WithRedis` makes every publish a
suspension point, as `enable_redis_stream` does. `cancelled` is a
`task.cancel()` not yet delivered. Where it is delivered decides what the code
still does, hence three actions: `CancelInTry` (status, `finally`, end event),
`CancelInHandler` (during the publish of an error), `CancelOutsideTry` (before
the `try`, or in the `finally` block whose `except Exception` does not catch
`CancelledError`: no end event, no unregister, no cleanup).

The SSE consumer is a generator that is resumed when its client has taken the
last event; `Snapshot`, `Replay`, `JoinLive`, `Deliver`, `Expire` are its steps.
A client holds the ids it received (`got`) and may come back with the last of
them, with none, or by joining the thread. `log` and `joined` are history
variables: what the run has published, and how long that was when a client
subscribed. `Restart` loses everything the process holds.

Events carry an id and whether they are the end event; payloads, SSE formatting
and telemetry contents are left out. Ids are sequence numbers: the code only
compares them for equality, and their timestamp prefix does not matter to that.

`OrderedStream` says what all of this is for. A client that is on the stream
receives entries of the log, each beyond the last it holds; the stream ends with
the entry `end`; entries may be skipped. `RunStream` implements it under the
mapping `mode[c] = on` for a connected client, `ended` after the end event.
`RedisStream` implements the same specification: a reader takes a batch at a time, so
`Receive` brings a client any number of later entries, of which the last decides whether
its stream is over. Its ids count from one, those of the bus from zero (`Ids`).

### Subagents

For one task call the tool's thread polls an object, a scheduler worker waits
for the execution with a timeout, an execution worker writes into the object
without taking the lock. Every write of a field that another thread reads
unlocked is an action of its own: `WriteResult` before `Complete`, but `Fail`
before `WriteError`; `MarkTimedOut` before the error text and the
`future.cancel()` in `CancelExecution`. The poll loop reads `status` anew for
each of its three comparisons (`CheckStatus` with `Wanted` and `Otherwise`), and
the payload after that. Pools are FIFO queues with `Workers` workers each. A pool that
shuts down refuses an execution: `SubmitFails` sets the status in the scheduler's
`except Exception`, `WriteRefusal` the error text. A scheduler pool that refuses lets
`execute_async` raise before there is anything to poll, which is left out.

Time is counted in poll intervals. `Tick` lets one pass when no thread except
the subagents themselves has anything left to do (`Quiet`): computing takes no
time compared with five seconds, timers fire when they are due, and a subagent
may take any time, or for ever. This is the model's one idealisation of
timing; it is what makes statements about the order of the two timeouts possible.

### CircuitBreaker

One middleware object serves all concurrent calls. Each use of the breaker
under `_circuit_lock` is one step, and between two of them a call is inside the
provider or asleep before a retry. Error classes are distinguished by what the
loop does with them. `cooling` abstracts `now < _circuit_open_until`. The lead
agent does not install this middleware at this commit; the model describes the
class as it would run.

### RunJournal

Callbacks run on the event loop or in a thread; only the former start a flush.
`_flush_sync` copies the buffer and then clears it, a failed flush reads the
buffer and then replaces it, and `flush()` slices a batch and then deletes up to the
threshold. An append of a thread between the two operations is lost, in the last case when
the slice was short: `swap` keeps each pair apart, and the history variable `mishap` names
the events it met. The `finally` block of a run (`finish`) gathers the flush
task, flushes batch by batch and saves the summary; a cancel may meet it at each await.

`EventLog` says what this is for. The events that wait stand in one line, and rows are made
from its head. The line is `inFlight \o batch \o buffered`: what a failed flush puts back
was never out of it. A commit may go unnoticed, and events may be lost from the head of the
line, or, by a swap of the buffer, from behind what somebody has tried to store.

Tokens are counted on two paths, `on_llm_end` and `record_external_llm_usage`, and each has a
set of the ids it has counted (`counted`, `reported`). Nothing in the repository calls the
second one yet; the model does, with any id.

### MemoryQueue

A timer is armed, then woken, and `cancel()` stops only an armed one. A batch is
a list of conversations that one thread works off; each update waits for a worker
of `_MEMORY_EXECUTOR`, at most for a time, after which the batch goes on
though the update does too. An update reads the memory of the user, asks, and
writes: sections whole, facts one by one. `overlap` records that a wait timed out
or that `clear()` hit a batch, the two ways in which updates run side by side.

`MemoryInbox` says what this is for: conversations are said, taken all at once, handed to the
updater one by one in the order they were said, and done. What is taken is what the batches
have left and not handed over (`Unsubmitted`). Once `overlap` holds, updates may come out of
order and undo each other; even then none is handed over twice.

### AioSandbox

Two processes, one of which may be starting, each with a cache, a thread per
chat thread inside `acquire()`, an idle checker and a shutdown. The state file
(`record`), the file lock (`flock`) and the container (`running`) are shared;
`release()` drops the cache, the file and the container in three steps that take no
file lock. `dropped` and `unrecorded` are histories: containers some release or
death has ended, and containers whose file was lost. With Docker a container is
stopped by its id, with the provisioner by the sandbox's name; `backend` chooses.

### AgentTurn and LoopDetection

A superstep of the graph is an action: what it writes is kept or lost as a whole,
and a turn may stop after each (`TurnStops`). `ToolsRun` decides each call with the
wrappers in their order (permissions, guardrail, hooks, audit, error handling,
clarification). The detector's verdict replaces the last message under its old id.
The client yields a message when its id is first seen. `LoopDetection` counts a
response with the multiset of its calls and forgets the threads used longest ago.

### Swarm, Extensions, TodoReminders

`Swarm`: every statement commits by itself, so a teammate's task is a row of steps
(insert, select recipients, one insert each, run, report, remove), any of which may
fail or find the team deleted. Two calls may ask for one name: the row is updated on
the conflict, and the first task to end removes the member of the other (`overtaken`). An
INSERT begins, with the stamp of the database's clock, and commits or not in a later step;
`mail` is in the order of the stamps, and a row is seen once it is `there`. The stream
compares stamps with the gateway's own clock, which may read up to `Behind` messages less
and `Ahead` more (`Readings`).
`Extensions`: the gateway truncates and writes, the client replaces; both compose
the file from the part they change and their own copy of the other. `extra` is what the
file has beside the two parts: names of variables, fields of a server that its schema does
not know, other top-level keys. `Read` resolves the names, an update of the servers saves
what it was given, a switched skill writes back the servers of the copy, and either drops
other keys. The agent
reads the file in three steps and keeps the tools until the time of the file grows; two
writes may fall within one tick. `TodoReminders`: each use of the maps under the
lock is a step, so that the cap is checked (`BelowCap`) before the reminder is queued
(`SendsBack`), and runs without a run id share the key `default`.

### ThreadRecords, ThreadFiles, SandboxMounts

`ThreadRecords`: the list of the agent server, the row, the checkpoint, the channels
of a run in progress and the page; requests nobody awaits (`patches`) arrive in any
order or never. `ThreadFiles`: uploads, their sync, the listing in the first message
of a turn, and the file tools; a `str_replace` keeps the sandbox it has read with
across an eviction. A text is one that mentions a container path or a host path. What a
tool has written is `unrecorded` until `RecordWrite`, and another call of the same response
may read it in between. Mounts that `config.yaml` adds to the provider's are left out here:
their paths are turned like those of the skills, and `SandboxMounts` has nested ones.
`SandboxMounts`: paths are sequences of segments; `Walk` is `Path.resolve()` with
one symbolic link, which a command may make between the check and the open.

### SkillInstall, AnalysisCache, RedisStream, Storage, Settings, EvalLoop

Small protocols over something shared without a lock. `SkillInstall`: check, mkdir,
copy part by part. `AnalysisCache`: map read, database connected (DuckDB refuses
what conflicts), files loaded, map written; removed files live on for those who have
them open. `RedisStream`: `xadd` may trim, fail before or after it took effect, and
leave the key without a time to live. `Storage`: pool and checkpointer appear over
several awaits; a server waits for them, a gateway goes on without, and a runtime gets
the proxy that keeps checkpoints in memory meanwhile, while its runs ask for the pool
themselves, to write titles. `Settings`: one global per
section, set one after the other, by two threads. The getters of five sections
(permissions, guardrails, hooks, plugins, swarm; `Lazy`) find None and then set the default,
in two steps between which a load may have set the section. `set_app_config` and the setters
of sections are not modelled: only tests call them. `EvalLoop`: queries in a pool of
processes, each with a command file that `claude` sees along with the others; it goes for
one of them or for none, and its history is what each query deserved by that.

## 3. Runs

| Run | Question | Bounds |
|---|---|---|
| `stream_safety` | order, suffix, orphan, status, overflow and timeout properties, refinement of `OrderedStream` | 2 clients, buffer 2, queue 2, `MaxChunks` 2 data events before the run's own closing ones, Redis on |
| `stream_live` | every open stream is closed | 1 client, buffer 2, queue 1, Redis off |
| `no_event_lost` | finding 1 | buffer and queue 8, so nothing overflows |
| `cancel_sticks` | finding 2 | as above |
| `subagents` | verdicts, final status, give-up margin, every call ends | 2 tasks, 1 worker per pool, timeout 2, limit 4 |
| `subagents_given_up` | finding 3 | 3 tasks, 1 worker per pool, timeout 2, limit 3 |
| `subagents_unexecuted_timeout` | finding 4 | 2 tasks, 1 worker per pool, timeout 2, limit 4 |
| `circuit_breaker` | consistency, refusals end | 3 callers, threshold 2, 2 attempts |
| `circuit_probes_again` | finding 5 | as above |
| `background` | journal, memory, containers, skills, analysis cache, stream, storage; refinement of `EventLog`, `MemoryInbox`, `OrderedStream` (158 095 states) | see below |
| `agents` | extensions, team, loops, turns, reminders, threads, files, mounts, evaluation, settings (1 606 048 states) | see below |
| `chat_returns_last` | finding 6 | 1 tool, warning at 2, stop at 3, 1 turn of 4 replies |

*Why the bounds are enough.*

* *Streams, subagents, breaker.* A buffer and a queue of two overflow with three
  events, and a run writes up to five; two clients are the least with which one
  overflows while the other is served. With one worker per pool two tasks meet in
  both queues, and a limit two polls beyond the timeout leaves room for a task to
  be given up and for one to be saved; with a third task one waits for two others, and is
  given up before it has started. Two callers race on the breaker; the third can
  be the probe while two stale calls come back.
* *Journal.* Three events over a threshold of two fill a buffer, start a flush and
  leave one behind. *Memory.* Two conversations of one or two threads, a flush and a
  clear are the least with which a timer, a batch and a replacement meet. *Sandboxes.*
  Two processes, one thread, two containers, one fault and one pass of an idle
  checker or a shutdown: a stale use takes one of each.
* *Skills.* Three installs of two names with two troubles: one that is in the way,
  one that fails, one that follows. *Analysis.* Three calls whose files are the same
  under other names, in other orders, or of one name; one is killed. *Stream.* Four
  events, two kept, one call that fails. *Storage.* Three coroutines: one that makes
  something, one that comes meanwhile, one that comes after.
* *Agents.* Two updates by two processes with an error; two tasks of one teammate's name,
  four messages, and a clock that is ahead by one, where the stream watches one of the tasks
  (`ViewedStep`), for a stream reads all messages alike; a window of four with a stop at three,
  for two threads of which one is
  remembered; two turns of three replies; two runs of one thread, of which only one
  has an id; two runs and two renames; three file names of which two are read back as
  the third, and two uploads that are listed or one that meets the tools; three nested mounts,
  two links and two sessions of
  which one is cached; three queries in a pool of two, one of the two splits, which mirror
  each other; three sections, of which one lingers, one is lazy and one is both, and four
  config files in three loads.

What depends on the numbers is proved for all of them where section 5 says so.

*What the properties say.*

* `OrderInv`, `LogSuffix`, `StreamsAreOrdered`, `HolesOnlyByOverflow`,
  `ExpiresOnlyAfterRun`: clients get the run's events in order and once, the buffer is
  the newest part of the log, only an overflow makes holes after the subscription, and
  the 120 s timeout drops no client of a live run.
* `NoOrphanQueue`, `DoneIsTerminal`, `StreamsClose`: no queue without a reader, no
  finished run listed as running, no connection left hanging.
* `VerdictIsTrue`, `FinalUnlessExpired`, `GivesUpOnlyOnQueued`, `EveryTaskEnds`: what
  the task tool reports is what happened, a final status changes only through the
  same task's timeout, the polling limit fires only on a task that waited for a
  worker for the margin less one poll, and task calls return.
* `BreakerConsistent`, `RefusalEnds`: closed exactly below the threshold, a probe
  only in half open; a refusal ends unless the probe flag was leaked.
* `RunsAreStored`, `TokensCountedOnce`: an event is in a row, on its way, or in one of
  two named gaps; rows are doubled only by a store that committed and then failed; a
  summary is saved over complete telemetry; a call is counted once, however often each
  path reports it, or twice when both do.
* `MemoryHolds`, `QueueDrains`: each conversation is in one place and keeps its signals
  (`ConversationsAccounted`); updates of a user do not undo each other unless a wait timed
  out or a clear hit a batch (`UpdatesKeptApart`); the queue drains though updates hang.
* `ContainersAccounted`, `AcquireEnds`: a stale container in a cache or a call, and a
  container nobody knows of, have one of the named reasons; waiting for a sandbox ends.
* `SkillsAreWhole`: one archive per directory, whole when success was answered.
* `AnalysisHolds`: a call finds the tables of its map, with what is in its files, if calls
  come one after the other, or if none had to leave without a table; one after the other, a
  killed call costs at most one more.
* `ReadersMissNothing`: a reader yields in order, once, and passes over only what was
  never stored or was dropped.
* `StorageHolds`: a server serves with everything set up and closes what it opened;
  one pool but where several are made at a time, outside a server, and no checkpoint lost
  but those saved while the real saver was being made.
* `ExtensionsHold`: tools are those of the file and saved settings stay, with what the
  servers had beside them until a skill is switched (`LastingExtra`), except after
  the gaps of the protocol, each of which is named.
* `TeamHolds`: a member is active only for a task of its name, or as the ghost of one that
  failed; it is removed only after a report; a task in progress has its member unless a
  namesake was over first. A stream shows every message that is stamped up to its last
  poll, but for five named gaps, and repeats only what came between its clock's reading and
  the query.
* `LoopGuardHolds`: no loop gets through within a window, nobody is stopped unwarned.
* `TurnHolds`: every request to the model is well formed whatever turns broke off, and
  a question is answered by the user.
* `JumpsRemind`, `WishesEndure`, `AgentSeesFiles`: reminders arrive and are bounded;
  renames and deletions last; files are listed and own texts read back once recorded.
* `MountsHold`: no write under a read-only mount by any name (`ReadOnlyKept`), and a path in a
  text leads to the same file whether a sandbox reads the text back or a program of the host
  follows it, unless the file has no name of its own in the container (`TextsReadBack`).
* `PromisesKept`: the journal, the memory queue and the Redis stream are what `EventLog`,
  `MemoryInbox` and `OrderedStream` say. Where the invariants above speak of what has been
  stored, handed over or yielded, this speaks of every step that got it there.
* `EvaluationHolds`: a query passes as it deserves by what `claude` went for, unless it was
  not alone or not heard, and then it only looks untriggered; no description deserved more on
  the held-out queries than the one returned, if neither is in doubt.
* `SettingsHold`: quiet settings are those of the file, but for sections that linger and for
  those a getter has set to the default after the load.

Several of these have an exception in them. Each exception is a gap of the code that
was found while the property was being checked, is recorded by a history variable
where it happens, and is listed in section 4. The property says that there is no other.

*Fairness.* `RunStream`: weak fairness of the background task (asyncio runs what
is ready, model timeouts and the recursion limit bound the graph), of each
consumer (a connected client reads, the 120 s wait ends) and of the POST handler.
No client need connect, leave or cancel. `Subagents`: runnable threads run and
the clock goes on; nothing obliges a subagent to finish. `CircuitBreaker`:
provider calls return (client timeouts), sleeps end, the recovery timeout
passes; nobody need call. `MemoryQueue`: an armed timer fires, the thread that waits
for the lock gets it, a batch goes on, since its waits have a timeout; no update
need end. `AioSandbox`: a thread in `acquire()` goes on, as every wait in it has a
timeout, and `flock` serves its waiters in turn (strong fairness, as the lock is taken
and given back by others in between); nobody need call and no process need live.

Deadlock is not checked in `subagents`, `background` and `agents`: the systems stop when
all task calls have returned, or at the bounds.

## 4. Findings

1. **Replay gap** (`no_event_lost`): an event published while a client replays its
   snapshot is lost although nothing overflowed; README.md promises the opposite.
2. **Cancel of a pending run** (`cancel_sticks`): a run cancelled while the POST
   prepares the swarm team starts and runs.
3. **Safety net** (`subagents_given_up`): a third task, behind two others for one scheduler
   worker, uses up its polls in the queue, is reported as stuck though every timeout
   worked, and is started afterwards for nobody.
4. **Unexecuted timeout** (`subagents_unexecuted_timeout`): executions that
   outlived their timeout starve the execution pool, which is no larger than the
   scheduler pool.
5. **Leaked probe** (`circuit_probes_again`): a probe with a non-retriable error or a
   cancel leaves the breaker refusing for ever.
6. **Last text of a chat** (`chat_returns_last`): `chat()` is to return the last AI
   message text. The stream yields a message once, before the loop detector puts its
   text into it; after a hard stop `chat()` returns an earlier text or none.

*Observations* made while modelling, at the places the models name. They contradict no
sentence of the repository that a run could quote, or lie in code nothing reaches.

* *Runs.* `_background_tasks` and `runs` grow for ever. The reconnecting page sends no
  `Last-Event-ID` (`src/frontend/src/core/threads/transport.ts:134`). Nothing reads
  the Redis stream in production; bus ids are not entry ids, so `read_after` with an
  SSE id repeats or skips; a `"$"` reader loses what is published between two reads;
  after a failed `expire` the key has no time to live.
* *Journal, memory.* `_put` gives `created_at` as a string where the row has a
  `timestamptz`. `update_memory_sync` uses asyncpg connections across event loops;
  the trimming to `max_facts` is computed and not used; upload mentions are stripped
  from sections and not from new facts; a fact that is removed and added again in one
  answer is lost; a model call that is counted here and reported from outside counts twice;
  `flush()` and `clear()` have no callers but tests.
* *Extensions, configuration.* `update_skill` changes the cached copy before it writes;
  switching a skill writes the values of environment variables in place of their names,
  and drops top-level keys it does not know; a torn file
  makes `load_skills` enable everything; a failed connect is cached as no tools until
  the file changes. Sections title, summarization, memory, subagents, guardrails and
  swarm keep their old values when they leave the file, the others do not; a failed load
  leaves some sections changed; a first `get_guardrails_config()` beside a load may put the
  default over what was loaded; clients with different files share the globals.
* *Swarm.* A message that is inserted while the stream queries, or stamped after a query by a
  database whose clock is behind the gateway's, is never shown; of two tasks of one name the
  first to end removes the member of both. Nothing sets `swarm_context`, so the inbox is never polled; messages are
  marked read when they are fetched; `list_members(active_only)` leaves out `running`;
  a team deleted during a task loses the result.
* *Agents.* `CompactionMiddleware` has no hook LangGraph calls, dynamic context and the
  todo list's own middleware are never installed, `HookMiddleware` builds a request
  with an argument it does not take and swallows the error. Mode `prompt` ranks above
  full access, so nobody is asked; restricted modes deny `ask_clarification`. Mixed
  with other tools a clarification does not reliably end the turn. The embedded
  client keeps its agent, so that loop counts add up over turns.
* *Files.* `is_local_sandbox` tests for the id `local` while the provider gives
  `local:<thread>`: virtual paths are not replaced and threads share the host's
  `/mnt/user-data`. A listed name with a parenthesis is read back cut short: it hides the
  file of the short name and is listed in every turn. A name deleted and uploaded again
  is not announced; a converted file overwrites a user's own `.md`.
  `LocalSandboxProvider.get("local")` would acquire the lock it holds (no caller). In
  the sandbox package a link made between check and open leads a write elsewhere, and a file
  in a directory that another mount hides in the container (say `x` of the mount `/mnt/data`
  beside a mount `/mnt/data/x`) is shown to the agent under a name that means another file.
* *Threads.* A rename during a run is undone by the run's next save and by the page's
  own PATCH; a deleted thread's checkpoint stays, and a GET lists it again.
* *Storage.* Concurrent first requests may make two pools, in a gateway that could not set up
  its tables and in a runtime, whose first runs write titles beside the proxy; the proxy
  keeps in memory, out of reach, what other calls save while the first makes the real saver,
  and stays in memory after one failure; the server's runtime configuration does not name the proxy.
* *Skills.* Archives are checked as YAML and listed by lines, so that a quoted name is
  not found again; a failed copy stays and blocks the next; the gateway does not check
  unsafe paths as the client does. `analyze.py` hashes contents only: same base names
  lose a table, a failed or killed load leaves a cache without its tables. `run_eval`
  does not parse what is left after the process ends, and a training set that the
  holdout empties passes at once.

## 5. Proofs

All theorems are of the form `Spec => ...` and hold for every value of the constants that
satisfies the named assumptions. TLC evaluates these in every run. Most only type a
constant; a bound that caps a model (`MaxRuns` and its like) is any number. Those that say more:

| Assumption | Says | Because |
|---|---|---|
| `BusAssumption`, `StreamAssumption`, `MountAssumption`, `FileAssumption`, `TodoAssumption` | capacities are positive | they are constants of the code |
| `SubagentAssumption` | pools and timeout are positive, the polling limit is above the timeout | `task_tool.py:138` adds a minute |
| `BreakerAssumption`, `JournalAssumption` | thresholds and attempts are positive | defaults |
| `RecordsAssumption` | no user asks for the empty title | the page asks for what was typed |
| `InstallAssumption` | there is an archive | |
| `StorageAssumption` | finitely many coroutines; "no checkpoint" is none | pools are counted |
| `SandboxAssumption`, `SwarmAssumption`, `ExtensionsAssumption` | the mark "none" is no process; the lead and the system are no teammates; gateways are no clients | |
| `SettingsAssumption` | each config file says something of each section, if only that it is missing | |
| `LoopAssumption` | each warning comes before its stop, stops fit into the window | the defaults the lead agent keeps |
| `TurnAssumption` | modes are the five ranks, the limit of parallel tasks is 2 to 4 | `subagent_limit_middleware.py` clamps it |
| `EvalAssumption` | finitely many queries, a positive number of tries, workers and iterations | |
| `PathAssumption` | paths are sequences of names; directories of mounts and what links lead to are resolved, and no link is put in their way | `local_path` is resolved before it is compared; a mount point is not replaced |
| `CacheAssumption` | a call names a file; the marks of the model are no file labels | `analyze.py` requires `--files` |

The safety property of a component is seldom inductive. Each theorem rests on an invariant
that is, called `...Inv`, which conjoins the types, the property and what is missing; TLC
found the first errors in these before they were proved.

* **RunStreamProofs.** `OrderInv` is inductive with the types: the bus numbers events as the
  log does until the run is over, nothing follows the end event, and what a client has
  still to get lies above what it holds. The last clause is the one that makes
  overflow, replay and re-subscription compose. `NoOrphanQueue` follows. `Refinement`
  maps each action to a write, an open, a receive, a leave or a stutter of
  `OrderedStream`. `StatusesAreFinal` needs where the task can be when an endpoint
  writes the status; `BufferAndQueuesAreNewest` that ids are positions in the log.
  `OnlyOverflowMakesHoles` rests on `LiveInv`: a live connection's queue is the end of the
  log, from where it subscribed or where its client stands unless the queue is full, and
  holds the end event until it is received. `TimeoutsWaitForTheEnd` adds `Early`: nobody
  watches before the task is created, and while the task goes on it is registered.
* **SubagentsProofs.** `TaskInv` says what the threads of a task know of each other.
  `Backed`: a status seen anywhere is backed by the execution or the scheduler.
  `Written` and `Fresh`: who may still write. `OnTime`: each poll interval was spent in
  a queue or in the wait, but for at most two, and after the second the comparisons
  cannot all fail again. `VerdictIsTrue` and `GivesUpOnlyOnQueued` follow;
  `FinalUnlessExpired` is checked step by step. `QueueInv` makes the head of the
  scheduler's queue a queued task.
* **CircuitBreakerProofs.** `BreakerConsistent` is inductive with the types.
* **SharedProofs.** *Skills:* who copies is alone in its directory and finds only what it
  copied itself, both because `mkdir` succeeds once. *Storage:* who waits for what; the
  lifespan is alone before anybody is served, and there are no more pools than coroutines
  that made them. *Stream:* up to the id after which a reader reads next, everything was
  yielded, or trimmed or dropped before it could be; hence a batch follows what the reader
  has, and yielding it is a `Receive` of `OrderedStream` (`RedisStreamIsOrdered`), as each
  other step is a write, an open or nothing a reader can see. *Analysis:* `Found`, what the
  database, the map and each call know of one another; `Locked`, whom DuckDB admits; and
  `Alone`: when calls come one after the other, each table in the way is the debris of
  another call's death that has cost nobody anything yet.
* **BackgroundProofs.** *Journal:* `Steps` relates the swap, the flush task and the
  `finally` block, so that no batch is overwritten; `EventsApart` says that an event is
  in one place, and in a place and a row only if a store failed after its commit. From
  these each step is mapped to one of `EventLog` or to none (`JournalKeepsTheLine`): taking
  and putting back batches leaves the line as it is, a store shortens it at its head.
  `OldestFirst`, proved of the abstract log, then holds of the journal.
  *Containers:* what each call knows, by the step it is at: who is past the lock has it,
  what it made runs or was dropped meanwhile, and what it replaces has an excuse. A step
  with one thread's sandbox is a `Frame`, which disturbs no other call; releases, sweeps
  and the end of a process only make calls forget (`Loosens`). *Memory:* unless batches
  overlap one is open, the flag says so, and the one update under way is the one the batch
  waits for, and has read what is stored. `TakenOnce` adds what the mapping to `MemoryInbox`
  needs: no conversation is left in two batches, and the queue and each batch are in the
  order of the conversations. `QueueKeepsTheInbox` maps each step; that nothing is handed
  over twice or out of order (`InboxOrdered`) is proved of the inbox and then holds of the
  queue. `BackgroundTyped`, `PromisesAreKept`: every component follows its own
  specification in `MCBackground`, so that the theorems about each hold there.
* **AgentsProofs.** *Settings:* while all loads are of one text, a section follows it as
  soon as one of them is past it, unless a getter has undone it since. *Extensions:* what
  each writer is about to write (`Meant`), what its copy has made of the last write, which is
  what was saved without the names (`KeptCopy`), and that a turn that connects has loaded the
  servers in the file. *Teams:* where a member's task is; whose the row is that is being
  inserted (`RowsApart`), which keeps a task's report its own; and up to which stamp a stream
  has shown or passed by what there is, at each point of its loop (`ViewKnown`). The clocks
  may differ by any number. *Evaluations:* what each try is worth while it is under way
  (`Vouched`): one that is not in doubt is alone in a clean directory, so that what claude
  goes for is its own file. Counting tries then gives the scores, and the choice of the
  best the rest. *Mounts:* what a check is worth, as long as the link is the one it saw; the
  cache never names a sandbox twice, so that its length is a count (`MountsAreTyped`).
  *Texts:* `Along` resolves a path segment by segment, and induction over the segments shows
  that what it returns is `Canonical`, and that it leaves a canonical path alone, from
  whichever part of it one goes on. So the container's name of a file leads back to the file
  when the mount it was named by is the one the name is found under, which is what `Hidden`
  excludes (`NameLeadsBack`); the invariant need only type texts and links.
* **TurnsProofs.** *Loops:* what the detector remembers of a thread is compared with its
  whole era: the history is its end, sets of calls and tools are warned of before
  there are too many, and the counts hold all calls that passed. *Turns:* `Settled` (the
  calls of a message are answered right behind it, all in order, or not at all, and
  nothing else is an answer) makes what is patched well formed; `Waits` and `Heard` say that
  the model is asked again only after the user. `TurnsGuardLoops` shows that the lead agent
  uses the detector as `LoopSpec` says, so that the guard holds in its turns. *Todos:* for
  each run how often it was sent back and its key was taken; if no other run has its
  key, what is pending is what its requests have not carried. *Records:* no run can be at a
  title after a rename. *Files:* an editor is cached while it is current, and what was
  written last is recorded in the sandbox it was written through, or about to be. `AgentsTyped`: every
  component follows its own specification in `MCAgents`.
* **Lemmas.** Induction over numbers from a least counterexample, since the library's
  theorem takes an operator that the provers cannot instantiate; what `Without` returns;
  that a sequence without repetitions is as long as its set is large. In
  `TurnsProofs`, what `FlattenSeq` returns.

*What the proofs showed about the model.* Two alternatives of a CASE in `Storage` overlapped,
of which TLC takes the first and the logic any. The guard against loops needs
each warning below its stop, which the class does not check and its defaults satisfy.
That a call of `analyze.py` finds its tables was stated only for when nobody was killed;
the proof does not need that.
Which texts are read back as they were was first said with who had written them; the proof
shows that this does not matter, only whether a mount hides the file from its name.

*Only model-checked:* the liveness properties (`StreamsClose`, `EveryTaskEnds`,
`RefusalEnds`, `QueueDrains`, `AcquireEnds`), which rest on fairness and ENABLED, beyond the
provers. Every other property of a passing run is proved.

## 6. Not modelled, and the plan

Not modelled:

* `SummarizationMiddleware`, which `agent.py` installs where summarization is configured: it
  replaces old messages before the model, and by default is off.
* LangGraph, the checkpointer and the model (external; what the code sees of them is in
  the modules), two runs on one thread (their conflict lies inside the checkpointer).
* `utils/network.py`: nothing calls it. `context/compaction.py` and the middlewares
  that are never installed: nothing calls them either.
* Prompts, the adapters of models, community tools, MinIO, ACP and plugins: each call is
  I/O or a text, without state of its own between calls.
* Handlers and queries that only read; the page's parsing and rendering; generators of
  reports, images, slides and podcasts under `skills/`, which read and write files of one call.
* Anonymous sandboxes and the static backend of the provider; `aio_provider.py` of the
  sandbox package, a thinner copy of the agent's; guardrail and hook rules as patterns.
* Unbounded growth (`runs`, `_background_tasks`, caches of one process without an LRU).

Left to do:

1. The page's merge of replayed messages (`merge-messages.ts`) against a reference.
2. An abstract specification of a container that a thread owns, for `AioSandbox`, whose
   gaps would have to be actions of it.

----------------------------- MODULE Subagents -----------------------------
(***************************************************************************)
(* subagents/executor.py with the poll loop of tools/builtins/task_tool.py *)
(* and the two thread pools between them.  For every task call three       *)
(* threads share one SubagentResult object: the tool's thread polls it, a  *)
(* scheduler worker waits for the execution with a timeout, an execution   *)
(* worker runs the subagent and writes into the object without the lock.   *)
(* Python threads interleave between any two attribute accesses, so writes *)
(* and reads that the code makes one after the other are actions of their  *)
(* own, except inside _background_tasks_lock when all parties hold it.     *)
(*                                                                         *)
(* Time is counted in poll intervals (5 s).  It passes only when no thread *)
(* but the subagents themselves has anything to do (Quiet): timers fire on *)
(* time, and subagents take as long as they like, for ever included.       *)
(*                                                                         *)
(* Left out: the AI messages collected on the way and the task_running     *)
(* events, which feed back into nothing, and the sync path, where execute()*)
(* is called with no holder and shares nothing.                            *)
(***************************************************************************)
EXTENDS Integers, Sequences, FiniteSets

CONSTANTS Tasks,      \* the tool_call_ids of the task calls
          Workers,    \* max_workers of each pool
          Timeout,    \* config.timeout_seconds, in poll intervals
          PollLimit   \* max_poll_count

ASSUME SubagentAssumption ==
    /\ Workers \in Nat \ {0}
    /\ Timeout \in Nat \ {0}
    /\ PollLimit \in Nat /\ PollLimit > Timeout

VARIABLES status,      \* SubagentResult.status of each task
          result,      \* .result has been written
          error,       \* what .error says
          sched,       \* where run_task is
          schedQueue,  \* waiting for a scheduler worker
          exec,        \* where execute() is
          execQueue,   \* waiting for an execution worker
          waited,      \* how long run_task has waited for the execution
          queuedFor,   \* how long the task waited for a scheduler worker
          poll,        \* where the poll loop is
          polls,       \* poll_count
          verdict,     \* what the tool told the agent
          told         \* the payload of that answer

resultVars == <<status, result, error>>
schedVars == <<sched, schedQueue>>
execVars == <<exec, execQueue>>
timeVars == <<waited, queuedFor, polls>>
pollVars == <<poll, verdict, told>>
vars == <<resultVars, schedVars, execVars, timeVars, pollVars>>

Terminal == {"completed", "failed", "timed_out"}
Statuses == {"absent", "pending", "running"} \cup Terminal
Errors == {"none", "exception", "timeout"}
Verdicts == {"none", "gave_up"} \cup Terminal

SchedBusy == {"started", "waiting", "expiring", "marked", "refused"}
SchedOver == {"collected", "expired", "unsubmitted"}
ExecBusy == {"running", "answering", "failing"}

\* Within one poll: before the first comparison, the second and the third.
Looking == {"checking", "not_completed", "not_failed"}

TypeOK ==
    /\ status \in [Tasks -> Statuses]
    /\ result \in [Tasks -> BOOLEAN]
    /\ error \in [Tasks -> Errors]
    /\ sched \in [Tasks -> SchedBusy \cup {"none", "queued"} \cup SchedOver]
    /\ schedQueue \in Seq(Tasks)
    /\ exec \in [Tasks -> ExecBusy \cup {"none", "queued", "done", "cancelled"}]
    /\ execQueue \in Seq(Tasks)
    /\ waited \in [Tasks -> 0 .. Timeout]
    /\ queuedFor \in [Tasks -> Nat]
    /\ poll \in [Tasks -> Looking \cup {"none", "sleeping", "awake", "answered"} \cup Terminal]
    /\ polls \in [Tasks -> 0 .. PollLimit + 1]
    /\ verdict \in [Tasks -> Verdicts]
    /\ told \in [Tasks -> Errors \cup {"result"}]

Init ==
    /\ status = [t \in Tasks |-> "absent"]
    /\ result = [t \in Tasks |-> FALSE]
    /\ error = [t \in Tasks |-> "none"]
    /\ sched = [t \in Tasks |-> "none"] /\ schedQueue = <<>>
    /\ exec = [t \in Tasks |-> "none"] /\ execQueue = <<>>
    /\ waited = [t \in Tasks |-> 0]
    /\ queuedFor = [t \in Tasks |-> 0]
    /\ poll = [t \in Tasks |-> "none"]
    /\ polls = [t \in Tasks |-> 0]
    /\ verdict = [t \in Tasks |-> "none"]
    /\ told = [t \in Tasks |-> "none"]

Set(f, t, v) == [f EXCEPT ![t] = v]
Busy(place, phases) == Cardinality({t \in Tasks : place[t] \in phases})

-----------------------------------------------------------------------------
(* execute_async and run_task. *)

ExecuteAsync(t) ==
    /\ sched[t] = "none"
    /\ status' = Set(status, t, "pending")
    /\ sched' = Set(sched, t, "queued")
    /\ schedQueue' = Append(schedQueue, t)
    /\ poll' = Set(poll, t, "checking")
    /\ UNCHANGED <<result, error, execVars, timeVars, verdict, told>>

SchedulerFree == schedQueue # <<>> /\ Busy(sched, SchedBusy) < Workers

\* A scheduler worker takes the next task and marks it running.
StartTask ==
    /\ SchedulerFree
    /\ LET t == Head(schedQueue) IN
          /\ sched' = Set(sched, t, "started")
          /\ status' = Set(status, t, "running")
    /\ schedQueue' = Tail(schedQueue)
    /\ UNCHANGED <<result, error, execVars, timeVars, pollVars>>

SubmitExecution(t) ==
    /\ sched[t] = "started"
    /\ sched' = Set(sched, t, "waiting")
    /\ exec' = Set(exec, t, "queued")
    /\ execQueue' = Append(execQueue, t)
    /\ UNCHANGED <<resultVars, schedQueue, timeVars, pollVars>>

\* The execution pool takes no more, as the process is going down: the task has
\* failed, and then its error is written.
SubmitFails(t) ==
    /\ sched[t] = "started"
    /\ sched' = Set(sched, t, "refused")
    /\ status' = Set(status, t, "failed")
    /\ UNCHANGED <<result, error, schedQueue, execVars, timeVars, pollVars>>

WriteRefusal(t) ==
    /\ sched[t] = "refused"
    /\ sched' = Set(sched, t, "unsubmitted")
    /\ error' = Set(error, t, "exception")
    /\ UNCHANGED <<status, result, schedQueue, execVars, timeVars, pollVars>>

\* Mutant: RUNNING is recorded once the execution is under way.
SubmitThenMark(t) ==
    /\ sched[t] = "waiting" /\ exec[t] = "done"
    /\ sched' = Set(sched, t, "collected")
    /\ status' = Set(status, t, "running")
    /\ UNCHANGED <<result, error, schedQueue, execVars, timeVars, pollVars>>

\* The future has its result: the object's own fields are copied onto it.
Collect(t) ==
    /\ sched[t] = "waiting" /\ exec[t] = "done"
    /\ sched' = Set(sched, t, "collected")
    /\ UNCHANGED <<resultVars, schedQueue, execVars, timeVars, pollVars>>

\* result(timeout) raises; the execution may still end before the lock is
\* taken.
WaitExpires(t) ==
    /\ sched[t] = "waiting" /\ exec[t] # "done" /\ waited[t] = Timeout
    /\ sched' = Set(sched, t, "expiring")
    /\ UNCHANGED <<resultVars, schedQueue, execVars, timeVars, pollVars>>

MarkTimedOut(t) ==
    /\ sched[t] = "expiring"
    /\ sched' = Set(sched, t, "marked")
    /\ status' = Set(status, t, "timed_out")
    /\ UNCHANGED <<result, error, schedQueue, execVars, timeVars, pollVars>>

\* Mutant: the worker stays with the execution until it has ended.
JoinExecution(t) ==
    /\ sched[t] = "marked" /\ exec[t] \in {"queued", "done"}
    /\ sched' = Set(sched, t, "expired")
    /\ error' = Set(error, t, "timeout")
    /\ exec' = IF exec[t] = "queued" THEN Set(exec, t, "cancelled") ELSE exec
    /\ UNCHANGED <<status, result, schedQueue, execQueue, timeVars, pollVars>>

\* The error text, and then future.cancel(), which stops only an execution
\* no worker has taken yet; the pool's queue keeps the entry.
CancelExecution(t) ==
    /\ sched[t] = "marked"
    /\ sched' = Set(sched, t, "expired")
    /\ error' = Set(error, t, "timeout")
    /\ exec' = IF exec[t] = "queued" THEN Set(exec, t, "cancelled") ELSE exec
    /\ UNCHANGED <<status, result, schedQueue, execQueue, timeVars, pollVars>>

-----------------------------------------------------------------------------
(* execute(): result before status, but status before error. *)

ExecutorFree == execQueue # <<>> /\ Busy(exec, ExecBusy) < Workers

\* A free worker takes the next execution, or drops a cancelled one.
Execute ==
    /\ ExecutorFree
    /\ LET t == Head(execQueue) IN
          exec' = IF exec[t] = "queued" THEN Set(exec, t, "running") ELSE exec
    /\ execQueue' = Tail(execQueue)
    /\ UNCHANGED <<resultVars, schedVars, timeVars, pollVars>>

\* Mutant: the status is written before the result.
StatusFirst(t) ==
    /\ exec[t] = "running"
    /\ exec' = Set(exec, t, "answering")
    /\ status' = Set(status, t, "completed")
    /\ UNCHANGED <<result, error, schedVars, execQueue, timeVars, pollVars>>

WriteResult(t) ==
    /\ exec[t] = "running"
    /\ exec' = Set(exec, t, "answering")
    /\ result' = Set(result, t, TRUE)
    /\ UNCHANGED <<status, error, schedVars, execQueue, timeVars, pollVars>>

Complete(t) ==
    /\ exec[t] = "answering"
    /\ exec' = Set(exec, t, "done")
    /\ status' = Set(status, t, "completed")
    /\ UNCHANGED <<result, error, schedVars, execQueue, timeVars, pollVars>>

Fail(t) ==
    /\ exec[t] = "running"
    /\ exec' = Set(exec, t, "failing")
    /\ status' = Set(status, t, "failed")
    /\ UNCHANGED <<result, error, schedVars, execQueue, timeVars, pollVars>>

WriteError(t) ==
    /\ exec[t] = "failing"
    /\ exec' = Set(exec, t, "done")
    /\ error' = Set(error, t, "exception")
    /\ UNCHANGED <<status, result, schedVars, execQueue, timeVars, pollVars>>

-----------------------------------------------------------------------------
(* The poll loop of task_tool. *)

\* The status the loop compares with at each point, and where it goes next
\* when the comparison fails.
Wanted == [checking |-> "completed", not_completed |-> "failed", not_failed |-> "timed_out"]
Otherwise == [checking |-> "not_completed", not_completed |-> "not_failed", not_failed |-> "sleeping"]

\* One comparison with the status, which is read anew for each of the three.
CheckStatus(t) ==
    /\ poll[t] \in Looking
    /\ poll' = Set(poll, t, IF status[t] = Wanted[poll[t]] THEN status[t] ELSE Otherwise[poll[t]])
    /\ UNCHANGED <<resultVars, schedVars, execVars, timeVars, verdict, told>>

\* The payload is read after the status it goes with.
Answer(t) ==
    /\ poll[t] \in Terminal
    /\ poll' = Set(poll, t, "answered")
    /\ verdict' = Set(verdict, t, poll[t])
    /\ told' = Set(told, t, IF poll[t] # "completed" THEN error[t]
                            ELSE IF result[t] THEN "result" ELSE "none")
    /\ UNCHANGED <<resultVars, schedVars, execVars, timeVars>>

\* Mutant: the polls are counted but not limited.
PollForEver(t) ==
    /\ poll[t] = "awake"
    /\ poll' = Set(poll, t, "checking")
    /\ UNCHANGED <<resultVars, schedVars, execVars, timeVars, verdict, told>>

\* After the sleep: look again, unless the polls are used up.
PollAgain(t) ==
    /\ poll[t] = "awake" /\ polls[t] <= PollLimit
    /\ poll' = Set(poll, t, "checking")
    /\ UNCHANGED <<resultVars, schedVars, execVars, timeVars, verdict, told>>

\* Mutant: the last poll is not waited for.
GiveUpEarly(t) ==
    /\ poll[t] = "awake" /\ polls[t] >= PollLimit
    /\ poll' = Set(poll, t, "answered")
    /\ verdict' = Set(verdict, t, "gave_up")
    /\ UNCHANGED <<resultVars, schedVars, execVars, timeVars, told>>

GiveUp(t) ==
    /\ poll[t] = "awake" /\ polls[t] > PollLimit
    /\ poll' = Set(poll, t, "answered")
    /\ verdict' = Set(verdict, t, "gave_up")
    /\ UNCHANGED <<resultVars, schedVars, execVars, timeVars, told>>

\* Nothing is left to do but to wait for the subagents and the clock.
Quiet ==
    /\ ~SchedulerFree /\ ~ExecutorFree
    /\ \A t \in Tasks :
          /\ sched[t] \notin {"started", "expiring", "marked", "refused"}
          /\ ~(sched[t] = "waiting" /\ (exec[t] = "done" \/ waited[t] = Timeout))
          /\ exec[t] \notin {"answering", "failing"}
          /\ poll[t] \in {"none", "sleeping", "answered"}

Sleeping == {t \in Tasks : poll[t] = "sleeping"}

Tick ==
    /\ Quiet /\ Sleeping # {}
    /\ waited' = [t \in Tasks |-> IF sched[t] = "waiting" THEN waited[t] + 1 ELSE waited[t]]
    /\ queuedFor' = [t \in Tasks |->
                        IF sched[t] = "queued" THEN queuedFor[t] + 1 ELSE queuedFor[t]]
    /\ polls' = [t \in Tasks |-> IF t \in Sleeping THEN polls[t] + 1 ELSE polls[t]]
    /\ poll' = [t \in Tasks |-> IF t \in Sleeping THEN "awake" ELSE poll[t]]
    /\ UNCHANGED <<resultVars, schedVars, execVars, verdict, told>>

SchedulerNext ==
    \/ StartTask
    \/ \E t \in Tasks : \/ SubmitExecution(t) \/ Collect(t) \/ WaitExpires(t)
                        \/ MarkTimedOut(t) \/ CancelExecution(t)
                        \/ SubmitFails(t) \/ WriteRefusal(t)

\* Ending an execution once begun to; how long it runs is its own affair.
ExecutorNext == Execute \/ \E t \in Tasks : Complete(t) \/ WriteError(t)

SubagentEnds == \E t \in Tasks : WriteResult(t) \/ Fail(t)

PollNext == \E t \in Tasks : CheckStatus(t) \/ Answer(t) \/ PollAgain(t) \/ GiveUp(t)

Next ==
    \/ \E t \in Tasks : ExecuteAsync(t)
    \/ SchedulerNext \/ ExecutorNext \/ SubagentEnds
    \/ PollNext \/ Tick

(* Threads that can run do run, and the clock goes on.  A subagent need    *)
(* never come to an end.                                                   *)
Fairness ==
    /\ WF_vars(SchedulerNext) /\ WF_vars(ExecutorNext)
    /\ WF_vars(PollNext) /\ WF_vars(Tick)

Spec == Init /\ [][Next]_vars
FairSpec == Spec /\ Fairness
-----------------------------------------------------------------------------
(* Properties. *)

\* A success is reported only with the answer of an execution that came to
\* its end, whatever the timeout and the pools did in between; a failure and
\* a timeout are never reported for a subagent that did not fail, or could not
\* be submitted, or did not expire.
VerdictIsTrue ==
    \A t \in Tasks :
        /\ verdict[t] = "completed" => told[t] = "result" /\ exec[t] = "done"
        /\ verdict[t] = "failed" =>
              ~result[t] /\ (exec[t] \in {"failing", "done"} \/ sched[t] \in {"refused", "unsubmitted"})
        /\ verdict[t] = "timed_out" => sched[t] \in {"marked", "expired"}

\* Once a task has a final status, only its own timeout, racing the end of
\* the execution, may still change it.
FinalUnlessExpired ==
    [][\A t \in Tasks :
          status[t] \in Terminal /\ status'[t] # status[t]
          => sched'[t] \in {"marked", "expired"}]_vars

\* The polling limit lies behind the execution timeout by a margin; the loop
\* gives up only on a task that spent that margin waiting for a scheduler
\* worker.  One poll of the margin may be lost to a timed-out execution that
\* ends while the loop compares, so that no comparison matches.
GivesUpOnlyOnQueued ==
    \A t \in Tasks : verdict[t] = "gave_up" => queuedFor[t] >= PollLimit - Timeout - 1

\* A task call returns and its scheduler worker is free again, even when
\* subagents hang for ever and keep every execution worker.
EveryTaskEnds ==
    \A t \in Tasks : sched[t] # "none"
        ~> poll[t] = "answered" /\ sched[t] \in SchedOver

\* task_tool.py:195: the polling timeout is "a safety net (in case thread pool
\* timeout doesn't work)" that catches "cases where the background task gets
\* stuck": no task starts that has been reported as stuck.
GivenUpIsStuck ==
    [][\A t \in Tasks : verdict[t] = "gave_up" /\ sched[t] = "queued" => sched'[t] = "queued"]_vars

\* executor.py:73: the execution pool is there "to avoid blocking when
\* scheduler submits execution tasks": no task times out unexecuted.
ExecutedBeforeTimeout == \A t \in Tasks : sched[t] = "expiring" => exec[t] # "queued"
=============================================================================

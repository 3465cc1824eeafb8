--------------------------- MODULE SubagentsProofs ---------------------------
(***************************************************************************)
(* Theorems about Subagents, for any set of tasks, any number of workers   *)
(* and any timeout below the polling limit.                                *)
(*                                                                         *)
(*  - VerdictsAreTrue: Spec => []VerdictIsTrue                             *)
(*  - GivesUpAfterMargin: Spec => []GivesUpOnlyOnQueued                    *)
(*  - FinalStatusStays: Spec => FinalUnlessExpired                         *)
(*  - SafelyTyped: Spec => []TypeOK                                        *)
(*                                                                         *)
(* The induction runs over what the three threads of a task know of each   *)
(* other (Backed, Fresh, Written) and over the accounting of its time      *)
(* (OnTime).                                                               *)
(***************************************************************************)
EXTENDS Subagents, TLAPS

Started == {"queued", "started", "waiting", "expiring"}
Ended == {"marked", "expired", "collected", "refused", "unsubmitted"}
Refused == {"refused", "unsubmitted"}
Active == Looking \cup {"sleeping", "awake"} \cup Terminal

\* The execution will not write the status any more.
Settled(t) == exec[t] \in {"failing", "done", "cancelled"} \/ sched[t] \in Refused

\* What must be so when a thread has seen the task in the given status.
Backed(kind, t) ==
    /\ kind = "completed" => result[t] = TRUE /\ exec[t] = "done"
    /\ kind = "failed" => result[t] = FALSE /\ (exec[t] \in {"failing", "done"} \/ sched[t] \in Refused)
    /\ kind = "timed_out" => sched[t] \in {"marked", "expired"}

\* Before its submission a task has no result and no final status.
Fresh(t) ==
    sched[t] \in {"none", "queued", "started"} =>
        /\ exec[t] = "none" /\ waited[t] = 0
        /\ status[t] \notin Terminal

\* The result is written in one step of the execution and nowhere else.
Written(t) ==
    /\ exec[t] \in {"none", "queued", "running", "failing", "cancelled"} => result[t] = FALSE
    /\ exec[t] = "answering" => result[t] = TRUE
    /\ exec[t] \in {"failing", "done"} => status[t] \in Terminal
    /\ sched[t] \in Ended => status[t] \in Terminal
    /\ sched[t] \in Ended \ Refused => exec[t] # "none"
    /\ sched[t] \in Refused => exec[t] = "none" /\ status[t] = "failed"
    /\ sched[t] = "collected" => exec[t] = "done"
    /\ sched[t] \in {"marked", "expired"} /\ ~Settled(t) => status[t] = "timed_out"
    /\ sched[t] \in {"waiting", "expiring"} => exec[t] # "none"

\* Every poll interval of a task was spent in the scheduler's queue or in the
\* wait for the execution, but for two at most: the one in which the final
\* status came, and one in which it changed between two comparisons, which
\* settles it.  From then on the comparisons cannot all fail.
OnTime(t) ==
    /\ poll[t] \in Looking \cup {"sleeping"} \cup Terminal => polls[t] <= PollLimit
    /\ poll[t] = "none" => polls[t] = 0 /\ queuedFor[t] = 0
    /\ poll[t] = "none" <=> sched[t] = "none"
    /\ poll[t] \in Active /\ sched[t] \in Started => polls[t] = queuedFor[t] + waited[t]
    /\ poll[t] \in Active /\ sched[t] \in Ended =>
          /\ polls[t] <= queuedFor[t] + waited[t] + 2
          /\ polls[t] = queuedFor[t] + waited[t] + 1 /\ poll[t] = "sleeping" => Settled(t)
          /\ polls[t] = queuedFor[t] + waited[t] + 2 =>
                /\ Settled(t) /\ poll[t] # "sleeping"
                /\ poll[t] = "not_completed" => status[t] # "completed"
                /\ poll[t] = "not_failed" => status[t] = "timed_out"

TaskInv(t) ==
    /\ Backed(status[t], t) /\ Backed(poll[t], t) /\ Backed(verdict[t], t)
    /\ verdict[t] = "completed" => told[t] = "result"
    /\ verdict[t] = "gave_up" => queuedFor[t] >= PollLimit - Timeout - 1
    /\ Fresh(t) /\ Written(t) /\ OnTime(t)

\* The scheduler's queue holds queued tasks, each once.
QueueInv ==
    /\ \A i \in 1 .. Len(schedQueue) : sched[schedQueue[i]] = "queued"
    /\ \A i, j \in 1 .. Len(schedQueue) : schedQueue[i] = schedQueue[j] => i = j

Inv == TypeOK /\ QueueInv /\ \A t \in Tasks : TaskInv(t)

-----------------------------------------------------------------------------
(* A step of one task leaves the others alone. *)

\* A task none of whose values change keeps its invariant.
LEMMA Untouched ==
  ASSUME NEW u \in Tasks, TaskInv(u),
         status'[u] = status[u], result'[u] = result[u],
         sched'[u] = sched[u], exec'[u] = exec[u],
         waited'[u] = waited[u], queuedFor'[u] = queuedFor[u],
         poll'[u] = poll[u], polls'[u] = polls[u],
         verdict'[u] = verdict[u], told'[u] = told[u]
  PROVE  TaskInv(u)'
BY DEF TaskInv, Backed, Fresh, Written, OnTime, Settled, Refused, Looking

\* While the scheduler's queue is as it was and the tasks in it still wait,
\* the queue invariant holds.
LEMMA QueueKept ==
  ASSUME TypeOK, QueueInv, UNCHANGED schedQueue, NEW t \in Tasks,
         sched[t] # "queued", \A u \in Tasks \ {t} : sched'[u] = sched[u]
  PROVE  QueueInv'
<1>1. \A i \in 1 .. Len(schedQueue) : schedQueue[i] \in Tasks
  BY DEF TypeOK
<1>2. \A i \in 1 .. Len(schedQueue) : schedQueue[i] # t
  BY DEF QueueInv
<1> QED BY <1>1, <1>2 DEF QueueInv

\* The scheduler's queue and every task's phase as they were.
LEMMA QueueSame ==
  ASSUME QueueInv, UNCHANGED <<sched, schedQueue>>
  PROVE  QueueInv'
BY DEF QueueInv

\* Nothing has been submitted yet.
LEMMA InvInitially == Init => Inv
<1> SUFFICES ASSUME Init PROVE Inv
  OBVIOUS
<1> USE SubagentAssumption
<1>1. TypeOK
  <2>1. 0 \in 0 .. Timeout /\ 0 \in 0 .. PollLimit + 1 /\ <<>> \in Seq(Tasks)
    OBVIOUS
  <2> QED BY <2>1 DEF Init, TypeOK, Statuses, Verdicts, Errors, Terminal, SchedBusy, SchedOver, ExecBusy, Looking
<1>2. QueueInv
  BY DEF Init, QueueInv
<1>3. \A t \in Tasks : TaskInv(t)
  BY DEF Init, TaskInv, Backed, Fresh, Written, OnTime, Settled, Refused, Looking, Terminal, Active, Started, Ended
<1> QED BY <1>1, <1>2, <1>3 DEF Inv

\* The execution is handed to the pool.
LEMMA SubmitExecutionKeeps ==
  ASSUME Inv, NEW t \in Tasks, SubmitExecution(t)
  PROVE  Inv'
<1> USE SubagentAssumption DEF SubmitExecution, Set, resultVars, schedVars, execVars, timeVars, pollVars
<1>1. TypeOK'
  <2>1. /\ execQueue' \in Seq(Tasks)
        /\ sched' \in [Tasks -> SchedBusy \cup {"none", "queued"} \cup SchedOver]
        /\ exec' \in [Tasks -> ExecBusy \cup {"none", "queued", "done", "cancelled"}]
    BY DEF Inv, TypeOK, SchedBusy
  <2> QED BY <2>1 DEF Inv, TypeOK
<1>2. QueueInv'
  BY QueueKept DEF Inv, TypeOK
<1>3. TaskInv(t)'
  <2>1. TaskInv(t) /\ TypeOK
    BY DEF Inv
  <2> QED BY <2>1 DEF TypeOK, TaskInv, Backed, Fresh, Written, OnTime, Settled, Refused, Looking,
                      Terminal, Active, Started, Ended, Statuses, Verdicts, Errors
<1>4. \A u \in Tasks \ {t} : TaskInv(u)'
  BY Untouched DEF Inv, TypeOK
<1> QED BY <1>1, <1>2, <1>3, <1>4 DEF Inv

\* The scheduler collects the finished execution.
LEMMA CollectKeeps ==
  ASSUME Inv, NEW t \in Tasks, Collect(t)
  PROVE  Inv'
<1> USE SubagentAssumption DEF Collect, Set, resultVars, schedVars, execVars, timeVars, pollVars
<1>1. TypeOK'
  BY DEF Inv, TypeOK, Statuses, Verdicts, Errors, Terminal, SchedBusy, SchedOver, ExecBusy, Looking
<1>2. QueueInv'
  BY QueueKept DEF Inv, TypeOK
<1>3. TaskInv(t)'
  <2>1. TaskInv(t) /\ TypeOK
    BY DEF Inv
  <2> QED BY <2>1 DEF TypeOK, TaskInv, Backed, Fresh, Written, OnTime, Settled, Refused, Looking,
                      Terminal, Active, Started, Ended, Statuses, Verdicts, Errors
<1>4. \A u \in Tasks \ {t} : TaskInv(u)'
  BY Untouched DEF Inv, TypeOK
<1> QED BY <1>1, <1>2, <1>3, <1>4 DEF Inv

\* The wait is over.
LEMMA WaitExpiresKeeps ==
  ASSUME Inv, NEW t \in Tasks, WaitExpires(t)
  PROVE  Inv'
<1> USE SubagentAssumption DEF WaitExpires, Set, resultVars, schedVars, execVars, timeVars, pollVars
<1>1. TypeOK'
  BY DEF Inv, TypeOK, Statuses, Verdicts, Errors, Terminal, SchedBusy, SchedOver, ExecBusy, Looking
<1>2. QueueInv'
  BY QueueKept DEF Inv, TypeOK
<1>3. TaskInv(t)'
  <2>1. TaskInv(t) /\ TypeOK
    BY DEF Inv
  <2> QED BY <2>1 DEF TypeOK, TaskInv, Backed, Fresh, Written, OnTime, Settled, Refused, Looking,
                      Terminal, Active, Started, Ended, Statuses, Verdicts, Errors
<1>4. \A u \in Tasks \ {t} : TaskInv(u)'
  BY Untouched DEF Inv, TypeOK
<1> QED BY <1>1, <1>2, <1>3, <1>4 DEF Inv

\* The timeout is recorded.
LEMMA MarkTimedOutKeeps ==
  ASSUME Inv, NEW t \in Tasks, MarkTimedOut(t)
  PROVE  Inv'
<1> USE SubagentAssumption DEF MarkTimedOut, Set, resultVars, schedVars, execVars, timeVars, pollVars
<1>1. TypeOK'
  BY DEF Inv, TypeOK, Statuses, Verdicts, Errors, Terminal, SchedBusy, SchedOver, ExecBusy, Looking
<1>2. QueueInv'
  BY QueueKept DEF Inv, TypeOK
<1>3. TaskInv(t)'
  <2>1. TaskInv(t) /\ TypeOK
    BY DEF Inv
  <2> QED BY <2>1 DEF TypeOK, TaskInv, Backed, Fresh, Written, OnTime, Settled, Refused, Looking,
                      Terminal, Active, Started, Ended, Statuses, Verdicts, Errors
<1>4. \A u \in Tasks \ {t} : TaskInv(u)'
  BY Untouched DEF Inv, TypeOK
<1> QED BY <1>1, <1>2, <1>3, <1>4 DEF Inv

\* The execution pool refuses the execution.
LEMMA SubmitFailsKeeps ==
  ASSUME Inv, NEW t \in Tasks, SubmitFails(t)
  PROVE  Inv'
<1> USE SubagentAssumption DEF SubmitFails, Set, resultVars, schedVars, execVars, timeVars, pollVars
<1>1. TypeOK'
  BY DEF Inv, TypeOK, Statuses, Verdicts, Errors, Terminal, SchedBusy, SchedOver, ExecBusy, Looking
<1>2. QueueInv'
  BY QueueKept DEF Inv, TypeOK
<1>3. TaskInv(t)'
  <2>1. TaskInv(t) /\ TypeOK
    BY DEF Inv
  <2> QED BY <2>1 DEF TypeOK, TaskInv, Backed, Fresh, Written, OnTime, Settled, Refused, Looking,
                      Terminal, Active, Started, Ended, Statuses, Verdicts, Errors
<1>4. \A u \in Tasks \ {t} : TaskInv(u)'
  BY Untouched DEF Inv, TypeOK
<1> QED BY <1>1, <1>2, <1>3, <1>4 DEF Inv

\* The error of the refusal is written.
LEMMA WriteRefusalKeeps ==
  ASSUME Inv, NEW t \in Tasks, WriteRefusal(t)
  PROVE  Inv'
<1> USE SubagentAssumption DEF WriteRefusal, Set, resultVars, schedVars, execVars, timeVars, pollVars
<1>1. TypeOK'
  BY DEF Inv, TypeOK, Statuses, Verdicts, Errors, Terminal, SchedBusy, SchedOver, ExecBusy, Looking
<1>2. QueueInv'
  BY QueueKept DEF Inv, TypeOK
<1>3. TaskInv(t)'
  <2>1. TaskInv(t) /\ TypeOK
    BY DEF Inv
  <2> QED BY <2>1 DEF TypeOK, TaskInv, Backed, Fresh, Written, OnTime, Settled, Refused, Looking,
                      Terminal, Active, Started, Ended, Statuses, Verdicts, Errors
<1>4. \A u \in Tasks \ {t} : TaskInv(u)'
  BY Untouched DEF Inv, TypeOK
<1> QED BY <1>1, <1>2, <1>3, <1>4 DEF Inv

\* The execution is cancelled if it has not begun.
LEMMA CancelExecutionKeeps ==
  ASSUME Inv, NEW t \in Tasks, CancelExecution(t)
  PROVE  Inv'
<1> USE SubagentAssumption DEF CancelExecution, Set, resultVars, schedVars, execVars, timeVars, pollVars
<1>1. TypeOK'
  BY DEF Inv, TypeOK, Statuses, Verdicts, Errors, Terminal, SchedBusy, SchedOver, ExecBusy, Looking
<1>2. QueueInv'
  BY QueueKept DEF Inv, TypeOK
<1>3. TaskInv(t)'
  <2>1. TaskInv(t) /\ TypeOK
    BY DEF Inv
  <2> QED BY <2>1 DEF TypeOK, TaskInv, Backed, Fresh, Written, OnTime, Settled, Refused, Looking,
                      Terminal, Active, Started, Ended, Statuses, Verdicts, Errors
<1>4. \A u \in Tasks \ {t} : TaskInv(u)'
  BY Untouched DEF Inv, TypeOK
<1> QED BY <1>1, <1>2, <1>3, <1>4 DEF Inv

\* The subagent has an answer.
LEMMA WriteResultKeeps ==
  ASSUME Inv, NEW t \in Tasks, WriteResult(t)
  PROVE  Inv'
<1> USE SubagentAssumption DEF WriteResult, Set, resultVars, schedVars, execVars, timeVars, pollVars
<1>1. TypeOK'
  BY DEF Inv, TypeOK, Statuses, Verdicts, Errors, Terminal, SchedBusy, SchedOver, ExecBusy, Looking
<1>2. QueueInv'
  BY QueueSame DEF Inv, TypeOK
<1>3. TaskInv(t)'
  <2>1. TaskInv(t) /\ TypeOK
    BY DEF Inv
  <2> QED BY <2>1 DEF TypeOK, TaskInv, Backed, Fresh, Written, OnTime, Settled, Refused, Looking,
                      Terminal, Active, Started, Ended, Statuses, Verdicts, Errors
<1>4. \A u \in Tasks \ {t} : TaskInv(u)'
  BY Untouched DEF Inv, TypeOK
<1> QED BY <1>1, <1>2, <1>3, <1>4 DEF Inv

\* The answer's status is written.
LEMMA CompleteKeeps ==
  ASSUME Inv, NEW t \in Tasks, Complete(t)
  PROVE  Inv'
<1> USE SubagentAssumption DEF Complete, Set, resultVars, schedVars, execVars, timeVars, pollVars
<1>1. TypeOK'
  BY DEF Inv, TypeOK, Statuses, Verdicts, Errors, Terminal, SchedBusy, SchedOver, ExecBusy, Looking
<1>2. QueueInv'
  BY QueueSame DEF Inv, TypeOK
<1>3. TaskInv(t)'
  <2>1. TaskInv(t) /\ TypeOK
    BY DEF Inv
  <2> QED BY <2>1 DEF TypeOK, TaskInv, Backed, Fresh, Written, OnTime, Settled, Refused, Looking,
                      Terminal, Active, Started, Ended, Statuses, Verdicts, Errors
<1>4. \A u \in Tasks \ {t} : TaskInv(u)'
  BY Untouched DEF Inv, TypeOK
<1> QED BY <1>1, <1>2, <1>3, <1>4 DEF Inv

\* The subagent raised.
LEMMA FailKeeps ==
  ASSUME Inv, NEW t \in Tasks, Fail(t)
  PROVE  Inv'
<1> USE SubagentAssumption DEF Fail, Set, resultVars, schedVars, execVars, timeVars, pollVars
<1>1. TypeOK'
  BY DEF Inv, TypeOK, Statuses, Verdicts, Errors, Terminal, SchedBusy, SchedOver, ExecBusy, Looking
<1>2. QueueInv'
  BY QueueSame DEF Inv, TypeOK
<1>3. TaskInv(t)'
  <2>1. TaskInv(t) /\ TypeOK
    BY DEF Inv
  <2> QED BY <2>1 DEF TypeOK, TaskInv, Backed, Fresh, Written, OnTime, Settled, Refused, Looking,
                      Terminal, Active, Started, Ended, Statuses, Verdicts, Errors
<1>4. \A u \in Tasks \ {t} : TaskInv(u)'
  BY Untouched DEF Inv, TypeOK
<1> QED BY <1>1, <1>2, <1>3, <1>4 DEF Inv

\* The error text is written.
LEMMA WriteErrorKeeps ==
  ASSUME Inv, NEW t \in Tasks, WriteError(t)
  PROVE  Inv'
<1> USE SubagentAssumption DEF WriteError, Set, resultVars, schedVars, execVars, timeVars, pollVars
<1>1. TypeOK'
  BY DEF Inv, TypeOK, Statuses, Verdicts, Errors, Terminal, SchedBusy, SchedOver, ExecBusy, Looking
<1>2. QueueInv'
  BY QueueSame DEF Inv, TypeOK
<1>3. TaskInv(t)'
  <2>1. TaskInv(t) /\ TypeOK
    BY DEF Inv
  <2> QED BY <2>1 DEF TypeOK, TaskInv, Backed, Fresh, Written, OnTime, Settled, Refused, Looking,
                      Terminal, Active, Started, Ended, Statuses, Verdicts, Errors
<1>4. \A u \in Tasks \ {t} : TaskInv(u)'
  BY Untouched DEF Inv, TypeOK
<1> QED BY <1>1, <1>2, <1>3, <1>4 DEF Inv

\* The poll loop looks at the status.
LEMMA CheckStatusKeeps ==
  ASSUME Inv, NEW t \in Tasks, CheckStatus(t)
  PROVE  Inv'
<1> USE SubagentAssumption DEF Set, resultVars, schedVars, execVars, timeVars, pollVars
<1>0. PICK v :
          /\ poll' = [poll EXCEPT ![t] = v]
          /\ \/ poll[t] = "checking" /\ status[t] = "completed" /\ v = "completed"
             \/ poll[t] = "checking" /\ status[t] # "completed" /\ v = "not_completed"
             \/ poll[t] = "not_completed" /\ status[t] = "failed" /\ v = "failed"
             \/ poll[t] = "not_completed" /\ status[t] # "failed" /\ v = "not_failed"
             \/ poll[t] = "not_failed" /\ status[t] = "timed_out" /\ v = "timed_out"
             \/ poll[t] = "not_failed" /\ status[t] # "timed_out" /\ v = "sleeping"
          /\ UNCHANGED <<resultVars, schedVars, execVars, timeVars, verdict, told>>
  <2> DEFINE v == IF status[t] = Wanted[poll[t]] THEN status[t] ELSE Otherwise[poll[t]]
  <2>1. /\ Wanted["checking"] = "completed" /\ Otherwise["checking"] = "not_completed"
        /\ Wanted["not_completed"] = "failed" /\ Otherwise["not_completed"] = "not_failed"
        /\ Wanted["not_failed"] = "timed_out" /\ Otherwise["not_failed"] = "sleeping"
    BY DEF Wanted, Otherwise
  <2>2. /\ poll[t] \in Looking
        /\ poll' = [poll EXCEPT ![t] = v]
        /\ UNCHANGED <<resultVars, schedVars, execVars, timeVars, verdict, told>>
    BY DEF CheckStatus
  <2> QED BY <2>1, <2>2 DEF Looking
<1>1. TypeOK'
  BY <1>0 DEF Inv, TypeOK, Statuses, Verdicts, Errors, Terminal, SchedBusy, SchedOver, ExecBusy, Looking
<1>2. QueueInv'
  BY <1>0, QueueSame DEF Inv, TypeOK
<1>3. TaskInv(t)'
  <2>1. TaskInv(t) /\ TypeOK
    BY DEF Inv
  <2> QED BY <1>0, <2>1 DEF TypeOK, TaskInv, Backed, Fresh, Written, OnTime, Settled, Refused, Looking,
                      Terminal, Active, Started, Ended, Statuses, Verdicts, Errors
<1>4. \A u \in Tasks \ {t} : TaskInv(u)'
  BY <1>0, Untouched DEF Inv, TypeOK
<1> QED BY <1>1, <1>2, <1>3, <1>4 DEF Inv

\* The poll loop reports.
LEMMA AnswerKeeps ==
  ASSUME Inv, NEW t \in Tasks, Answer(t)
  PROVE  Inv'
<1> USE SubagentAssumption DEF Answer, Set, resultVars, schedVars, execVars, timeVars, pollVars
<1>1. TypeOK'
  BY DEF Inv, TypeOK, Statuses, Verdicts, Errors, Terminal, SchedBusy, SchedOver, ExecBusy, Looking
<1>2. QueueInv'
  BY QueueSame DEF Inv, TypeOK
<1>3. TaskInv(t)'
  <2>1. TaskInv(t) /\ TypeOK
    BY DEF Inv
  <2> QED BY <2>1 DEF TypeOK, TaskInv, Backed, Fresh, Written, OnTime, Settled, Refused, Looking,
                      Terminal, Active, Started, Ended, Statuses, Verdicts, Errors
<1>4. \A u \in Tasks \ {t} : TaskInv(u)'
  BY Untouched DEF Inv, TypeOK
<1> QED BY <1>1, <1>2, <1>3, <1>4 DEF Inv

\* The poll loop goes round.
LEMMA PollAgainKeeps ==
  ASSUME Inv, NEW t \in Tasks, PollAgain(t)
  PROVE  Inv'
<1> USE SubagentAssumption DEF PollAgain, Set, resultVars, schedVars, execVars, timeVars, pollVars
<1>1. TypeOK'
  BY DEF Inv, TypeOK, Statuses, Verdicts, Errors, Terminal, SchedBusy, SchedOver, ExecBusy, Looking
<1>2. QueueInv'
  BY QueueSame DEF Inv, TypeOK
<1>3. TaskInv(t)'
  <2>1. TaskInv(t) /\ TypeOK
    BY DEF Inv
  <2> QED BY <2>1 DEF TypeOK, TaskInv, Backed, Fresh, Written, OnTime, Settled, Refused, Looking,
                      Terminal, Active, Started, Ended, Statuses, Verdicts, Errors
<1>4. \A u \in Tasks \ {t} : TaskInv(u)'
  BY Untouched DEF Inv, TypeOK
<1> QED BY <1>1, <1>2, <1>3, <1>4 DEF Inv

\* The polls are used up: all but the last were spent in a queue or in the
\* wait, and the wait is bounded by the timeout.
LEMMA GiveUpKeeps ==
  ASSUME Inv, NEW t \in Tasks, GiveUp(t)
  PROVE  Inv'
<1> USE SubagentAssumption DEF GiveUp, Set, resultVars, schedVars, execVars, timeVars, pollVars
<1>1. TypeOK'
  BY DEF Inv, TypeOK, Statuses, Verdicts, Errors, Terminal, SchedBusy, SchedOver, ExecBusy, Looking
<1>2. QueueInv'
  BY QueueSame DEF Inv, TypeOK
<1>3. TaskInv(t)'
  <2>1. TaskInv(t) /\ TypeOK
    BY DEF Inv
  <2>2. /\ polls[t] \in Nat /\ queuedFor[t] \in Nat /\ waited[t] \in Nat
        /\ waited[t] <= Timeout /\ polls[t] >= PollLimit + 1
    BY <2>1 DEF TypeOK
  <2>3. sched[t] # "none" /\ sched[t] \in Started \cup Ended
    BY <2>1 DEF TypeOK, TaskInv, OnTime, Started, Ended, SchedBusy, SchedOver
  <2>4. polls[t] <= queuedFor[t] + waited[t] + 2
    BY <2>1, <2>2, <2>3 DEF TaskInv, OnTime, Active
  <2>5. queuedFor[t] >= PollLimit - Timeout - 1
    BY <2>2, <2>4
  <2>6. /\ verdict'[t] = "gave_up" /\ poll'[t] = "answered"
        /\ UNCHANGED <<status, result, sched, exec, waited, queuedFor, polls>>
    BY <2>1 DEF TypeOK
  <2> QED BY <2>1, <2>5, <2>6 DEF TaskInv, Backed, Fresh, Written, OnTime, Settled, Refused, Looking, Terminal, Active
<1>4. \A u \in Tasks \ {t} : TaskInv(u)'
  BY Untouched DEF Inv, TypeOK
<1> QED BY <1>1, <1>2, <1>3, <1>4 DEF Inv

\* A task call submits its task.
LEMMA ExecuteAsyncKeeps ==
  ASSUME Inv, NEW t \in Tasks, ExecuteAsync(t)
  PROVE  Inv'
<1> USE SubagentAssumption DEF ExecuteAsync, Set, resultVars, schedVars, execVars, timeVars, pollVars
<1>0. schedQueue \in Seq(Tasks) /\ sched \in [Tasks -> SchedBusy \cup {"none", "queued"} \cup SchedOver]
  BY DEF Inv, TypeOK
<1>1. TypeOK'
  <2>1. schedQueue' \in Seq(Tasks)
    BY <1>0
  <2> QED BY <2>1 DEF Inv, TypeOK, Statuses, Terminal, SchedBusy, SchedOver, Looking
<1>2. QueueInv'
  <2>2. \A i \in 1 .. Len(schedQueue) : schedQueue[i] \in Tasks /\ schedQueue[i] # t
    BY <1>0 DEF Inv, QueueInv
  <2>3. /\ Len(schedQueue') = Len(schedQueue) + 1
        /\ schedQueue'[Len(schedQueue) + 1] = t
        /\ \A i \in 1 .. Len(schedQueue) : schedQueue'[i] = schedQueue[i]
    BY <1>0
  <2>4. sched'[t] = "queued" /\ \A u \in Tasks \ {t} : sched'[u] = sched[u]
    BY <1>0
  <2> HIDE DEF ExecuteAsync
  <2> QED BY <1>0, <2>2, <2>3, <2>4 DEF Inv, QueueInv
<1>3. TaskInv(t)'
  <2>1. TaskInv(t) /\ TypeOK
    BY DEF Inv
  <2> QED BY <2>1 DEF TypeOK, TaskInv, Backed, Fresh, Written, OnTime, Settled, Refused, Looking,
                      Terminal, Active, Started, Ended, Statuses, Verdicts, Errors
<1>4. \A u \in Tasks \ {t} : TaskInv(u)'
  BY Untouched DEF Inv, TypeOK
<1> QED BY <1>1, <1>2, <1>3, <1>4 DEF Inv

\* A scheduler worker takes the head of the queue, a task that is queued.
LEMMA StartTaskKeeps ==
  ASSUME Inv, StartTask
  PROVE  Inv'
<1> USE SubagentAssumption DEF resultVars, schedVars, execVars, timeVars, pollVars
<1>0. /\ schedQueue \in Seq(Tasks) /\ schedQueue # <<>>
      /\ Head(schedQueue) \in Tasks /\ Head(schedQueue) = schedQueue[1]
      /\ Tail(schedQueue) \in Seq(Tasks)
      /\ Len(Tail(schedQueue)) = Len(schedQueue) - 1
      /\ \A i \in 1 .. Len(schedQueue) - 1 : Tail(schedQueue)[i] = schedQueue[i + 1]
  BY DEF StartTask, SchedulerFree, Inv, TypeOK
<1>1. PICK h \in Tasks :
          /\ h = schedQueue[1] /\ sched[h] = "queued"
          /\ sched' = [sched EXCEPT ![h] = "started"]
          /\ status' = [status EXCEPT ![h] = "running"]
          /\ schedQueue' = Tail(schedQueue)
          /\ UNCHANGED <<result, error, execVars, timeVars, pollVars>>
  <2>1. sched[schedQueue[1]] = "queued"
    BY <1>0 DEF Inv, QueueInv
  <2> QED BY <1>0, <2>1 DEF StartTask, Set
<1>2. TypeOK'
  BY <1>0, <1>1 DEF Inv, TypeOK, Statuses, SchedBusy, SchedOver
<1>3. QueueInv'
  <2>1. \A i \in 1 .. Len(schedQueue) : i # 1 => schedQueue[i] # h /\ schedQueue[i] \in Tasks
    BY <1>0, <1>1 DEF Inv, QueueInv
  <2>2. \A u \in Tasks \ {h} : sched'[u] = sched[u]
    BY <1>1 DEF Inv, TypeOK
  <2> QED BY <1>0, <1>1, <2>1, <2>2 DEF Inv, QueueInv
<1>4. TaskInv(h)'
  <2>1. TaskInv(h) /\ TypeOK
    BY DEF Inv
  <2> QED BY <1>1, <2>1 DEF TypeOK, TaskInv, Backed, Fresh, Written, OnTime, Settled, Refused, Looking,
                      Terminal, Active, Started, Ended, Statuses, Verdicts, Errors
<1>5. \A u \in Tasks \ {h} : TaskInv(u)'
  BY <1>1, Untouched DEF Inv, TypeOK
<1> QED BY <1>2, <1>3, <1>4, <1>5 DEF Inv

\* An execution worker takes the head of its queue, cancelled or not.
LEMMA ExecuteKeeps ==
  ASSUME Inv, Execute
  PROVE  Inv'
<1> USE SubagentAssumption DEF resultVars, schedVars, execVars, timeVars, pollVars
<1>0. /\ execQueue \in Seq(Tasks) /\ execQueue # <<>>
      /\ Head(execQueue) \in Tasks /\ Tail(execQueue) \in Seq(Tasks)
  BY DEF Execute, ExecutorFree, Inv, TypeOK
<1>1. PICK h \in Tasks :
          /\ exec' = IF exec[h] = "queued" THEN [exec EXCEPT ![h] = "running"] ELSE exec
          /\ execQueue' = Tail(execQueue)
          /\ UNCHANGED <<resultVars, schedVars, timeVars, pollVars>>
  BY <1>0 DEF Execute, Set
<1>2. TypeOK'
  BY <1>0, <1>1 DEF Inv, TypeOK, ExecBusy
<1>3. QueueInv'
  BY <1>1, QueueSame DEF Inv
<1>4. TaskInv(h)'
  <2>1. TaskInv(h) /\ TypeOK
    BY DEF Inv
  <2> QED BY <1>1, <2>1 DEF TypeOK, TaskInv, Backed, Fresh, Written, OnTime, Settled, Refused, Looking,
                      Terminal, Active, Started, Ended, Statuses, Verdicts, Errors
<1>5. \A u \in Tasks \ {h} : TaskInv(u)'
  BY <1>1, Untouched DEF Inv, TypeOK
<1> QED BY <1>2, <1>3, <1>4, <1>5 DEF Inv

\* A poll interval passes: each task spends it in one place.
LEMMA TickKeeps ==
  ASSUME Inv, Tick
  PROVE  Inv'
<1> USE SubagentAssumption DEF resultVars, schedVars, execVars, timeVars
<1>1. ASSUME NEW t \in Tasks
      PROVE  /\ sched[t] \notin {"started", "expiring", "marked"}
             /\ sched[t] = "waiting" => waited[t] # Timeout
             /\ poll[t] \in {"none", "sleeping", "answered"}
             /\ poll[t] = "sleeping" => polls[t] <= PollLimit
             /\ TaskInv(t)
  BY DEF Tick, Quiet, Inv, TaskInv, OnTime
<1>2. TypeOK'
  <2>1. waited' \in [Tasks -> 0 .. Timeout]
    BY <1>1 DEF Tick, Inv, TypeOK
  <2>2. queuedFor' \in [Tasks -> Nat]
    BY <1>1 DEF Tick, Inv, TypeOK
  <2>3. polls' \in [Tasks -> 0 .. PollLimit + 1]
    BY <1>1 DEF Tick, Sleeping, Inv, TypeOK
  <2>4. poll' \in [Tasks -> Looking \cup {"none", "sleeping", "awake", "answered"} \cup Terminal]
    BY DEF Tick, Inv, TypeOK
  <2> QED BY <2>1, <2>2, <2>3, <2>4 DEF Tick, Inv, TypeOK
<1>3. QueueInv'
  BY QueueSame DEF Tick, Inv
<1>4. ASSUME NEW t \in Tasks PROVE TaskInv(t)'
  <2>1. /\ waited[t] \in Nat /\ queuedFor[t] \in Nat /\ polls[t] \in Nat
        /\ sched[t] \in SchedBusy \cup {"none", "queued"} \cup SchedOver
    BY DEF Inv, TypeOK
  <2>2. /\ waited'[t] = IF sched[t] = "waiting" THEN waited[t] + 1 ELSE waited[t]
        /\ queuedFor'[t] = IF sched[t] = "queued" THEN queuedFor[t] + 1 ELSE queuedFor[t]
        /\ polls'[t] = IF poll[t] = "sleeping" THEN polls[t] + 1 ELSE polls[t]
        /\ poll'[t] = IF poll[t] = "sleeping" THEN "awake" ELSE poll[t]
        /\ UNCHANGED <<status, result, error, sched, exec, verdict, told>>
    BY DEF Tick, Sleeping
  <2>3. Backed(poll'[t], t)
    BY <1>1, <2>2 DEF TaskInv, Backed
  <2>4. Fresh(t)' /\ Written(t)'
    BY <1>1, <2>2 DEF TaskInv, Fresh, Written, Settled, Refused
  <2>5. OnTime(t)'
    <3>1. CASE poll[t] = "sleeping" /\ sched[t] \in Started
      BY <1>1, <2>1, <2>2, <3>1 DEF TaskInv, OnTime, Settled, Refused, Looking, Active, Terminal, Started, Ended
    <3>2. CASE poll[t] = "sleeping" /\ sched[t] \in Ended
      BY <1>1, <2>1, <2>2, <3>2 DEF TaskInv, OnTime, Settled, Refused, Looking, Active, Terminal, Started, Ended
    <3>3. CASE poll[t] # "sleeping"
      BY <1>1, <2>1, <2>2, <3>3 DEF TaskInv, OnTime, Settled, Refused, Looking, Active, Terminal, Started, Ended
    <3> QED BY <1>1, <2>1, <3>1, <3>2, <3>3 DEF TaskInv, OnTime, Started, Ended, SchedBusy, SchedOver
  <2>6. verdict'[t] = "gave_up" => queuedFor'[t] >= PollLimit - Timeout - 1
    BY <1>1, <2>1, <2>2 DEF TaskInv
  <2> QED BY <1>1, <2>2, <2>3, <2>4, <2>5, <2>6 DEF TaskInv, Backed
<1> QED BY <1>2, <1>3, <1>4 DEF Inv

\* The invariant is inductive: every thread's step and every tick keep it.
LEMMA InvInductive == Inv /\ [Next]_vars => Inv'
<1> SUFFICES ASSUME Inv, [Next]_vars PROVE Inv'
  OBVIOUS
<1>1. CASE SchedulerNext
  BY <1>1, StartTaskKeeps, SubmitExecutionKeeps, CollectKeeps, WaitExpiresKeeps,
     MarkTimedOutKeeps, CancelExecutionKeeps, SubmitFailsKeeps, WriteRefusalKeeps DEF SchedulerNext
<1>2. CASE ExecutorNext \/ SubagentEnds
  BY <1>2, ExecuteKeeps, WriteResultKeeps, CompleteKeeps, FailKeeps, WriteErrorKeeps
  DEF ExecutorNext, SubagentEnds
<1>3. CASE PollNext
  BY <1>3, CheckStatusKeeps, AnswerKeeps, PollAgainKeeps, GiveUpKeeps DEF PollNext
<1>4. CASE UNCHANGED vars
  <2>1. /\ TypeOK' /\ QueueInv'
    BY <1>4, QueueSame DEF Inv, TypeOK, vars, resultVars, schedVars, execVars, timeVars, pollVars
  <2>2. \A u \in Tasks : TaskInv(u)'
    BY <1>4, Untouched DEF Inv, vars, resultVars, schedVars, execVars, timeVars, pollVars
  <2> QED BY <2>1, <2>2 DEF Inv
<1> QED BY <1>1, <1>2, <1>3, <1>4, ExecuteAsyncKeeps, TickKeeps DEF Next

-----------------------------------------------------------------------------
(* The theorems. *)

\* What the task tool tells the agent is what happened: a success carries the
\* answer of an execution that ended, a failure and a timeout are real.
THEOREM VerdictsAreTrue == Spec => []VerdictIsTrue
<1>1. Inv => VerdictIsTrue
  BY DEF Inv, TypeOK, TaskInv, Backed, Refused, VerdictIsTrue
<1> QED BY <1>1, InvInitially, InvInductive, PTL DEF Spec

\* The poll loop gives up only on a task that waited for a scheduler worker
\* for the whole margin between the timeout and the polling limit.
THEOREM GivesUpAfterMargin == Spec => []GivesUpOnlyOnQueued
<1>1. Inv => GivesUpOnlyOnQueued
  BY DEF Inv, TaskInv, GivesUpOnlyOnQueued
<1> QED BY <1>1, InvInitially, InvInductive, PTL DEF Spec

\* A final status is final but for the timeout of the same task.
THEOREM FinalStatusStays == Spec => FinalUnlessExpired
<1> DEFINE Stays == \A t \in Tasks :
             status[t] \in Terminal /\ status'[t] # status[t]
             => sched'[t] \in {"marked", "expired"}
<1>1. ASSUME Inv, Next, NEW u \in Tasks, status[u] \in Terminal, status'[u] # status[u]
      PROVE  sched'[u] \in {"marked", "expired"}
  <2> USE DEF resultVars, schedVars, execVars, timeVars, pollVars, Set
  <2>1. TypeOK /\ TaskInv(u) /\ QueueInv
    BY <1>1 DEF Inv
  <2>2. CASE \E t \in Tasks : ExecuteAsync(t)
    BY <1>1, <2>1, <2>2 DEF ExecuteAsync, TypeOK, TaskInv, Fresh
  <2>3. CASE StartTask
    <3>1. Head(schedQueue) \in Tasks /\ sched[Head(schedQueue)] = "queued"
      BY <2>1, <2>3 DEF StartTask, SchedulerFree, TypeOK, QueueInv
    <3> QED BY <1>1, <2>1, <2>3, <3>1 DEF StartTask, TypeOK, TaskInv, Fresh
  <2>4. CASE \E t \in Tasks : MarkTimedOut(t)
    BY <1>1, <2>1, <2>4 DEF MarkTimedOut, TypeOK
  <2>5. CASE \E t \in Tasks : Complete(t) \/ Fail(t)
    BY <1>1, <2>1, <2>5 DEF Complete, Fail, TypeOK, TaskInv, Backed, Written, Refused, Terminal
  <2>7. CASE \E t \in Tasks : SubmitFails(t)
    BY <1>1, <2>1, <2>7 DEF SubmitFails, TypeOK, TaskInv, Fresh
  <2>6. CASE UNCHANGED status
    BY <1>1, <2>6
  <2> QED
    BY <1>1, <2>2, <2>3, <2>4, <2>5, <2>6, <2>7
    DEF Next, SchedulerNext, ExecutorNext, SubagentEnds, PollNext, Tick, SubmitExecution,
        Collect, WaitExpires, CancelExecution, WriteRefusal, Execute, WriteResult, WriteError,
        CheckStatus, Answer, PollAgain, GiveUp
<1>2. Inv /\ [Next]_vars => [Stays]_vars
  BY <1>1
<1> QED BY <1>2, InvInitially, InvInductive, PTL DEF Spec, FinalUnlessExpired

\* Polls, queues and pools stay within their bounds, and every variable within
\* its type.
THEOREM SafelyTyped == Spec => []TypeOK
<1>1. Inv => TypeOK
  BY DEF Inv
<1> QED BY <1>1, InvInitially, InvInductive, PTL DEF Spec
=============================================================================

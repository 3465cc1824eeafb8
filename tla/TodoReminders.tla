---------------------------- MODULE TodoReminders ----------------------------
(***************************************************************************)
(* agents/middlewares/todo_middleware.py: the reminders of one middleware  *)
(* object, which serves the runs of many threads.                          *)
(*                                                                         *)
(* A run that wants to finish with open todos is sent back to the model,   *)
(* and its next request carries a reminder.  Between the two it is kept    *)
(* under the key (thread, run), and the keys are shared state: a run that  *)
(* starts clears the others of its thread, and the least recently used go  *)
(* when there are too many.  Left out is the message before_model adds     *)
(* when write_todos has left the context, a function of the messages.      *)
(*                                                                         *)
(* Each use of the maps under _lock is a step.  api/runs.py gives runs no  *)
(* run_id in their context, and then all runs of a thread have one key.    *)
(***************************************************************************)
EXTENDS FiniteSets, Removal

CONSTANTS Runs, ThreadOf, RunIdOf,   \* thread_id and run_id of each run's context
          MaxReminders,           \* _MAX_COMPLETION_REMINDERS
          MaxKeys,                \* _MAX_COMPLETION_REMINDER_KEYS
          MaxJumps                \* bound: how often a run is sent back

ASSUME TodoAssumption == MaxReminders \in Nat /\ MaxKeys \in Nat \ {0} /\ MaxJumps \in Nat

VARIABLES pending,  \* _pending_completion_reminders: how many
          counts,   \* _completion_reminder_counts
          touched,  \* the keys of _completion_reminder_touch_order, oldest first
          runs,     \* per run: where it is, and its todos
          jumps,    \* history: how often a run was sent back to the model
          nudges,   \* history: how many reminders its requests carried
          robbed    \* history: how often another run dropped its key

todoVars == <<pending, counts, touched, runs, jumps, nudges, robbed>>

Key(r) == <<ThreadOf[r], RunIdOf[r]>>
Keys == {Key(r) : r \in Runs}

Stages == {"new", "loop", "model", "counted", "over"}
Todos == {"open", "completed"}   \* an empty list counts as completed
Live(r) == runs[r].phase \notin {"new", "over"}

\* _completion_reminder_keys_locked
Known == {k \in Keys : pending[k] > 0 \/ counts[k] > 0 \/ \E i \in DOMAIN touched : touched[i] = k}

TodoTypeOK ==
    /\ pending \in [Keys -> Nat] /\ counts \in [Keys -> Nat]
    /\ touched \in Seq(Keys) /\ \A i, j \in DOMAIN touched : touched[i] = touched[j] => i = j
    /\ Cardinality(Known) <= MaxKeys
    /\ runs \in [Runs -> [phase : Stages, todos : Todos]]
    /\ jumps \in [Runs -> 0 .. MaxJumps] /\ nudges \in [Runs -> Nat] /\ robbed \in [Runs -> Nat]

TodoInit ==
    /\ pending = [k \in Keys |-> 0] /\ counts = pending /\ touched = <<>>
    /\ runs = [r \in Runs |-> [phase |-> "new", todos |-> "completed"]]
    /\ jumps = [r \in Runs |-> 0] /\ nudges = jumps /\ robbed = jumps
-----------------------------------------------------------------------------
(* The maps. *)

Touched(k) == Append(Without(touched, {k}), k)
Zero(f, K) == [k \in Keys |-> IF k \in K THEN 0 ELSE f[k]]

\* The live runs other than r whose key is in K.
Robs(r, K) ==
    LET victims == {o \in Runs \ {r} : Live(o) /\ Key(o) \in K}
    IN robbed' = [o \in Runs |-> IF o \in victims THEN robbed[o] + 1 ELSE robbed[o]]

\* _drop_completion_reminder_key_locked for the keys K, by run r.
Drop(r, K) ==
    /\ pending' = Zero(pending, K) /\ counts' = Zero(counts, K)
    /\ touched' = Without(touched, K)
    /\ Robs(r, K)

\* The keys a run clears when it starts: of its thread, not its own.
Foreign(r) == {k \in Keys : k[1] = ThreadOf[r] /\ k # Key(r)}

\* _prune_completion_reminder_state_locked, when r has touched its key.
Pruned(r) ==
    LET others   == Without(touched, {Key(r)})
        overflow == Cardinality(Known \cup {Key(r)}) - MaxKeys
    IN {others[i] : i \in 1 .. overflow}

\* _queue_completion_reminder
Queue(r) ==
    LET k == Key(r)  out == Pruned(r) IN
    /\ pending' = [Zero(pending, out) EXCEPT ![k] = @ + 1]
    /\ counts' = [Zero(counts, out) EXCEPT ![k] = @ + 1]
    /\ touched' = Without(Touched(k), out)
    /\ Robs(r, out)
-----------------------------------------------------------------------------
(* The hooks. *)

Goes(r, phase) == runs' = [runs EXCEPT ![r].phase = phase]

\* before_agent; the todos are those of the thread.
BeforeAgent(r) ==
    /\ runs[r].phase = "new"
    /\ \E todos \in Todos : runs' = [runs EXCEPT ![r] = [phase |-> "loop", todos |-> todos]]
    /\ Drop(r, Foreign(r))
    /\ UNCHANGED <<jumps, nudges>>

\* Mutant: the reminders are read and not taken.
DrainKeeping(r) == pending' = pending

\* The pending reminders go into one request.
Drained(r) == pending' = [pending EXCEPT ![Key(r)] = 0]

\* wrap_model_call, up to the call.
Request(r) ==
    /\ runs[r].phase = "loop"
    /\ nudges' = [nudges EXCEPT ![r] = @ + pending[Key(r)]]
    /\ Drained(r)
    /\ touched' = IF pending[Key(r)] > 0 \/ counts[Key(r)] > 0 THEN Touched(Key(r)) ELSE touched
    /\ Goes(r, "model")
    /\ UNCHANGED <<counts, jumps, robbed>>

\* An answer with tool calls, which are executed; write_todos sets the list.
Works(r) ==
    /\ runs[r].phase = "model"
    /\ \E todos \in Todos :
          runs' = [runs EXCEPT ![r] = [phase |-> "loop", todos |-> todos]]
    /\ UNCHANGED <<pending, counts, touched, jumps, nudges, robbed>>

\* after_model: a clean final answer with open todos is below the cap,
BelowCap(r) ==
    /\ runs[r].phase = "model" /\ runs[r].todos = "open" /\ jumps[r] < MaxJumps
    /\ counts[Key(r)] < MaxReminders
    /\ Goes(r, "counted")
    /\ UNCHANGED <<pending, counts, touched, jumps, nudges, robbed>>

\* and goes back to the model with a reminder, whatever others have counted since.
SendsBack(r) ==
    /\ runs[r].phase = "counted" /\ jumps[r] < MaxJumps
    /\ Queue(r)
    /\ Goes(r, "loop")
    /\ jumps' = [jumps EXCEPT ![r] = @ + 1]
    /\ UNCHANGED nudges

\* after_agent, when a final answer is let through: nothing is open, the cap is
\* reached, or the answer has a malformed tool call.
AfterAgent(r) ==
    /\ runs[r].phase = "model"
    /\ Drop(r, {Key(r)})
    /\ Goes(r, "over")
    /\ UNCHANGED <<jumps, nudges>>

\* A run that fails or is cancelled runs no more hooks.
Abort(r) ==
    /\ Live(r)
    /\ Goes(r, "over")
    /\ UNCHANGED <<pending, counts, touched, jumps, nudges, robbed>>

TodoNext ==
    \E r \in Runs :
        \/ BeforeAgent(r) \/ Request(r) \/ Works(r)
        \/ BelowCap(r) \/ SendsBack(r) \/ AfterAgent(r) \/ Abort(r)

TodoSpec == TodoInit /\ [][TodoNext]_todoVars
-----------------------------------------------------------------------------
(* Properties. *)

\* A run is sent back at most MaxReminders times, but for the counts other runs
\* cleared; and each time its next request carries the reminder, unless other
\* runs dropped its key or share it.  Nobody is reminded of another run's list.
JumpsRemind ==
    \A r \in Runs :
        /\ jumps[r] <= MaxReminders * (1 + robbed[r])
        /\ (\A o \in Runs \ {r} : Key(o) # Key(r)) =>
               /\ nudges[r] <= jumps[r]
               /\ robbed[r] = 0 /\ Live(r) => jumps[r] = nudges[r] + pending[Key(r)]
=============================================================================

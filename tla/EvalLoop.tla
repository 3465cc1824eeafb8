------------------------------ MODULE EvalLoop ------------------------------
(***************************************************************************)
(* skill-creator/scripts: run_loop.py, run_eval.py, improve_description.py.*)
(* A skill's description is evaluated: for each query some processes ask   *)
(* claude, each with a command file of its own that carries the description*)
(* in the one .claude/commands of the project, and a query counts as       *)
(* triggered when claude goes for that file.  What the training queries    *)
(* show is given to a model that writes a better description; the held out *)
(* ones choose the best.                                                   *)
(*                                                                         *)
(* claude is external: it sees every command file that is there, all of    *)
(* one skill, and goes for one of them or for none.                        *)
(***************************************************************************)
EXTENDS Integers, Sequences, FiniteSets

CONSTANTS Queries, ShouldTrigger,  \* eval_set
          Holdout,                 \* per cent
          RunsPerQuery, Workers,
          MaxIterations

ASSUME EvalAssumption ==
    /\ IsFiniteSet(Queries) /\ ShouldTrigger \subseteq Queries /\ Holdout \in 0 .. 100
    /\ RunsPerQuery \in Nat \ {0} /\ Workers \in Nat \ {0} /\ MaxIterations \in Nat \ {0}

VARIABLES training,   \* train_set
          stage,      \* of run_loop: "evaluate", "improve", or how it ended
          scores,     \* what passed in each iteration; history: what deserved to,
                      \* by what claude went for, and the queries in doubt
          tries,      \* run_single_query of each query and run
          doubted,    \* history: the tries that were not alone, or not heard
          commands,   \* the command files
          orphaned    \* history: the files that killed workers left behind

evalVars == <<training, stage, scores, tries, doubted, commands, orphaned>>

Probes == Queries \X (1 .. RunsPerQuery)
NoCommand == <<"none">>
Left == <<"left">>  \* a command file that no query owns any more
Idling == [at |-> "waiting", chose |-> NoCommand, result |-> FALSE]
Ended == {"all_passed", "max_iterations", "error"}
Testing == Queries \ training
UnderWay == {p \in Probes : tries[p].at \in {"running", "answered"}}

EvalTypeOK ==
    /\ training \subseteq Queries
    /\ stage \in {"evaluate", "improve"} \cup Ended
    /\ scores \in Seq([passed : SUBSET Queries, deserved : SUBSET Queries, doubted : SUBSET Queries])
    /\ Len(scores) <= MaxIterations
    /\ \A p \in Probes :
          /\ tries[p].at \in {"waiting", "running", "answered", "done"}
          /\ tries[p].chose \in Probes \cup {NoCommand, Left}
          /\ tries[p].result \in BOOLEAN
    /\ Cardinality(UnderWay) <= Workers /\ doubted \subseteq Probes
    /\ orphaned \subseteq {Left} /\ commands \subseteq Probes \cup {Left}

\* split_eval_set: how many of a group of n are held out.
HeldOut(n) ==
    LET share == (n * Holdout) \div 100  least == IF share < 1 THEN 1 ELSE share IN
    IF n < least THEN n ELSE least

\* The groups are shuffled and each is split.
Splits ==
    {train \in SUBSET Queries :
        \A group \in {ShouldTrigger, Queries \ ShouldTrigger} :
            Cardinality(group \ train) = HeldOut(Cardinality(group))}

\* An earlier evaluation may have left a command file.
EvalInit ==
    /\ training \in IF Holdout > 0 THEN Splits ELSE {Queries}
    /\ stage = "evaluate" /\ scores = <<>>
    /\ tries = [p \in Probes |-> Idling] /\ doubted = {}
    /\ orphaned \in SUBSET {Left} /\ commands = orphaned
-----------------------------------------------------------------------------
(* run_eval: a pool of processes. *)

\* run_single_query writes its command file and starts claude,
StartQuery(p) ==
    /\ stage = "evaluate" /\ tries[p].at = "waiting" /\ Cardinality(UnderWay) < Workers
    /\ tries' = [tries EXCEPT ![p].at = "running"]
    /\ commands' = commands \cup {p}
    /\ doubted' = IF UnderWay = {} /\ orphaned = {} THEN doubted
                  ELSE doubted \cup {p} \cup {o \in Probes : tries[o].at = "running"}
    /\ UNCHANGED <<training, stage, scores, orphaned>>

\* which reads what commands there are. Its first tool decides what it goes for:
\* one of them; or none, if it is another tool, or reads another file, or if there
\* is no tool. claude is killed before it does more.
Answer(p) ==
    /\ tries[p].at = "running"
    /\ \E c \in commands \cup {NoCommand} :
          tries' = [tries EXCEPT ![p].at = "answered", ![p].chose = c]
    /\ UNCHANGED <<training, stage, scores, doubted, commands, orphaned>>

\* clean_name in what claude goes for
Triggered(p, c) == c = p

\* What it says is read; or not, when it takes too long or ends before its last
\* lines are read.
Reads(p, command) ==
    /\ tries[p].at = "answered"
    /\ \E lost \in BOOLEAN :
          /\ tries' = [tries EXCEPT ![p].at = "done",
                                   ![p].result = ~lost /\ Triggered(p, tries[p].chose)]
          /\ doubted' = IF lost THEN doubted \cup {p} ELSE doubted
    /\ commands' = commands \ command
    /\ UNCHANGED <<training, stage, scores, orphaned>>

\* Mutant: the command file is removed only if claude went for it.
FinishTriggered(p) == Reads(p, {p} \cap {tries[p].chose})

\* The command file is removed, whatever has been read.
FinishQuery(p) == Reads(p, {p})

\* A worker is killed: the pool is broken, and whatever is not done fails; if it
\* breaks while queries are still submitted, so does run_loop.
WorkerKilled(p) ==
    LET undone == {o \in Probes : tries[o].at # "done"} IN
    /\ tries[p].at \in {"running", "answered"}
    /\ orphaned' = {Left} /\ commands' = {Left}
    /\ tries' = [o \in Probes |-> IF o \in undone THEN [tries[o] EXCEPT !.at = "done"] ELSE tries[o]]
    /\ doubted' = doubted \cup undone
    /\ \/ UNCHANGED stage
       \/ (\E o \in undone : tries[o].at = "waiting") /\ stage' = "error"
    /\ UNCHANGED <<training, scores>>

\* The results: trigger_threshold is one half.
Triggers(q) == {k \in 1 .. RunsPerQuery : tries[<<q, k>>].result}
Passes(q, triggers) == (2 * Cardinality(triggers) >= RunsPerQuery) <=> (q \in ShouldTrigger)

-----------------------------------------------------------------------------
(* run_loop *)

\* The runs in which claude went for the skill, heard or not, by whatever file.
Went(q) == {k \in 1 .. RunsPerQuery : tries[<<q, k>>].chose # NoCommand}

Evaluated ==
    LET passed == {q \in Queries : Passes(q, Triggers(q))} IN
    /\ stage = "evaluate" /\ \A p \in Probes : tries[p].at = "done"
    /\ scores' = Append(scores, [passed |-> passed,
                                 deserved |-> {q \in Queries : Passes(q, Went(q))},
                                 doubted |-> {p[1] : p \in doubted}])
    /\ stage' = IF training \subseteq passed THEN "all_passed"
                ELSE IF Len(scores) + 1 = MaxIterations THEN "max_iterations"
                ELSE "improve"
    /\ UNCHANGED <<training, tries, doubted, commands, orphaned>>

\* improve_description, with up to two calls of claude; it raises if one fails.
Improve ==
    /\ stage = "improve"
    /\ stage' \in {"evaluate", "error"}
    /\ tries' = [p \in Probes |-> Idling] /\ doubted' = {}
    /\ UNCHANGED <<training, scores, commands, orphaned>>

EvalNext ==
    \/ \E p \in Probes : StartQuery(p) \/ Answer(p) \/ FinishQuery(p) \/ WorkerKilled(p)
    \/ Evaluated \/ Improve

EvalSpec == EvalInit /\ [][EvalNext]_evalVars
-----------------------------------------------------------------------------
(* What run_loop returns. *)

Score(i) == Cardinality(scores[i].passed \cap (IF Testing = {} THEN training ELSE Testing))

\* max(history, key=...): the first of the best.
Best ==
    CHOOSE i \in DOMAIN scores :
        /\ \A j \in DOMAIN scores : Score(j) <= Score(i)
        /\ \A j \in 1 .. (i - 1) : Score(j) < Score(i)

\* In every iteration a query passes exactly if it deserves to by what claude went
\* for, unless it was asked while others were, beside a file that a killed worker
\* has left, or was not heard; and these make it only look as if claude had not
\* gone for the skill, so that no query that should trigger passes undeserved and
\* none that should not fails undeserved.
ScoresAreTrue ==
    \A i \in DOMAIN scores :
        /\ scores[i].passed \ scores[i].doubted = scores[i].deserved \ scores[i].doubted
        /\ scores[i].passed \cap ShouldTrigger \subseteq scores[i].deserved
        /\ scores[i].deserved \ ShouldTrigger \subseteq scores[i].passed

\* No description, where neither it nor the returned one is in doubt, deserved
\* better on what was held out than the one that is returned.
BestIsBest ==
    stage \in Ended \ {"error"} /\ Testing # {} =>
        \A i \in DOMAIN scores :
            scores[i].doubted \cup scores[Best].doubted \subseteq training =>
                Cardinality(scores[i].deserved \ training) <= Cardinality(scores[Best].deserved \ training)

\* What the evaluation of a skill's description reports is what claude went for,
\* through all iterations, however queries share the directory of commands.
EvaluationHolds == ScoresAreTrue /\ BestIsBest
=============================================================================

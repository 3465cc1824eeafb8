------------------------------- MODULE Swarm -------------------------------
(***************************************************************************)
(* A team of agents: swarm/team.py and mailbox.py over PostgreSQL, the     *)
(* teammate path of tools/builtins/task_tool.py (swarm/spawner.py, which   *)
(* nothing calls, takes the same steps), send_message_tool.py, the create  *)
(* and delete tools, InboxPollerMiddleware and the event stream of         *)
(* gateway/routers/swarm.py.                                               *)
(*                                                                         *)
(* Every statement commits by itself: between the insert of a member, the  *)
(* SELECT of the recipients and the INSERTs of a broadcast anything may    *)
(* happen.  A message is stamped by the clock of the database when its     *)
(* INSERT begins, seen when it has committed, and in `mail` in the order   *)
(* of the stamps; the stream compares them with the clock of the gateway,  *)
(* which may differ.  Deleting the team deletes members and messages, and  *)
(* an insert then fails on the foreign key.  Any statement may fail.  Two  *)
(* tasks may have one name.  The team is not made anew.  Nothing in src    *)
(* sets swarm_context, so that the product's own middleware never gets to  *)
(* poll_inbox; Poll is the operation as offered.                           *)
(***************************************************************************)
EXTENDS Integers, Sequences, FiniteSets

CONSTANTS Teammates,   \* names of teammates
          Spawns,      \* calls of the task tool
          MemberOf,    \* the name each of them is asked for
          Backfill,    \* messages a new event stream starts with (50)
          Behind,      \* how far the gateway's clock may be behind, in messages
          Ahead,       \* and how far ahead of the database's
          MaxMail,     \* bound: messages
          MaxFailures  \* bound: failing statements

Lead == "team-lead"
System == "system"

\* Teammates have names of their own: the tools do not check that.
ASSUME SwarmAssumption ==
    /\ Backfill \in Nat \ {0} /\ Behind \in Nat /\ Ahead \in Nat
    /\ MaxMail \in Nat /\ MaxFailures \in Nat
    /\ MemberOf \in [Spawns -> Teammates]
    /\ Lead \notin Teammates /\ System \notin Teammates

VARIABLES team,       \* the row of swarm_teams
          status,     \* status of each member, or absent
          mail,       \* swarm_messages
          task,       \* where _spawn_as_teammate is, in each call, and the row it inserts
          todo,       \* recipients its broadcast has still to insert
          failures,   \* faults so far
          stuck,      \* history: calls that ended in an exception and left their member
          overtaken   \* history: calls whose member another call of that name removed

VARIABLES viewer,     \* where an event stream of the gateway is
          shown,      \* messages it has sent
          again,      \* messages it has sent more than once
          since,      \* last_poll
          now,        \* the time taken before the query
          gaps        \* history: what can be missed or doubled, and is told apart

teamVars == <<team, status, mail>>
taskVars == <<task, todo, stuck, overtaken>>
viewVars == <<viewer, shown, again, since, now, gaps>>
swarmVars == <<teamVars, taskVars, failures, viewVars>>

Agents == Teammates \cup {Lead}
Kinds == {"joined", "completed", "failed", "report", "chat"}
Mail == [from : Agents \cup {System}, to : Agents, kind : Kinds,
         row : {"inserted", "there", "gone"}, read : BOOLEAN]
Joined == {"join", "joining", "run", "end", "ending", "report", "remove"}
TaskPoints == Joined \cup {"no", "upsert", "over"}
Ids == 1 .. MaxMail
TaskStates == [at : TaskPoints, outcome : {"none", "completed", "failed"}, row : Ids \cup {0}]
Gaps == {"old", "start", "late", "ahead", "twice"}

SwarmTypeOK ==
    /\ team \in {"none", "row", "ready", "deleted"}
    /\ status \in [Agents -> {"absent", "active", "running", "removed"}]
    /\ mail \in Seq(Mail) /\ Len(mail) <= MaxMail
    /\ task \in [Spawns -> TaskStates]
    /\ todo \in [Spawns -> SUBSET Agents]
    /\ failures \in 0 .. MaxFailures /\ stuck \subseteq Spawns /\ overtaken \subseteq Spawns
    /\ viewer \in {"off", "start", "poll", "check", "query", "advance", "over"}
    /\ shown \subseteq Ids /\ again \subseteq Ids
    /\ since \in 0 .. MaxMail /\ now \in 0 .. MaxMail
    /\ gaps \in [Gaps -> SUBSET Ids]

SwarmInit ==
    /\ team = "none" /\ status = [a \in Agents |-> "absent"] /\ mail = <<>>
    /\ task = [c \in Spawns |-> [at |-> "no", outcome |-> "none", row |-> 0]]
    /\ todo = [c \in Spawns |-> {}] /\ failures = 0 /\ stuck = {} /\ overtaken = {}
    /\ viewer = "off" /\ shown = {} /\ again = {} /\ since = 0 /\ now = 0
    /\ gaps = [g \in Gaps |-> {}]

-----------------------------------------------------------------------------
(* The rows. *)

Exists == team \in {"row", "ready"}
Fail == failures < MaxFailures /\ failures' = failures + 1

\* created_at is the time at which the statement, its own transaction, began.
BeginInsert(from, to, kind) ==
    /\ Exists /\ Len(mail) < MaxMail
    /\ mail' = Append(mail, [from |-> from, to |-> to, kind |-> kind,
                             row |-> "inserted", read |-> FALSE])

SetRow(i, row) == mail' = [mail EXCEPT ![i].row = row]

\* The foreign key is checked as the statement ends.
Commit(i) == Exists /\ SetRow(i, "there")

\* An insert whose connection is lost may have committed.
RollBack(i) ==
    \/ Fail /\ (SetRow(i, "gone") \/ Commit(i))
    \/ ~Exists /\ SetRow(i, "gone") /\ UNCHANGED failures

There == {i \in DOMAIN mail : mail[i].row = "there"}
Begun == {i \in DOMAIN mail : mail[i].row = "inserted"}

\* SELECT name ... WHERE status IN ('active', 'running') AND name != from.
Active == {a \in Agents : status[a] \in {"active", "running"}}
Recipients(from) == Active \ {from}

\* team_create: the team, then its lead; in between it may stop.
CreateTeam ==
    /\ team = "none" /\ team' = "row"
    /\ UNCHANGED <<status, mail, taskVars, failures, viewVars>>

AddLead ==
    /\ team = "row" /\ team' = "ready"
    /\ status' = [status EXCEPT ![Lead] = "active"]
    /\ UNCHANGED <<mail, taskVars, failures, viewVars>>

DeleteTeam ==
    /\ Exists /\ team' = "deleted"
    /\ status' = [a \in Agents |-> "absent"]
    /\ mail' = [i \in DOMAIN mail |-> IF i \in There THEN [mail[i] EXCEPT !.row = "gone"]
                                      ELSE mail[i]]
    /\ UNCHANGED <<taskVars, failures, viewVars>>

-----------------------------------------------------------------------------
(* A teammate: _register_teammate, the executor, _finalize_teammate.        *)

At(c, point) == task[c].at = point
GoTo(c, point) == task' = [task EXCEPT ![c].at = point]
Inserting(c, row) == task' = [task EXCEPT ![c].row = row]
Namesakes(c) == {d \in Spawns \ {c} : MemberOf[d] = MemberOf[c]}

\* The team is looked up first; without it the tool answers with an error.
StartTask(c) ==
    /\ At(c, "no") /\ Exists
    /\ GoTo(c, "upsert")
    /\ UNCHANGED <<teamVars, todo, stuck, overtaken, failures, viewVars>>

\* INSERT ... ON CONFLICT (team_id, name) DO UPDATE SET status = 'running'.
Register(c) ==
    /\ At(c, "upsert") /\ Exists
    /\ status' = [status EXCEPT ![MemberOf[c]] = IF @ = "absent" THEN "active" ELSE "running"]
    /\ GoTo(c, "join")
    /\ UNCHANGED <<team, mail, todo, stuck, overtaken, failures, viewVars>>

\* "[Joined]" and, at the end, "[Completed]" or "[Failed]", from "system".
SelectRecipients(c) ==
    /\ task[c].at \in {"join", "end"}
    /\ todo' = [todo EXCEPT ![c] = Recipients(System)]
    /\ GoTo(c, IF At(c, "join") THEN "joining" ELSE "ending")
    /\ UNCHANGED <<teamVars, stuck, overtaken, failures, viewVars>>

Broadcast(c) ==
    /\ task[c].at \in {"joining", "ending"} /\ task[c].row = 0
    /\ \E a \in todo[c] :
          /\ BeginInsert(System, a, IF At(c, "joining") THEN "joined" ELSE task[c].outcome)
          /\ todo' = [todo EXCEPT ![c] = @ \ {a}]
    /\ Inserting(c, Len(mail) + 1)
    /\ UNCHANGED <<team, status, stuck, overtaken, failures, viewVars>>

BroadcastDone(c) ==
    /\ task[c].at \in {"joining", "ending"} /\ todo[c] = {} /\ task[c].row = 0
    /\ GoTo(c, IF At(c, "joining") THEN "run" ELSE "report")
    /\ UNCHANGED <<teamVars, todo, stuck, overtaken, failures, viewVars>>

\* The poll loop sees the subagent completed, failed, timed out or gone.
TaskEnds(c, outcome) ==
    /\ At(c, "run")
    /\ task' = [task EXCEPT ![c] = [at |-> "end", outcome |-> outcome, row |-> 0]]
    /\ UNCHANGED <<teamVars, todo, stuck, overtaken, failures, viewVars>>

\* "[Task Complete]" or "[Task Failed]" with the whole result, to the lead.
Report(c) ==
    /\ At(c, "report") /\ task[c].row = 0
    /\ BeginInsert(MemberOf[c], Lead, "report")
    /\ Inserting(c, Len(mail) + 1)
    /\ UNCHANGED <<team, status, todo, stuck, overtaken, failures, viewVars>>

InsertEnds(c) ==
    /\ task[c].row # 0 /\ Commit(task[c].row)
    /\ task' = [task EXCEPT ![c] = [at |-> IF At(c, "report") THEN "remove" ELSE task[c].at,
                                    outcome |-> task[c].outcome, row |-> 0]]
    /\ UNCHANGED <<team, status, todo, stuck, overtaken, failures, viewVars>>

\* UPDATE ... WHERE name = $2: whoever has registered it.
RemoveMember(c) ==
    /\ At(c, "remove")
    /\ status' = IF Exists THEN [status EXCEPT ![MemberOf[c]] = "removed"] ELSE status
    /\ stuck' = stuck \ Namesakes(c)
    /\ overtaken' = overtaken \cup {d \in Namesakes(c) : task[d].at \in Joined}
    /\ GoTo(c, "over")
    /\ UNCHANGED <<team, mail, todo, failures, viewVars>>

\* A statement fails, or meets no team: the exception leaves the tool.
StatementFails(c) ==
    /\ task[c].at \in (Joined \ {"run"}) \cup {"upsert"}
    /\ IF task[c].row # 0 THEN RollBack(task[c].row)
       ELSE /\ UNCHANGED mail
            /\ \/ Fail
               \/ /\ ~Exists /\ UNCHANGED failures
                  /\ At(c, "upsert") \/ At(c, "report") \/ todo[c] # {}
    /\ stuck' = IF At(c, "upsert") THEN stuck ELSE stuck \cup {c}
    /\ todo' = [todo EXCEPT ![c] = {}]
    /\ task' = [task EXCEPT ![c] = [at |-> "over", outcome |-> task[c].outcome, row |-> 0]]
    /\ UNCHANGED <<team, status, overtaken, viewVars>>

\* send_message of a teammate that runs, or still runs after its task timed out: any
\* name will do.
SendDirect(c, to) ==
    /\ At(c, "run") \/ task[c].outcome # "none"
    /\ BeginInsert(MemberOf[c], to, "chat")
    /\ UNCHANGED <<team, status, taskVars, failures, viewVars>>

SendEnds(i) ==
    /\ mail[i].kind = "chat" /\ i \in Begun
    /\ \/ Commit(i) /\ UNCHANGED failures
       \/ RollBack(i)
    /\ UNCHANGED <<team, status, taskVars, viewVars>>

-----------------------------------------------------------------------------
(* poll_inbox: one UPDATE ... RETURNING. *)

Unread(a) == {i \in There : mail[i].to = a /\ ~mail[i].read}

MarkRead(a) ==
    mail' = [i \in DOMAIN mail |-> IF i \in Unread(a) THEN [mail[i] EXCEPT !.read = TRUE]
                                   ELSE mail[i]]

Poll(a) ==
    /\ Exists /\ Unread(a) # {}
    /\ MarkRead(a)
    /\ UNCHANGED <<team, status, taskVars, failures, viewVars>>

-----------------------------------------------------------------------------
(* stream_team_events. *)

\* What the clock of the gateway may say: the number of messages stamped before that.
Readings == {k \in 0 .. MaxMail : k - Len(mail) \in -Behind .. Ahead}

\* ORDER BY created_at DESC LIMIT 50.
Latest == {i \in There : Cardinality({j \in There : j > i}) < Backfill}

Mark(marks) == gaps' = [g \in Gaps |-> IF g \in DOMAIN marks THEN gaps[g] \cup marks[g] ELSE gaps[g]]

\* get_last_n_messages.
OpenStream ==
    /\ viewer = "off" /\ Exists
    /\ shown' = Latest
    /\ Mark([old |-> There \ Latest, late |-> Begun])
    /\ now' = Len(mail)
    /\ viewer' = "start"
    /\ UNCHANGED <<teamVars, taskVars, failures, again, since>>

\* last_poll = datetime.now(), after the backfill was sent.
StartPolling ==
    /\ viewer = "start"
    /\ since' \in Readings
    /\ Mark([start |-> now + 1 .. Len(mail), ahead |-> Len(mail) + 1 .. since',
             twice |-> since' + 1 .. now])
    /\ viewer' = "poll"
    /\ UNCHANGED <<teamVars, taskVars, failures, shown, again, now>>

TakeNow ==
    /\ viewer = "poll"
    /\ now' \in Readings /\ viewer' = "check"
    /\ UNCHANGED <<teamVars, taskVars, failures, shown, again, since, gaps>>

\* get_team_by_id.
CheckTeam ==
    /\ viewer = "check"
    /\ viewer' = IF Exists THEN "query" ELSE "over"
    /\ UNCHANGED <<teamVars, taskVars, failures, shown, again, since, now, gaps>>

\* get_recent_messages, WHERE created_at > last_poll, and what is sent of it.
Query ==
    /\ viewer = "query"
    /\ LET found == {i \in There : i > since} IN
          /\ shown' = shown \cup found
          /\ again' = again \cup (shown \cap found)
    /\ Mark([late |-> {i \in Begun : i <= now}, ahead |-> Len(mail) + 1 .. now,
             twice |-> {i \in There : i > now}])
    /\ viewer' = "advance"
    /\ UNCHANGED <<teamVars, taskVars, failures, since, now>>

\* Mutant: last_poll is the time at which the messages have been sent.
AdvanceToEnd ==
    /\ viewer = "advance"
    /\ since' \in Readings /\ viewer' = "poll"
    /\ UNCHANGED <<teamVars, taskVars, failures, shown, again, now, gaps>>

Advance ==
    /\ viewer = "advance"
    /\ since' = now /\ viewer' = "poll"
    /\ UNCHANGED <<teamVars, taskVars, failures, shown, again, now, gaps>>

\* A query fails: an error event, and on, with last_poll as it was.
PollFails ==
    /\ viewer \in {"check", "query"} /\ Fail
    /\ viewer' = "poll"
    /\ UNCHANGED <<teamVars, taskVars, shown, again, since, now, gaps>>

TaskStep(c) ==
    \/ Register(c) \/ SelectRecipients(c) \/ Broadcast(c) \/ InsertEnds(c) \/ BroadcastDone(c)
    \/ TaskEnds(c, "completed") \/ TaskEnds(c, "failed")
    \/ Report(c) \/ RemoveMember(c) \/ StatementFails(c)

TeamStep ==
    \/ CreateTeam \/ AddLead \/ DeleteTeam
    \/ \E c \in Spawns : StartTask(c) \/ TaskStep(c)

ChatStep ==
    \/ \E c \in Spawns, to \in Agents : SendDirect(c, to)
    \/ \E i \in DOMAIN mail : SendEnds(i)

PollStep == \E a \in Agents : Poll(a)

ViewStep ==
    OpenStream \/ StartPolling \/ TakeNow \/ CheckTeam \/ Query \/ Advance \/ PollFails

SwarmNext == TeamStep \/ ChatStep \/ PollStep \/ ViewStep

SwarmSpec == SwarmInit /\ [][SwarmNext]_swarmVars
-----------------------------------------------------------------------------
(* Properties. *)

\* While the team is there, a member counts as active only if a task of its name is
\* between its first row and its last one, or ended in an exception and left a ghost;
\* it is removed only after a report to the lead; and a task in progress has an active
\* member, unless another task of that name has ended meanwhile and removed it.
MembersHaveTasks ==
    Exists =>
        \A n \in Teammates :
            /\ n \in Active =>
                   \E c \in Spawns : MemberOf[c] = n /\ (task[c].at \in Joined \/ c \in stuck)
            /\ status[n] = "removed" =>
                   \E i \in There : mail[i].from = n /\ mail[i].kind = "report"
            /\ n \notin Active =>
                   \A c \in Spawns : MemberOf[c] = n /\ task[c].at \in Joined => c \in overtaken

\* An event stream shows every message that is stamped up to its last poll, except
\* what was too old for the backfill, what came between the backfill and the first
\* last_poll, what was being inserted while it queried, and what was stamped after a
\* query and yet before the time that a clock ahead of the database's had told; and
\* it repeats only what came between the time and the query.
StreamShowsMessages ==
    /\ viewer \in {"poll", "check", "query", "advance"} =>
           \A i \in There : i <= since =>
               i \in shown \/ \E g \in Gaps \ {"twice"} : i \in gaps[g]
    /\ again \subseteq gaps["twice"]

\* What a team's rows and its event stream show is what its tasks have done.
TeamHolds == MembersHaveTasks /\ StreamShowsMessages
=============================================================================

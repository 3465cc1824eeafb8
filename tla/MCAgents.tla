------------------------------ MODULE MCAgents ------------------------------
(***************************************************************************)
(* The agents and what they are given, for TLC: the extensions file and    *)
(* the tools that follow from it, a team of agents and its event stream,   *)
(* the bookkeeping of the loop detector and of the todo reminders, turns   *)
(* of the lead agent, the records of a thread and the files of threads;    *)
(* and the mounts, the evaluation of skills and the settings around them.  *)
(* A behaviour moves one part, and the others stay as they begin.  A viewer*)
(* reads messages whatever they are and whoever has polled them, so that   *)
(* part goes with those of one task and without polls, and the team's      *)
(* without chats.                                                          *)
(***************************************************************************)
EXTENDS Extensions, Swarm, AgentTurn, TodoReminders, ThreadRecords, ThreadFiles,
        SandboxMounts, EvalLoop, Settings

VARIABLE part  \* what moves

ToolsOfModel == {Bash, Ask, View, Task}
ResponsesOfModel ==
    {<<Bash>>, <<Ask>>, <<View>>, <<Bash, Ask>>, <<Task, Task, Bash, Task>>}
FreqWarnOf == [n \in Tools |-> 3]
FreqStopOf == [n \in Tools |-> 4]
TaskOverridden == [n \in Tools |-> IF n = Task THEN 40 ELSE 30]

Viewed == {c \in Spawns : c = CHOOSE d \in Spawns : TRUE}
NameOfSpawn == [c \in Spawns |-> CHOOSE n \in Teammates : TRUE]

ThreadOfRun == [r \in Runs |-> "one"]
IdOfRun == [r \in Runs |-> IF r = "r2" THEN "2" ELSE "default"]
ReadAsReport == [n \in FileNames |-> "report"]
MarkdownOf == [n \in FileNames |-> IF n = "report (1).doc" THEN "report (1).md" ELSE n]

\* Within the directory of the data one is read-only, and one is kept elsewhere.
MountsOfConfig ==
    {[container |-> <<"mnt", "data">>, local |-> <<"h", "data">>, readOnly |-> FALSE],
     [container |-> <<"mnt", "skills">>, local |-> <<"h", "data", "skills">>, readOnly |-> TRUE],
     [container |-> <<"mnt", "data", "custom">>, local |-> <<"h", "custom">>, readOnly |-> FALSE]}
PathsMentioned == {<<"mnt", "skills", "a">>, <<"mnt", "data", "l", "a">>}
PathsAsked ==
    PathsMentioned \cup
    {<<"mnt", "data", "a">>, <<"mnt", "data", "skills", "a">>,
     <<"mnt", "data", "..", "skills">>, <<"mnt", "data", "custom", "a">>}
LinksMade ==
    {[at |-> <<"h", "data", "l">>, to |-> <<"h", "data", "skills">>],
     [at |-> <<"h", "data", "l">>, to |-> <<"h", "custom">>]}

SectionOrder == <<"memory", "permissions", "swarm">>
TextsOfConfig ==
    {[memory |-> "on", permissions |-> Missing, swarm |-> Missing, app |-> "valid"],
     [memory |-> Missing, permissions |-> "strict", swarm |-> "on", app |-> "valid"],
     [memory |-> "off", permissions |-> "strict", swarm |-> Invalid, app |-> "valid"],
     [memory |-> "on", permissions |-> Missing, swarm |-> Missing, app |-> Invalid]}

AgentsInit ==
    /\ part \in {"extensions", "team", "viewer", "loop", "turn",
                 "todos", "records", "listing", "files",
                 "mounts", "evaluation", "settings"}
    /\ ExtensionsInit /\ SwarmInit /\ TurnInit
    /\ TodoInit /\ RecordsInit /\ FilesInit
    /\ MountInit /\ EvalInit /\ SettingsInit
    /\ orphaned = {}  \* it comes to one when a worker is killed
    /\ training = CHOOSE s \in Splits : TRUE  \* a and b are alike
    /\ part # "settings" => configFile = CHOOSE t \in ConfigTexts : TRUE

agentsVars == <<extensionsVars, swarmVars, agentVars>>
threadsVars == <<todoVars, recordVars, filesVars>>
hostVars == <<mountVars, evalVars, settingsVars>>

\* What a viewer sees the messages of: one task that goes on, and three of them.
ViewedStep ==
    \/ CreateTeam \/ DeleteTeam
    \/ \E c \in Viewed :
          \/ StartTask(c) \/ Register(c) \/ SelectRecipients(c) \/ Broadcast(c)
          \/ InsertEnds(c) \/ BroadcastDone(c)
          \/ Len(mail) < 3 /\ SendDirect(c, Lead)
    \/ \E i \in DOMAIN mail : SendEnds(i)

AgentStep ==
    \/ /\ part = "extensions" /\ ExtensionsNext
       /\ UNCHANGED <<swarmVars, agentVars>>
    \/ /\ part = "team" /\ (TeamStep \/ PollStep)
       /\ UNCHANGED <<extensionsVars, agentVars>>
    \/ /\ part = "viewer" /\ (ViewedStep \/ ViewStep)
       /\ UNCHANGED <<extensionsVars, agentVars>>
    \/ /\ part = "loop" /\ LoopNext
       /\ UNCHANGED <<extensionsVars, swarmVars, turnVars>>
    \/ /\ part = "turn" /\ TurnNext
       /\ UNCHANGED <<extensionsVars, swarmVars>>

ThreadStep ==
    \/ /\ part = "todos" /\ TodoNext
       /\ UNCHANGED <<recordVars, filesVars>>
    \/ /\ part = "records" /\ RecordsNext
       /\ UNCHANGED <<todoVars, filesVars>>
    \/ /\ part = "listing" /\ (UploadStep \/ ListStep)
       /\ UNCHANGED <<todoVars, recordVars>>
    \/ /\ part = "files" /\ (UploadStep \/ ToolStep) /\ uploads' < MaxUploads
       /\ UNCHANGED <<todoVars, recordVars>>

HostStep ==
    \/ /\ part = "mounts" /\ MountNext
       /\ UNCHANGED <<evalVars, settingsVars>>
    \/ /\ part = "evaluation" /\ EvalNext
       /\ UNCHANGED <<mountVars, settingsVars>>
    \/ /\ part = "settings" /\ SettingsNext
       /\ UNCHANGED <<mountVars, evalVars>>

AgentsNext ==
    /\ UNCHANGED part
    /\ \/ AgentStep /\ UNCHANGED <<threadsVars, hostVars>>
       \/ ThreadStep /\ UNCHANGED <<agentsVars, hostVars>>
       \/ HostStep /\ UNCHANGED <<agentsVars, threadsVars>>

AgentsSpec == AgentsInit /\ [][AgentsNext]_<<part, agentsVars, threadsVars, hostVars>>

\* Type correctness of the components.
AgentsTypeOK ==
    /\ ExtensionsTypeOK /\ SwarmTypeOK /\ LoopTypeOK /\ TurnTypeOK
    /\ TodoTypeOK /\ RecordsTypeOK /\ FilesTypeOK
    /\ MountTypeOK /\ EvalTypeOK /\ SettingsTypeOK
=============================================================================

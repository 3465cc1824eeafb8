----------------------------- MODULE Extensions -----------------------------
(***************************************************************************)
(* extensions_config.json and the caches of it: config/extensions_config,  *)
(* the routers mcp.py and skills.py of the gateway, the same operations of *)
(* the embedded client (client.py), and in the agent server mcp/cache.py   *)
(* behind get_available_tools, and load_skills.                            *)
(*                                                                         *)
(* Two processes write the file.  Each composes it from the part it is     *)
(* asked to change and from its own cached copy of the other part, which   *)
(* has the values of environment variables where the file may have names,  *)
(* and of nothing else.  The gateway truncates and writes, the client      *)
(* writes a file beside it and replaces.  The agent server reads, and      *)
(* keeps the MCP tools until the modification time of the file grows.      *)
(*                                                                         *)
(* The content of a part is the number of the update that wrote it, 0 at   *)
(* first; `extra` is what else there may be: variables by name and fields  *)
(* no schema knows, both in the servers, and other keys beside the parts.  *)
(* Any server list counts as enabled.  Handlers of one process do not      *)
(* await and exclude each other.  Variables are assumed to be set, and the *)
(* file to stay where it is.                                               *)
(***************************************************************************)
EXTENDS Integers, FiniteSets

CONSTANTS Gateways,      \* processes that write in place
          Embedders,     \* processes that replace the file
          MaxUpdates,    \* bound: updates asked for
          MaxErrors,     \* bound: failing writes, crashes, MCP failures
          MaxLoads       \* bound: agent turns that load tools

ASSUME ExtensionsAssumption ==
    /\ Gateways \cap Embedders = {}
    /\ MaxUpdates \in Nat /\ MaxErrors \in Nat /\ MaxLoads \in Nat

VARIABLES file,       \* extensions_config.json, or Torn
          mtime,      \* its modification time
          copies,     \* _extensions_config of each writer
          writing,    \* what a writer is about to write, and where it is
          updates,    \* updates so far
          errors,     \* failures so far
          written,    \* history: the last update of each part that was written,
                      \* and what the servers had beside it
          outdated,   \* history: copies older than another process's write
          lost        \* history: a write failed, or used an outdated copy

VARIABLES turns,      \* agent turns so far
          point,      \* get_available_tools of the turn
          tools,      \* _mcp_tools_cache: the server list it is from, or NoTools
          ready,      \* _cache_initialized
          cachedAt,   \* _config_mtime
          loaded,     \* what initialize_mcp_tools has read
          given,      \* history: the tools of the last turn and the servers in the file
          excuse      \* history: why tools of the cache may be old

fileVars == <<file, mtime>>
writerVars == <<copies, writing, updates, written, outdated, lost>>
toolVars == <<turns, point, tools, ready, cachedAt, loaded, given, excuse>>
extensionsVars == <<fileVars, writerVars, errors, toolVars>>

Writers == Gateways \cup Embedders
Versions == 0 .. MaxUpdates
Parts == {"servers", "skills"}
Extras == {"names", "fields", "keys"}
Config == [servers : Versions, skills : Versions, extra : SUBSET Extras]
Torn == [servers |-> -1, skills |-> -1, extra |-> {}]
NoCopy == [servers |-> -2, skills |-> -2, extra |-> {}]
NoTools == -1
Idle == [step |-> "no"]

ExtensionsTypeOK ==
    /\ file \in Config \cup {Torn} /\ mtime \in Nat
    /\ copies \in [Writers -> Config \cup {NoCopy}]
    /\ \A w \in Writers : writing[w] = Idle \/
          /\ writing[w].step \in {"open", "dump", "reload"} /\ writing[w].part \in Parts
          /\ writing[w].config \in Config
    /\ updates \in Versions /\ errors \in 0 .. MaxErrors
    /\ written \in Config /\ outdated \subseteq Writers /\ lost \in BOOLEAN
    /\ turns \in 0 .. MaxLoads /\ point \in {"no", "read", "connect", "record"}
    /\ tools \in Versions \cup {NoTools} /\ loaded \in Versions \cup {NoTools}
    /\ ready \in BOOLEAN /\ cachedAt \in Nat
    /\ given \in [tools : Versions \cup {NoTools}, servers : Versions \cup {Torn.servers}]
    /\ excuse \in SUBSET {"written meanwhile", "same tick", "failed"}

Fresh == [servers |-> 0, skills |-> 0, extra |-> Extras]

ExtensionsInit ==
    /\ file = Fresh /\ mtime = 0
    /\ copies = [w \in Writers |-> NoCopy] /\ writing = [w \in Writers |-> Idle]
    /\ updates = 0 /\ errors = 0 /\ written = Fresh /\ outdated = {} /\ lost = FALSE
    /\ turns = 0 /\ point = "no" /\ tools = NoTools /\ ready = FALSE
    /\ cachedAt = 0 /\ loaded = NoTools
    /\ given = [tools |-> 0, servers |-> 0] /\ excuse = {}

Error == errors < MaxErrors /\ errors' = errors + 1

-----------------------------------------------------------------------------
(* The writers: update_mcp_configuration, update_skill, update_mcp_config.  *)

\* A write within the resolution of the clock leaves the time as it was.
Touch ==
    /\ mtime' \in {mtime, mtime + 1}
    /\ excuse' = IF ready /\ mtime' = cachedAt THEN excuse \cup {"same tick"}
                 ELSE IF point \in {"connect", "record"} THEN excuse \cup {"written meanwhile"}
                 ELSE excuse

\* from_file puts the values of variables in place of their names.
Read == [file EXCEPT !.extra = @ \ {"names"}]

\* get_extensions_config: the cached copy, or the file.
CopyOf(w) == IF copies[w] = NoCopy THEN Read ELSE copies[w]

WithServers(w, asked) ==
    [servers |-> updates + 1, skills |-> CopyOf(w).skills, extra |-> asked]

\* Mutant: the servers are taken from nowhere.
WithSkillAlone(w) ==
    [servers |-> 0, skills |-> updates + 1, extra |-> CopyOf(w).extra \ {"keys"}]

\* model_dump of the servers knows the extra fields.
WithSkill(w) ==
    [servers |-> CopyOf(w).servers, skills |-> updates + 1, extra |-> CopyOf(w).extra \ {"keys"}]

\* A torn file raises.
BeginUpdate(w, part, config, copy) ==
    /\ writing[w] = Idle /\ updates < MaxUpdates
    /\ copies[w] # NoCopy \/ file # Torn
    /\ updates' = updates + 1
    /\ copies' = [copies EXCEPT ![w] = copy]
    /\ writing' = [writing EXCEPT ![w] = [step |-> "open", part |-> part, config |-> config]]
    /\ UNCHANGED <<fileVars, errors, written, outdated, lost, toolVars>>

\* A page sends back the values it was shown, others may send names; the schema of a
\* gateway's request leaves out fields it does not know.
AskedOf(w) == {{}, IF w \in Gateways THEN {"names"} ELSE {"names", "fields"}}

UpdateServers(w, asked) == BeginUpdate(w, "servers", WithServers(w, asked), CopyOf(w))

\* update_skill changes the cached copy at once, before anything is written.
UpdateSkill(w) ==
    BeginUpdate(w, "skills", WithSkill(w), [CopyOf(w) EXCEPT !.skills = updates + 1])

Step(w, step) == writing' = [writing EXCEPT ![w].step = step]

\* Gateway: open(config_path, "w") empties the file.
OpenFile(w) ==
    /\ w \in Gateways /\ writing[w] # Idle /\ writing[w].step = "open"
    /\ file' = Torn /\ Touch
    /\ Step(w, "dump")
    /\ UNCHANGED <<copies, updates, errors, written, outdated, lost, turns, point, tools, ready,
                   cachedAt, loaded, given>>

\* Gateway: json.dump and close.  Client: replace the file with a whole one.
WriteFile(w) ==
    /\ writing[w] # Idle
    /\ writing[w].step = IF w \in Gateways THEN "dump" ELSE "open"
    /\ file' = writing[w].config /\ Touch
    /\ Step(w, "reload")
    /\ outdated' = outdated \cup {v \in Writers \ {w} : copies[v] # NoCopy}
    /\ lost' = (lost \/ w \in outdated)
    /\ LET config == writing[w].config IN
          written' = IF writing[w].part = "servers"
                     THEN [written EXCEPT !.servers = config.servers, !.extra = config.extra]
                     ELSE [written EXCEPT !.skills = config.skills]
    /\ UNCHANGED <<copies, updates, errors, turns, point, tools, ready, cachedAt,
                   loaded, given>>

\* Disk full, no permission: 500 or OSError, and what was emptied stays so.
WriteFails(w) ==
    /\ writing[w] # Idle /\ writing[w].step \in {"open", "dump"} /\ Error
    /\ writing' = [writing EXCEPT ![w] = Idle]
    /\ lost' = TRUE
    /\ UNCHANGED <<fileVars, copies, updates, written, outdated, toolVars>>

Reloaded(w) == copies' = [copies EXCEPT ![w] = Read]

\* reload_extensions_config, and the answer.
Reload(w) ==
    /\ writing[w] # Idle /\ writing[w].step = "reload" /\ file # Torn
    /\ Reloaded(w)
    /\ writing' = [writing EXCEPT ![w] = Idle]
    /\ outdated' = outdated \ {w}
    /\ UNCHANGED <<fileVars, updates, errors, written, lost, toolVars>>

\* Another writer has just emptied the file: JSONDecodeError.
ReloadFails(w) ==
    /\ writing[w] # Idle /\ writing[w].step = "reload" /\ file = Torn
    /\ writing' = [writing EXCEPT ![w] = Idle]
    /\ outdated' = outdated \cup {w}
    /\ UNCHANGED <<fileVars, copies, updates, errors, written, lost, toolVars>>

CrashWriter(w) ==
    /\ Error
    /\ writing' = [writing EXCEPT ![w] = Idle]
    /\ copies' = [copies EXCEPT ![w] = NoCopy]
    /\ outdated' = outdated \ {w}
    /\ lost' = (lost \/ writing[w] # Idle)
    /\ UNCHANGED <<fileVars, updates, written, toolVars>>

-----------------------------------------------------------------------------
(* An agent turn: get_available_tools and get_cached_mcp_tools.  The call   *)
(* blocks the event loop, so that there is one at a time.                   *)

\* Mutant: a cache that is there is never stale.
NeverStale == FALSE

Stale == ready /\ mtime > cachedAt

\* from_file raises on a torn file: the turn has no MCP tools.
TurnWithoutFile ==
    /\ point = "no" /\ turns < MaxLoads /\ file = Torn
    /\ turns' = turns + 1
    /\ given' = [tools |-> NoTools, servers |-> file.servers]
    /\ UNCHANGED <<fileVars, writerVars, errors, point, tools, ready, cachedAt, loaded, excuse>>

TurnCached ==
    /\ point = "no" /\ turns < MaxLoads /\ file # Torn
    /\ ready /\ ~Stale
    /\ turns' = turns + 1
    /\ given' = [tools |-> tools, servers |-> file.servers]
    /\ UNCHANGED <<fileVars, writerVars, errors, point, tools, ready, cachedAt, loaded, excuse>>

\* reset_mcp_tools_cache when stale; then initialize_mcp_tools.
TurnInitializes ==
    /\ point = "no" /\ turns < MaxLoads /\ file # Torn
    /\ ~ready \/ Stale
    /\ turns' = turns + 1
    /\ tools' = NoTools /\ ready' = FALSE /\ cachedAt' = 0
    /\ point' = "read"
    /\ excuse' = {}
    /\ given' = [tools |-> NoTools, servers |-> file.servers]
    /\ UNCHANGED <<fileVars, writerVars, errors, loaded>>

\* get_mcp_tools reads the file anew; what it raises ends the call with [].
ReadServers ==
    /\ point = "read"
    /\ IF file = Torn
       THEN point' = "no" /\ given' = [tools |-> NoTools, servers |-> file.servers] /\ UNCHANGED loaded
       ELSE point' = "connect" /\ loaded' = file.servers /\ UNCHANGED given
    /\ UNCHANGED <<fileVars, writerVars, errors, turns, tools, ready, cachedAt, excuse>>

\* The servers are asked for their tools; an error becomes an empty list.
Connect ==
    /\ point = "connect"
    /\ \/ UNCHANGED <<loaded, errors, excuse>>
       \/ Error /\ loaded' = NoTools /\ excuse' = excuse \cup {"failed"}
    /\ point' = "record"
    /\ UNCHANGED <<fileVars, writerVars, turns, tools, ready, cachedAt, given>>

\* The cache and the time of the file as it is now.
RecordTools ==
    /\ point = "record"
    /\ tools' = loaded /\ ready' = TRUE /\ cachedAt' = mtime
    /\ loaded' = NoTools
    /\ given' = [tools |-> loaded, servers |-> file.servers]
    /\ point' = "no"
    /\ UNCHANGED <<fileVars, writerVars, errors, turns, excuse>>

ExtensionsNext ==
    \/ \E w \in Writers :
          \/ UpdateSkill(w) \/ \E asked \in AskedOf(w) : UpdateServers(w, asked)
          \/ OpenFile(w) \/ WriteFile(w) \/ WriteFails(w) \/ Reload(w) \/ ReloadFails(w)
          \/ CrashWriter(w)
    \/ TurnWithoutFile \/ TurnCached \/ TurnInitializes \/ ReadServers \/ Connect \/ RecordTools

ExtensionsSpec == ExtensionsInit /\ [][ExtensionsNext]_extensionsVars
-----------------------------------------------------------------------------
(* Properties. *)

\* A turn works with the tools of the servers in the file, except after the
\* three gaps of the protocol: the file was written while the servers were
\* asked (its time is recorded after that), it was written again within the
\* tick of the recorded time, or the servers failed and nothing is cached.
ToolsFollowFile ==
    /\ ready /\ mtime = cachedAt /\ file # Torn => tools = file.servers \/ excuse # {}
    /\ given.tools # NoTools /\ given.servers # Torn.servers =>
          given.tools = given.servers \/ excuse # {}

\* What the file has beside the parts stays until something else is saved: the first
\* update of either part drops other keys, and switching a skill writes the values of
\* variables in place of the names that the saved servers had.
LastingExtra ==
    IF written.skills > written.servers THEN written.extra \cap {"fields"} ELSE written.extra

\* What a process saved is in the file, though two of them share it without a
\* lock and each rewrites both parts: an update of one part keeps the other,
\* but for the names of variables and for keys it does not know, unless a
\* write failed on the way or its process worked from a copy that is older
\* than what the other process wrote.
SavedIsKept ==
    \/ lost
    \/ file = [written EXCEPT !.extra = LastingExtra]
    \/ \E w \in Writers : writing[w] # Idle /\ writing[w].step = "dump"

\* The tools of a turn and the file that the page edits keep in step.
ExtensionsHold == ToolsFollowFile /\ SavedIsKept
=============================================================================

------------------------------ MODULE Settings ------------------------------
(***************************************************************************)
(* config/app_config.py and the sections of config.yaml, which are modules *)
(* of their own (config/*_config.py) with a global each.  A load reads the *)
(* file once, sets one global after the other, and replaces the cached     *)
(* config at its end; what it cannot read ends it there.  Some sections    *)
(* are set only if the file has them, the others get their default.        *)
(* Nothing is locked: the threads of a process that ask for the config     *)
(* first all load it, and an embedded client that is given a path loads    *)
(* that file for the whole process.  The globals of some sections are None *)
(* until a load sets them or somebody asks for the section: its getter then*)
(* makes the default, in a second step that another thread's load may come *)
(* before.                                                                 *)
(***************************************************************************)
EXTENDS Integers, Sequences

CONSTANTS Loaders,     \* threads
          Order,       \* the sections, in the order they are loaded
          Lingering,   \* those that are set only if present
          Lazy,        \* those whose getter makes the default
          ConfigTexts, \* what config files may say: section -> value
          MaxConfigLoads, MaxEdits   \* bounds

Sections == {Order[i] : i \in DOMAIN Order}
Missing == "absent"
Invalid == "invalid"   \* it raises: a wrong type, a variable that is not set
Default == "default"
Unset == "unset"       \* the global is None
NoSection == "none"

ASSUME SettingsAssumption ==
    /\ Lingering \subseteq Sections /\ Lazy \subseteq Sections /\ NoSection \notin Sections
    /\ Order \in Seq(Sections)
    /\ \A t \in ConfigTexts : DOMAIN t = Sections \cup {"app"} /\ \A s \in Sections : t[s] # Unset
    /\ MaxConfigLoads \in Nat /\ MaxEdits \in Nat

VARIABLES configFile, \* what config.yaml says
          globals,    \* _memory_config, _permissions_config, ...
          appConfig,  \* _app_config: the text it was made of, or NoConfig
          loads,      \* from_file in each thread: the text, and how far it is
          making,     \* the section whose getter each thread is in, having found None
          read,       \* history: the texts read since no load was going on
          failed,     \* history: did one of these loads fail?
          undone,     \* history: sections that a getter has set to the default since
                      \* they were last loaded
          begun, edits

sectionVars == <<globals, making, undone>>
settingsVars == <<configFile, sectionVars, appConfig, loads, read, failed, begun, edits>>

NoConfig == [none |-> TRUE]
NoLoad == [text |-> NoConfig, next |-> 0]
Loading(l) == loads[l] # NoLoad
Quiet == \A l \in Loaders : ~Loading(l)

SettingsTypeOK ==
    /\ configFile \in ConfigTexts /\ appConfig \in ConfigTexts \cup {NoConfig}
    /\ \A s \in Sections : globals[s] \notin {Missing, Invalid} /\ (globals[s] = Unset => s \in Lazy)
    /\ \A l \in Loaders : making[l] \in Lazy \cup {NoSection} /\ (Loading(l) => making[l] = NoSection)
    /\ undone \subseteq Lazy
    /\ \A l \in Loaders : Loading(l) => loads[l].text \in read /\ loads[l].next \in 1 .. Len(Order) + 1
    /\ read \subseteq ConfigTexts /\ failed \in BOOLEAN
    /\ begun \in 0 .. MaxConfigLoads /\ edits \in 0 .. MaxEdits

SettingsInit ==
    /\ configFile \in ConfigTexts
    /\ globals = [s \in Sections |-> IF s \in Lazy THEN Unset ELSE Default]
    /\ making = [l \in Loaders |-> NoSection] /\ undone = {}
    /\ appConfig = NoConfig
    /\ loads = [l \in Loaders |-> NoLoad]
    /\ read = {} /\ failed = FALSE /\ begun = 0 /\ edits = 0
-----------------------------------------------------------------------------
\* Somebody edits config.yaml.
Edit ==
    /\ edits < MaxEdits
    /\ configFile' \in ConfigTexts \ {configFile} /\ edits' = edits + 1
    /\ UNCHANGED <<sectionVars, appConfig, loads, read, failed, begun>>

\* from_file opens a file: get_app_config the one of the process, when nothing
\* is cached, and reload_app_config the one it is given, if any.
BeginLoad(l, text) ==
    /\ ~Loading(l) /\ making[l] = NoSection /\ begun < MaxConfigLoads /\ begun' = begun + 1
    /\ loads' = [loads EXCEPT ![l] = [text |-> text, next |-> 1]]
    /\ read' = IF Quiet THEN {text} ELSE read \cup {text}
    /\ failed' = (failed /\ ~Quiet)
    /\ UNCHANGED <<configFile, sectionVars, appConfig, edits>>

GetConfig(l) == appConfig = NoConfig /\ BeginLoad(l, configFile)
ReloadConfig(l) == BeginLoad(l, configFile) \/ \E text \in ConfigTexts : BeginLoad(l, text)

Section(l) == Order[loads[l].next]

\* Mutant: no section is touched that the file does not have.
SetLingering(old, s, value) == IF value = Missing THEN old ELSE value

\* load_..._config_from_dict, with its test for presence.
Set(old, s, value) ==
    IF value # Missing THEN value ELSE IF s \in Lingering THEN old ELSE Default

LoadSection(l) ==
    LET s == Section(l) IN
    /\ Loading(l) /\ loads[l].next <= Len(Order) /\ loads[l].text[s] # Invalid
    /\ globals' = [globals EXCEPT ![s] = Set(@, s, loads[l].text[s])]
    /\ loads' = [loads EXCEPT ![l].next = @ + 1]
    /\ undone' = undone \ {s}
    /\ UNCHANGED <<configFile, making, appConfig, read, failed, begun, edits>>

\* A section is invalid, or at the end the rest of the file is.
LoadFails(l) ==
    /\ Loading(l)
    /\ loads[l].text[IF loads[l].next <= Len(Order) THEN Section(l) ELSE "app"] = Invalid
    /\ loads' = [loads EXCEPT ![l] = NoLoad]
    /\ failed' = TRUE
    /\ UNCHANGED <<configFile, sectionVars, appConfig, read, begun, edits>>

\* model_validate, and the config is cached.
EndLoad(l) ==
    /\ Loading(l) /\ loads[l].next > Len(Order) /\ loads[l].text["app"] # Invalid
    /\ appConfig' = loads[l].text
    /\ loads' = [loads EXCEPT ![l] = NoLoad]
    /\ UNCHANGED <<configFile, sectionVars, read, failed, begun, edits>>

\* reset_app_config: the globals of the sections stay.
ResetConfig ==
    /\ appConfig # NoConfig
    /\ appConfig' = NoConfig
    /\ UNCHANGED <<configFile, sectionVars, loads, read, failed, begun, edits>>

\* get_permissions_config and its like: there is no config of the section yet.
FindUnset(l, s) ==
    /\ ~Loading(l) /\ making[l] = NoSection /\ s \in Lazy /\ globals[s] = Unset
    /\ making' = [making EXCEPT ![l] = s]
    /\ UNCHANGED <<configFile, globals, undone, appConfig, loads, read, failed, begun, edits>>

\* It makes the default one, whatever the global has become.
MakeDefault(l) ==
    LET s == making[l] IN
    /\ s # NoSection
    /\ making' = [making EXCEPT ![l] = NoSection]
    /\ globals' = [globals EXCEPT ![s] = Default]
    /\ undone' = IF globals[s] \in {Unset, Default} THEN undone ELSE undone \cup {s}
    /\ UNCHANGED <<configFile, appConfig, loads, read, failed, begun, edits>>

SettingsNext ==
    \/ Edit \/ ResetConfig
    \/ \E l \in Loaders :
          \/ GetConfig(l) \/ ReloadConfig(l) \/ LoadSection(l) \/ LoadFails(l) \/ EndLoad(l)
          \/ MakeDefault(l) \/ \E s \in Lazy : FindUnset(l, s)

SettingsSpec == SettingsInit /\ [][SettingsNext]_settingsVars
-----------------------------------------------------------------------------
\* When loads of one text have ended, all well and however many at a time, every
\* section is as the text says, but those that linger and those that a getter, which
\* had found None before the load, has set to the default after it; and a section
\* that does not linger never keeps what the text has left out.
SectionsFollow ==
    Quiet /\ ~failed => \A text \in read : read = {text} =>
        \A s \in Sections :
            \/ text[s] = Missing /\ s \in Lingering
            \/ s \in undone /\ globals[s] = Default
            \/ globals[s] = IF text[s] = Missing THEN Default ELSE text[s]

\* Whatever is cached has passed validation, whole.
CachedIsValid == appConfig # NoConfig => \A s \in DOMAIN appConfig : appConfig[s] # Invalid

SettingsHold == SectionsFollow /\ CachedIsValid
=============================================================================

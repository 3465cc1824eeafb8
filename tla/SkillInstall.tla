---------------------------- MODULE SkillInstall ----------------------------
(***************************************************************************)
(* The directory of custom skills: gateway/routers/skills.py install_skill *)
(* and client.py install_skill, which unpack an archive and copy it in,    *)
(* and skills/loader.py, which lists what is there for the pages and for   *)
(* the agent's prompt.  The gateway and embedded clients are processes of  *)
(* their own, and nothing locks the directory.  That skills are switched   *)
(* on and off is in Extensions.                                            *)
(*                                                                         *)
(* An archive holds some files; one of them is SKILL.md, and the others    *)
(* are taken together.  Its frontmatter is read twice: by a YAML parser    *)
(* when it is installed, and line by line when it is listed.               *)
(***************************************************************************)
EXTENDS Integers, FiniteSets

CONSTANTS Installers,          \* the gateway and the embedded clients
          Careful,             \* those that refuse unsafe archives: the clients
          Archives, Unsafe,
          NamedBy,             \* the name the YAML gives, or Unnamed if invalid
          ListedBy,            \* the name the lines give, or Unnamed if unreadable
          MaxInstalls, MaxTroubles

Unnamed == "unnamed"
ArchiveParts == {"SKILL.md", "resources"}
SkillNames == {NamedBy[a] : a \in Archives} \ {Unnamed}

ASSUME InstallAssumption ==
    /\ Careful \subseteq Installers /\ Unsafe \subseteq Archives
    /\ Archives # {}
    /\ MaxInstalls \in Nat /\ MaxTroubles \in Nat

VARIABLES custom,     \* the directories of skills/custom
          content,    \* what is in them: <<directory, archive, part>>
          installs,   \* each installer's request
          succeeded,  \* history: <<directory, archive>> answered with success
          left,       \* history: directories an install gave up on
          listing,    \* a load_skills: what is to be read, and what it found
          installed,  \* number of requests
          troubles    \* number of failed copies, dead processes and removals

skillVars == <<custom, content, installs, succeeded, left, listing, installed, troubles>>

NoInstall == [at |-> "idle", archive |-> CHOOSE a \in Archives : TRUE]
NoListing == [toRead |-> {}, found |-> {}]
InstallAt(i, at) == [at |-> at, archive |-> installs[i].archive]
TargetOf(i) == NamedBy[installs[i].archive]
IsWhole(n) == \E a \in Archives : {n} \X {a} \X ArchiveParts \subseteq content
Copying(n) == \E i \in Installers : installs[i].at = "copying" /\ TargetOf(i) = n

SkillsTypeOK ==
    /\ custom \subseteq SkillNames
    /\ content \subseteq custom \X Archives \X ArchiveParts
    /\ installs \in [Installers -> [at : {"idle", "valid", "free", "copying"}, archive : Archives]]
    /\ \A i \in Installers : installs[i].at # "idle" => TargetOf(i) \in SkillNames
    /\ succeeded \subseteq SkillNames \X Archives /\ left \subseteq SkillNames
    /\ listing.toRead \subseteq SkillNames
    /\ listing.found \subseteq [name : {ListedBy[a] : a \in Archives}, dir : SkillNames, from : Archives]
    /\ installed \in 0 .. MaxInstalls /\ troubles \in 0 .. MaxTroubles

SkillsInit ==
    /\ custom = {} /\ content = {} /\ succeeded = {} /\ left = {}
    /\ installs = [i \in Installers |-> NoInstall]
    /\ listing = NoListing
    /\ installed = 0 /\ troubles = 0
-----------------------------------------------------------------------------
(* install_skill *)

\* The archive is unpacked into a directory of the request's own, and its
\* frontmatter is checked; what is refused changes nothing.
Validate(i, a) ==
    /\ installs[i].at = "idle" /\ installed < MaxInstalls
    /\ NamedBy[a] # Unnamed
    /\ i \in Careful => a \notin Unsafe
    /\ installs' = [installs EXCEPT ![i] = [at |-> "valid", archive |-> a]]
    /\ installed' = installed + 1
    /\ UNCHANGED <<custom, content, succeeded, left, listing, troubles>>

\* target_dir.exists(): a conflict, or not yet.
CheckTarget(i) ==
    /\ installs[i].at = "valid"
    /\ installs' = [installs EXCEPT ![i] = IF TargetOf(i) \in custom THEN NoInstall
                                           ELSE InstallAt(i, "free")]
    /\ UNCHANGED <<custom, content, succeeded, left, listing, installed, troubles>>

\* Mutant: copytree(..., dirs_exist_ok=True).
MakeDirAnyway(i) ==
    /\ installs[i].at = "free"
    /\ installs' = [installs EXCEPT ![i] = InstallAt(i, "copying")]
    /\ custom' = custom \cup {TargetOf(i)}
    /\ UNCHANGED <<content, succeeded, left, listing, installed, troubles>>

\* copytree makes the directory, and raises if another process has just done so.
MakeDir(i) ==
    /\ installs[i].at = "free"
    /\ installs' = [installs EXCEPT ![i] = IF TargetOf(i) \in custom THEN NoInstall
                                           ELSE InstallAt(i, "copying")]
    /\ custom' = custom \cup {TargetOf(i)}
    /\ UNCHANGED <<content, succeeded, left, listing, installed, troubles>>

CopyPart(i) ==
    /\ installs[i].at = "copying"
    /\ \E part \in ArchiveParts :
          /\ <<TargetOf(i), installs[i].archive, part>> \notin content
          /\ content' = content \cup {<<TargetOf(i), installs[i].archive, part>>}
    /\ UNCHANGED <<custom, installs, succeeded, left, listing, installed, troubles>>

AnswerSuccess(i) ==
    /\ installs[i].at = "copying"
    /\ {TargetOf(i)} \X {installs[i].archive} \X ArchiveParts \subseteq content
    /\ succeeded' = succeeded \cup {<<TargetOf(i), installs[i].archive>>}
    /\ installs' = [installs EXCEPT ![i] = NoInstall]
    /\ UNCHANGED <<custom, content, left, listing, installed, troubles>>

\* A file cannot be copied, or the process dies: what was copied stays.
GiveUp(i) ==
    /\ installs[i].at = "copying" /\ troubles < MaxTroubles
    /\ left' = left \cup {TargetOf(i)}
    /\ installs' = [installs EXCEPT ![i] = NoInstall]
    /\ troubles' = troubles + 1
    /\ UNCHANGED <<custom, content, succeeded, listing, installed>>

\* "Please remove it first": somebody does, when no install is at it.
RemoveSkill(n) ==
    /\ n \in custom /\ ~Copying(n) /\ troubles < MaxTroubles
    /\ custom' = custom \ {n}
    /\ content' = {c \in content : c[1] # n}
    /\ succeeded' = {d \in succeeded : d[1] # n} /\ left' = left \ {n}
    /\ troubles' = troubles + 1
    /\ UNCHANGED <<installs, listing, installed>>
-----------------------------------------------------------------------------
(* load_skills *)

ListSkills ==
    /\ listing.toRead = {}
    /\ listing' = [toRead |-> custom, found |-> {}]
    /\ UNCHANGED <<custom, content, installs, succeeded, left, installed, troubles>>

\* parse_skill_file: a directory without a SKILL.md that can be read is no skill.
ReadSkill(n) ==
    /\ n \in listing.toRead
    /\ listing' =
          [toRead |-> listing.toRead \ {n},
           found |-> listing.found \cup
              {[name |-> ListedBy[a], dir |-> n, from |-> a] :
                  a \in {b \in Archives : /\ <<n, b, "SKILL.md">> \in content
                                          /\ ListedBy[b] # Unnamed}}]
    /\ UNCHANGED <<custom, content, installs, succeeded, left, installed, troubles>>

InstallStep(i) ==
    \/ \E a \in Archives : Validate(i, a)
    \/ CheckTarget(i) \/ MakeDir(i) \/ CopyPart(i) \/ AnswerSuccess(i) \/ GiveUp(i)

SkillsNext ==
    \/ \E i \in Installers : InstallStep(i)
    \/ \E n \in SkillNames : RemoveSkill(n) \/ ReadSkill(n)
    \/ ListSkills

SkillsSpec == SkillsInit /\ [][SkillsNext]_skillVars
-----------------------------------------------------------------------------
\* No directory mixes two archives.
OneArchiveEach == \A c, d \in content : c[1] = d[1] => c[2] = d[2]

\* What was answered with success is there as a whole until it is removed.
AnsweredIsThere == \A d \in succeeded : {d[1]} \X {d[2]} \X ArchiveParts \subseteq content

\* A directory that is not whole is being copied, or was given up on.
PartialHasAReason == \A n \in custom : IsWhole(n) \/ Copying(n) \/ n \in left

\* A directory is listed once, though never under a name its lines do not give.
ListedOnce == \A s, t \in listing.found : s.dir = t.dir => s = t

\* Two processes that install skills at the same time, and processes that give
\* up half-way, leave each directory with one archive, whole when success was
\* answered, and partial only for a known reason.
SkillsAreWhole == OneArchiveEach /\ AnsweredIsThere /\ PartialHasAReason /\ ListedOnce
=============================================================================

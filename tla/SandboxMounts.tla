---------------------------- MODULE SandboxMounts ----------------------------
(***************************************************************************)
(* The sandbox package (sandbox/src): LocalSandbox maps the container paths*)
(* an agent uses to directories of the host, some of them read-only, in    *)
(* paths and in texts, and back; LocalSandboxProvider caches one sandbox   *)
(* per session, and forgets the least recently used.                       *)
(* The agent has a copy of LocalSandbox, with the same resolution of paths *)
(* (agent/src/sandbox/local/local_sandbox.py).                             *)
(*                                                                         *)
(* A path is the sequence of its segments, a text the set of paths it      *)
(* mentions.  A command runs in a shell of the host and may do anything:   *)
(* here it makes a symbolic link or a file.  A call takes its sandbox with *)
(* get() and uses it after the lock is gone, when it may be evicted.       *)
(* Left out: a host path that continues the name of a mount's directory,   *)
(* which _reverse_resolve_in_output takes for the directory.               *)
(***************************************************************************)
EXTENDS FiniteSets, SequencesExt, Removal

CONSTANTS Sessions,
          Mounts,      \* path_mappings: [container, local, readOnly]
          Asked,       \* bound: the paths agents ask for
          Mentioned,   \* bound: the paths their texts mention
          MaxFiles,    \* bound: files with a text
          Links,       \* bound: links commands make, [at, to]
          MaxSandboxes \* max_cached

ASSUME MountAssumption == MaxSandboxes \in Nat \ {0} /\ MaxFiles \in Nat

Paths == Seq(STRING)

\* A path that resolve() leaves as it is while there is the link l.
Canonical(l, p) ==
    p \in Paths /\ \A i \in DOMAIN p : p[i] # ".." /\ SubSeq(p, 1, i) # l.at

\* Directories of mounts are resolved, and nothing is put where they are; a link
\* leads to what is there.
ASSUME PathAssumption ==
    /\ Asked \subseteq Paths /\ Mentioned \subseteq Paths
    /\ \A m \in Mounts : m.container \in Paths /\ m.local \in Paths
    /\ \A l \in Links : Canonical(l, l.to) /\ \A m \in Mounts : Canonical(l, m.local)
    /\ \A m \in Mounts : \A i \in DOMAIN m.local : m.local[i] \notin {"..", "no link"}

VARIABLES lru,      \* _sandboxes: sessions, least recently used first
          tracked,  \* _agent_written_paths of the cached sandbox of a session
          holds,    \* the sandbox of a session's call: "none", "cached", "orphan"
          checked,  \* the file a call may write, with the link it has seen
          disk,     \* files of the host that were written, and their texts
          link,     \* a symbolic link, or NoLink
          trespass  \* history: a tool wrote under a read-only mount, with no link
                    \* made meanwhile

mountVars == <<lru, tracked, holds, checked, disk, link, trespass>>

NoLink == [at |-> <<"no link">>, to |-> <<>>]
Escape == <<"escape">>   \* SandboxPathTraversalError
Unchecked == [local |-> <<>>, link |-> NoLink]

-----------------------------------------------------------------------------
(* Paths. *)

Within(p, root) == Len(root) <= Len(p) /\ SubSeq(p, 1, Len(root)) = root
Rest(p, root) == SubSeq(p, Len(root) + 1, Len(p))

\* The longest of the mounts S, by one of its two paths.
Longest(S, Path(_)) == CHOOSE m \in S : \A o \in S : Len(Path(o)) <= Len(Path(m))

\* Path.resolve(), segment by segment, when there is the link l.
Further(l, p, segment) ==
    IF segment = ".." THEN SubSeq(p, 1, Len(p) - 1)
    ELSE IF Append(p, segment) = l.at THEN l.to
    ELSE Append(p, segment)

Along(l, root, segments) ==
    LET reached[i \in 0 .. Len(segments)] ==
            IF i = 0 THEN root ELSE Further(l, reached[i - 1], segments[i])
    IN  reached[Len(segments)]

Walk(root, segments) == Along(link, root, segments)

\* _find_path_mapping and _find_path_mapping's use in _resolve_path_with_mapping
MountsOf(p) == {m \in Mounts : Within(p, m.container)}

\* Mutant: the mount of the shortest path is taken.
FirstMountOf(p) ==
    CHOOSE m \in MountsOf(p) : \A o \in MountsOf(p) : Len(m.container) <= Len(o.container)

MountOf(p) == Longest(MountsOf(p), LAMBDA m : m.container)

\* _resolve_path_with_mapping
Resolve(p) ==
    IF MountsOf(p) = {} THEN p
    ELSE LET m == MountOf(p)  local == Walk(m.local, Rest(p, m.container)) IN
         IF Within(local, m.local) THEN local ELSE Escape

\* Where the host ends up with a path.
Host(p) == Walk(<<>>, Resolve(p))

MountsAt(local) == {m \in Mounts : Within(local, m.local)}
NearestAt(local) == Longest(MountsAt(local), LAMBDA m : m.local)

\* _is_read_only_path: the most specific mount decides.
Protected(local) == MountsAt(local) # {} /\ NearestAt(local).readOnly

\* Mutant: only the mount that the path was given under is looked at.
MayWriteByName(p) == MountsOf(p) = {} \/ ~MountOf(p).readOnly

\* _check_write_permission
MayWrite(p) ==
    /\ MountsOf(p) = {} \/ ~MountOf(p).readOnly
    /\ ~Protected(Host(p))

\* _reverse_resolve_path
ContainerPath(local) ==
    IF MountsAt(local) = {} THEN local
    ELSE NearestAt(local).container \o Rest(local, NearestAt(local).local)

\* _reverse_resolve_in_output, which finds what begins like the directory of a mount.
ReverseResolve(path) ==
    IF MountsAt(path) = {} THEN path ELSE ContainerPath(Walk(<<>>, path))

-----------------------------------------------------------------------------
MountTypeOK ==
    /\ \A i, j \in DOMAIN lru : lru[i] = lru[j] => i = j
    /\ lru \in Seq(Sessions) /\ Len(lru) <= MaxSandboxes
    /\ \A s \in Sessions : s \notin ToSet(lru) => tracked[s] = {} /\ holds[s] # "cached"
    /\ holds \in [Sessions -> {"none", "cached", "orphan"}]
    /\ \A s \in Sessions : checked[s] # Unchecked =>
          holds[s] # "none" /\ checked[s].local # Escape /\ checked[s].link \in {NoLink, link}
    /\ \A l \in DOMAIN disk : disk[l] \subseteq Paths
    /\ link \in Links \cup {NoLink} /\ trespass \in BOOLEAN

MountInit ==
    /\ lru = <<>> /\ tracked = [s \in Sessions |-> {}] /\ holds = [s \in Sessions |-> "none"]
    /\ checked = [s \in Sessions |-> Unchecked]
    /\ disk = <<>> /\ link = NoLink /\ trespass = FALSE

\* The sandboxes of S leave the cache.
Forgets(S) ==
    /\ tracked' = [s \in Sessions |-> IF s \in S THEN {} ELSE tracked[s]]
    /\ holds' = [s \in Sessions |-> IF s \in S /\ holds[s] = "cached" THEN "orphan" ELSE holds[s]]

\* acquire: promotes, or adds and evicts.
AcquireSandbox(s) ==
    LET others  == Without(lru, {s})
        evicted == IF Len(others) = MaxSandboxes THEN {others[1]} ELSE {}
    IN /\ lru' = Without(Append(others, s), evicted)
       /\ Forgets(evicted)
       /\ UNCHANGED <<checked, disk, link, trespass>>

\* get, at the beginning of a call.
GetSandbox(s) ==
    /\ s \in ToSet(lru) /\ holds[s] = "none"
    /\ lru' = Append(Without(lru, {s}), s)
    /\ holds' = [holds EXCEPT ![s] = "cached"]
    /\ UNCHANGED <<tracked, checked, disk, link, trespass>>

ForceRelease(s) ==
    /\ s \in ToSet(lru)
    /\ lru' = Without(lru, {s})
    /\ Forgets({s})
    /\ UNCHANGED <<checked, disk, link, trespass>>

\* reset and shutdown
ResetProvider ==
    /\ lru # <<>> /\ lru' = <<>>
    /\ Forgets(ToSet(lru))
    /\ UNCHANGED <<checked, disk, link, trespass>>

Room(l) == l \in DOMAIN disk \/ Cardinality(DOMAIN disk) < MaxFiles
Put(f, l, v) == [x \in DOMAIN f \cup {l} |-> IF x = l THEN v ELSE f[x]]

\* A call that has not passed the checks of a write ends.
Done(s) ==
    /\ holds[s] # "none" /\ checked[s] = Unchecked
    /\ holds' = [holds EXCEPT ![s] = "none"]
    /\ UNCHANGED checked

\* write_file and update_file check a path,
CheckWrite(s, p) ==
    /\ holds[s] # "none" /\ checked[s] = Unchecked
    /\ Resolve(p) # Escape /\ MayWrite(p)
    /\ checked' = [checked EXCEPT ![s] = [local |-> Resolve(p), link |-> link]]
    /\ UNCHANGED <<lru, tracked, holds, disk, link, trespass>>

\* and open it, to leave a text in it.
Lands(s, text) ==
    LET l == Walk(<<>>, checked[s].local) IN
    /\ checked[s] # Unchecked /\ Room(l)
    /\ disk' = Put(disk, l, text)
    /\ trespass' = (trespass \/ (Protected(l) /\ link = checked[s].link))
    /\ checked' = [checked EXCEPT ![s] = Unchecked]
    /\ holds' = [holds EXCEPT ![s] = "none"]

\* write_file; if a path of the text escapes it fails.
WriteText(s, mention, append) ==
    LET l   == checked[s].local
        old == IF append /\ l \in DOMAIN disk THEN disk[l] ELSE {}
    IN /\ Resolve(mention) # Escape
       /\ Lands(s, old \cup {Resolve(mention)})
       /\ tracked' = IF holds[s] = "cached" THEN [tracked EXCEPT ![s] = @ \cup {l}] ELSE tracked
       /\ UNCHANGED <<lru, link>>

\* update_file
UpdateBytes(s, mention) ==
    /\ Lands(s, {mention})
    /\ UNCHANGED <<lru, tracked, link>>

\* The call fails: a path of the text escapes, or the host refuses the file.
WriteRefused(s) ==
    /\ checked[s] # Unchecked
    /\ checked' = [checked EXCEPT ![s] = Unchecked]
    /\ holds' = [holds EXCEPT ![s] = "none"]
    /\ UNCHANGED <<lru, tracked, disk, link, trespass>>

\* execute_command: the shell makes a link, or a file with paths of the host.
Execute(s, p) ==
    /\ Done(s)
    /\ \/ /\ link = NoLink /\ link' \in Links
          /\ UNCHANGED disk
       \/ /\ Resolve(p) # Escape /\ Room(Host(p))
          /\ disk' = Put(disk, Host(p), {Resolve(p)})
          /\ UNCHANGED link
    /\ UNCHANGED <<lru, tracked, trespass>>

\* read_file and list_dir change nothing, nor do writes that are refused.
ReadOrList(s) ==
    /\ Done(s)
    /\ UNCHANGED <<lru, tracked, disk, link, trespass>>

MountNext ==
    \/ ResetProvider
    \/ \E s \in Sessions :
        \/ AcquireSandbox(s) \/ GetSandbox(s) \/ ForceRelease(s) \/ ReadOrList(s)
        \/ WriteRefused(s)
        \/ \E p \in Asked : Execute(s, p) \/ CheckWrite(s, p)
        \/ \E mention \in Mentioned :
              \/ UpdateBytes(s, mention)
              \/ \E append \in BOOLEAN : WriteText(s, mention, append)

MountSpec == MountInit /\ [][MountNext]_mountVars
-----------------------------------------------------------------------------
(* Properties. *)

\* read_file
ReadBackBy(s, l, path) == IF l \in tracked[s] THEN ReverseResolve(path) ELSE path

\* A directory of a mount that another mount hides within the container, and a path
\* that means something in the container and on the host.
Hidden(local) ==
    \/ MountsAt(local) = {} /\ MountsOf(local) # {}
    \/ \E m \in Mounts \ {NearestAt(local)} :
          /\ MountsAt(local) # {} /\ Within(ContainerPath(local), m.container)
          /\ Len(m.container) >= Len(NearestAt(local).container)
Twofold(path) == MountsAt(path) # {} /\ MountsOf(path) # {}

\* The file tools write under no read-only mount, whatever links commands have made
\* before, and by whichever of nested mounts a path gets there.
ReadOnlyKept == ~trespass

\* A path in a text leads to the same file whether a sandbox reads the text or a program
\* of the host, unless what it leads to has no name of its own in the container.
TextsReadBack ==
    \A s \in Sessions : \A l \in DOMAIN disk : \A path \in disk[l] :
        \/ Hidden(Walk(<<>>, path)) \/ Twofold(path)
        \/ Host(ReadBackBy(s, l, path)) = Host(path)

\* Neither a tool nor a text is led astray by mounts within mounts, links and "..".
MountsHold == ReadOnlyKept /\ TextsReadBack
=============================================================================

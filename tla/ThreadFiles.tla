----------------------------- MODULE ThreadFiles -----------------------------
(***************************************************************************)
(* The files of threads whose agents work in local sandboxes: uploads      *)
(* (gateway/routers/uploads.py, client.py), the listing the agent is given *)
(* (agents/middlewares/uploads_middleware.py), the file tools              *)
(* (sandbox/tools.py) and sandbox/local.                                   *)
(*                                                                         *)
(* An upload is written to the thread's directory and then, under          *)
(* /mnt/user-data, through the thread's sandbox.  A LocalSandbox maps the  *)
(* skills directory and the mounts of the configuration, of which there    *)
(* are none here (SandboxMounts has them), and sandbox/tools.py takes      *)
(* "local" for the one local id, so /mnt/user-data is a directory of the   *)
(* host that all threads share.  A sandbox turns paths of the skills       *)
(* directory into host paths when its agent writes a file, and back when   *)
(* the agent reads one that this sandbox has recorded as written, which it *)
(* does after the write: calls of one response run in parallel.            *)
(***************************************************************************)
EXTENDS FiniteSets, Removal

CONSTANTS FileThreads, FileNames,
          Edited,      \* bound: the files the tools work on
          ReadAs,      \* the name _extract_files_from_message makes of a listed one
          ConvertsTo,  \* the markdown file of a convertible one, or itself
          MaxCached,   \* max_cached_threads
          MaxUploads, MaxListings  \* bounds, over all threads

ASSUME FileAssumption ==
    /\ ReadAs \in [FileNames -> FileNames] /\ ConvertsTo \in [FileNames -> FileNames]
    /\ Edited \subseteq FileNames /\ MaxCached \in Nat \ {0}
    /\ MaxUploads \in Nat /\ MaxListings \in Nat

VARIABLES uploaded,  \* the thread's uploads directory
          shared,    \* what the host has under /mnt/user-data/uploads
          cached,    \* _thread_sandboxes: threads, least recently used first
          recorded,   \* _agent_written_paths of each cached sandbox
          unrecorded, \* what write_file has written there and not yet recorded
          syncing,   \* the file of a request that is not yet in the sandbox
          editing,   \* a str_replace between its read and its write
          named,     \* the names a thread's earlier messages are read to list
          announced,   \* history: the names that were listed
          due,       \* history: the files that were there when a turn began
          mine,      \* history: the files last written through this sandbox
          uploads, listings

filesVars == <<uploaded, shared, cached, recorded, unrecorded, syncing, editing, named, announced, due, mine,
               uploads, listings>>

NoFile == "no file"
Contents == {"skill path", "host path"}   \* other texts are not converted
NoEdit == [name |-> NoFile]
Edits == [name : FileNames, text : Contents, current : BOOLEAN]

FilesTypeOK ==
    /\ uploaded \in [FileThreads -> SUBSET FileNames]
    /\ shared \in [FileNames -> Contents \cup {NoFile}]
    /\ cached \in Seq(FileThreads) /\ Len(cached) <= MaxCached
    /\ \A i, j \in DOMAIN cached : cached[i] = cached[j] => i = j
    /\ recorded \in [FileThreads -> SUBSET FileNames] /\ mine \in [FileThreads -> SUBSET FileNames]
    /\ unrecorded \in [FileThreads -> SUBSET FileNames]
    /\ \A t \in FileThreads :
          t \notin {cached[i] : i \in DOMAIN cached} => recorded[t] = {} /\ unrecorded[t] = {}
    /\ syncing \in [FileThreads -> FileNames \cup {NoFile}]
    /\ editing \in [FileThreads -> Edits \cup {NoEdit}]
    /\ named \in [FileThreads -> SUBSET FileNames] /\ announced \in [FileThreads -> SUBSET FileNames]
    /\ due \in [FileThreads -> SUBSET FileNames]
    /\ uploads \in 0 .. MaxUploads /\ listings \in 0 .. MaxListings

FilesInit ==
    /\ uploaded = [t \in FileThreads |-> {}]
    /\ shared = [n \in FileNames |-> NoFile]
    /\ cached = <<>> /\ recorded = uploaded /\ unrecorded = uploaded /\ mine = uploaded
    /\ syncing = [t \in FileThreads |-> NoFile] /\ editing = [t \in FileThreads |-> NoEdit]
    /\ named = uploaded /\ announced = uploaded /\ due = uploaded
    /\ uploads = 0 /\ listings = 0
-----------------------------------------------------------------------------
(* The provider. *)

Others(t) == Without(cached, {t})

\* _evict_if_over_capacity, when t has come to the end of the cache.
EvictedBy(t) == IF Len(Others(t)) = MaxCached THEN {Others(t)[1]} ELSE {}

\* ensure_sandbox_initialized: get promotes t's sandbox, or acquire makes one.
Acquired(t) == Without(Append(Others(t), t), EvictedBy(t))

\* An evicted sandbox is forgotten, though an edit in progress still has it, and what
\* is recorded there is lost.
Cleared(t, f) == [o \in FileThreads |-> IF o \in EvictedBy(t) THEN {} ELSE f[o]]
Detached(t) == [o \in FileThreads |-> IF o \in EvictedBy(t) /\ editing[o] # NoEdit
                                      THEN [editing[o] EXCEPT !.current = FALSE] ELSE editing[o]]

\* The steps of t that do nothing else to the cache than use t's sandbox.
Uses(t) ==
    /\ cached' = Acquired(t)
    /\ recorded' = Cleared(t, recorded) /\ unrecorded' = Cleared(t, unrecorded)
    /\ mine' = Cleared(t, mine)
    /\ editing' = Detached(t)
-----------------------------------------------------------------------------
(* The sandbox. *)

\* _resolve_in_content and _reverse_resolve_in_output
Resolved(text) == IF text = "skill path" THEN "host path" ELSE text
Reversed(text) == IF text = "host path" THEN "skill path" ELSE text

\* read_file
ReadBack(t, n) == IF n \in recorded[t] THEN Reversed(shared[n]) ELSE shared[n]

\* Mutant: append does not record the file.
RecordsNew(n, append) == IF append THEN {} ELSE {n}

\* The paths write_file adds to _agent_written_paths.
Records(n, append) == {n}

\* The file when a text is written, or appended.
Content(n, text, append) ==
    IF append /\ shared[n] = "host path" THEN "host path" ELSE Resolved(text)

\* Nobody's file: it was written past the sandboxes that keep a record.
Disowned(f, n) == [o \in FileThreads |-> f[o] \ {n}]
-----------------------------------------------------------------------------
(* Uploads. *)

\* A file of a request is written to the thread's directory.
Upload(t, n) ==
    /\ syncing[t] = NoFile /\ uploads < MaxUploads
    /\ uploads' = uploads + 1
    /\ uploaded' = [uploaded EXCEPT ![t] = @ \cup {n}]
    /\ syncing' = [syncing EXCEPT ![t] = n]
    /\ Uses(t)
    /\ UNCHANGED <<shared, named, announced, due, listings>>

\* update_file, for a user's text; a convertible file gets a markdown sibling
\* in the directory, which is then written to the sandbox in its turn.
Sync(t) ==
    LET n == syncing[t]  md == ConvertsTo[n] IN
    /\ n # NoFile
    /\ \E text \in Contents : shared' = [shared EXCEPT ![n] = text]
    /\ mine' = Disowned(mine, n)
    /\ \/ /\ md # n
          /\ uploaded' = [uploaded EXCEPT ![t] = @ \cup {md}]
          /\ syncing' = [syncing EXCEPT ![t] = md]
       \/ /\ syncing' = [syncing EXCEPT ![t] = NoFile]
          /\ UNCHANGED uploaded
    /\ UNCHANGED <<cached, recorded, unrecorded, editing, named, announced, due, uploads, listings>>

\* The request fails half way, or comes from the embedded client, which does
\* not write to the sandbox.
SyncNot(t) ==
    /\ syncing[t] # NoFile
    /\ syncing' = [syncing EXCEPT ![t] = NoFile]
    /\ UNCHANGED <<uploaded, shared, cached, recorded, unrecorded, editing, named, announced,
                   due, mine, uploads, listings>>

\* delete_uploaded_file: from the directory only.
DeleteUpload(t, n) ==
    /\ n \in uploaded[t]
    /\ uploaded' = [uploaded EXCEPT ![t] = @ \ {n}]
    /\ UNCHANGED <<shared, cached, recorded, unrecorded, syncing, editing, named, announced,
                   due, mine, uploads, listings>>
-----------------------------------------------------------------------------
(* The agent. *)

\* Mutant: the files of the last message count as shown when it is scanned.
NewFilesSkippingLast(t) == uploaded[t] \ (named[t] \cup {ReadAs[n] : n \in uploaded[t]})

\* _list_newly_uploaded_files
NewFiles(t) == uploaded[t] \ named[t]

\* before_agent of a turn: the new files are listed in its message.
ListFiles(t) ==
    /\ listings < MaxListings
    /\ listings' = listings + 1
    /\ named' = [named EXCEPT ![t] = @ \cup {ReadAs[n] : n \in NewFiles(t)}]
    /\ announced' = [announced EXCEPT ![t] = @ \cup NewFiles(t)]
    /\ due' = [due EXCEPT ![t] = @ \cup uploaded[t]]
    /\ UNCHANGED <<uploaded, shared, cached, recorded, unrecorded, syncing, editing, mine, uploads>>

\* A tool that changes no file: ls, read_file.
UseSandbox(t) ==
    /\ Uses(t)
    /\ UNCHANGED <<uploaded, shared, syncing, named, announced, due, uploads, listings>>

\* write_file writes,
WriteByTool(t, n, text, append) ==
    /\ cached' = Acquired(t) /\ editing' = Detached(t)
    /\ shared' = [shared EXCEPT ![n] = Content(n, text, append)]
    /\ recorded' = Cleared(t, recorded)
    /\ unrecorded' = [Cleared(t, unrecorded) EXCEPT ![t] = @ \cup Records(n, append)]
    /\ mine' = [Disowned(Cleared(t, mine), n) EXCEPT ![t] = @ \cup {n}]
    /\ UNCHANGED <<uploaded, syncing, named, announced, due, uploads, listings>>

\* and records the path.
RecordWrite(t, n) ==
    /\ n \in unrecorded[t]
    /\ recorded' = [recorded EXCEPT ![t] = @ \cup {n}]
    /\ unrecorded' = [unrecorded EXCEPT ![t] = @ \ {n}]
    /\ UNCHANGED <<uploaded, shared, cached, syncing, editing, named, announced, due, mine,
                   uploads, listings>>

\* bash writes a file: its text is that of the command, with host paths.
BashWrites(t, n, text) ==
    /\ cached' = Acquired(t) /\ editing' = Detached(t)
    /\ recorded' = Cleared(t, recorded) /\ unrecorded' = Cleared(t, unrecorded)
    /\ shared' = [shared EXCEPT ![n] = Resolved(text)]
    /\ mine' = Disowned(Cleared(t, mine), n)
    /\ UNCHANGED <<uploaded, syncing, named, announced, due, uploads, listings>>

\* str_replace reads a file,
BeginReplace(t, n) ==
    /\ editing[t] = NoEdit /\ shared[n] # NoFile
    /\ cached' = Acquired(t)
    /\ recorded' = Cleared(t, recorded) /\ unrecorded' = Cleared(t, unrecorded)
    /\ mine' = Cleared(t, mine)
    /\ editing' = [Detached(t) EXCEPT ![t] = [name |-> n, text |-> ReadBack(t, n), current |-> TRUE]]
    /\ UNCHANGED <<uploaded, shared, syncing, named, announced, due, uploads, listings>>

\* and writes what it has made of it, through the sandbox it has read with.
EndReplace(t) ==
    LET edit == editing[t]  own == IF edit.current THEN {edit.name} ELSE {} IN
    /\ edit # NoEdit
    /\ \E text \in {edit.text, "skill path"} : shared' = [shared EXCEPT ![edit.name] = Resolved(text)]
    /\ unrecorded' = [unrecorded EXCEPT ![t] = @ \cup own]
    /\ mine' = [Disowned(mine, edit.name) EXCEPT ![t] = @ \cup own]
    /\ editing' = [editing EXCEPT ![t] = NoEdit]
    /\ UNCHANGED <<uploaded, cached, recorded, syncing, named, announced, due, uploads, listings>>

UploadStep == \E t \in FileThreads : Sync(t) \/ SyncNot(t) \/ \E n \in FileNames : Upload(t, n)

ListStep == \E t \in FileThreads : ListFiles(t) \/ \E n \in FileNames : DeleteUpload(t, n)

ToolStep ==
    \E t \in FileThreads :
        \/ UseSandbox(t) \/ EndReplace(t)
        \/ \E n \in Edited : BeginReplace(t, n) \/ RecordWrite(t, n)
        \/ \E n \in Edited, text \in Contents :
              \/ BashWrites(t, n, text)
              \/ \E append \in BOOLEAN : WriteByTool(t, n, text, append)

FilesNext == UploadStep \/ ListStep \/ ToolStep

FilesSpec == FilesInit /\ [][FilesNext]_filesVars
-----------------------------------------------------------------------------
(* Properties. *)

\* A file that is there when a turn begins has been listed, unless another was
\* listed whose line is read back as this name.
UploadsAreListed ==
    \A t \in FileThreads : \A n \in due[t] :
        n \in announced[t] \/ \E o \in announced[t] : o # n /\ ReadAs[o] = n

\* In what it wrote last an agent never reads a host path, whoever edits in
\* parallel, once the write is recorded and unless its sandbox has left the cache since.
OwnPathsReadBack ==
    \A t \in FileThreads : \A n \in mine[t] \ unrecorded[t] : ReadBack(t, n) # "host path"

\* The files of a thread get to its agent as they should.
AgentSeesFiles == UploadsAreListed /\ OwnPathsReadBack
=============================================================================

---------------------------- MODULE ThreadRecords ----------------------------
(***************************************************************************)
(* One thread, and the places that know it: the list of the agent server   *)
(* (core/state.py), the row of the threads table (storage/                 *)
(* session_manager.py), the checkpoint, the channels of a run in progress, *)
(* and a page of the frontend.                                             *)
(*                                                                         *)
(* A title is in four of them and five parties write it: the page when a   *)
(* thread is new and whenever a stream has ended, the title middleware     *)
(* after the first exchange, the user who renames (in the checkpoint, then *)
(* in the row), and the run, which saves its channels over whatever the    *)
(* checkpoint holds.  The checkpointer is external: each save is a         *)
(* checkpoint of all channels, and the last one is read.  Requests of the  *)
(* page that nobody awaits arrive in any order, or never.                  *)
(***************************************************************************)
EXTENDS Integers

CONSTANTS Wished,    \* titles users give
          MaxRuns,  \* bound: runs on the thread
          MaxAsks   \* bound: renames

VARIABLES listed,    \* is the thread in _threads?
          row,       \* the title of its row, or Absent
          saved,     \* the title in the last checkpoint, or Absent
          run,       \* the run: its phase and its title channel
          exchanges,     \* human messages in the state
          page,      \* the page: its phase and the title it shows
          patches,   \* titles the page has sent to the gateway
          rename,    \* a rename whose row is still to be written, or Absent
          deletion,  \* where a deletion is
          asked,     \* history: the last rename, if no run was in progress
          gone,      \* history: was the row deleted, and not created since?
          asks       \* renames so far

wishes == <<asked, gone, asks>>
recordVars == <<listed, row, saved, run, exchanges, page, patches, rename, deletion, wishes>>

Absent == "absent"
Untitled == "untitled"        \* no title, or an empty one
FirstWords == "first words"   \* what the page calls a new thread
Generated == "generated"      \* what the title middleware calls it
Titles == Wished \cup {Untitled, FirstWords, Generated}

\* The dialog takes no empty title.
ASSUME RecordsAssumption == Untitled \notin Wished /\ MaxRuns \in Nat /\ MaxAsks \in Nat

RecordsTypeOK ==
    /\ listed \in BOOLEAN /\ gone \in BOOLEAN
    /\ row \in Titles \cup {Absent} /\ saved \in Titles \cup {Absent}
    /\ run \in [phase : {"idle", "running", "titling", "titled"}, title : Titles]
    /\ exchanges \in 0 .. MaxRuns /\ asks \in 0 .. MaxAsks
    /\ page \in [phase : {"closed", "new", "ready", "streaming"}, title : Titles]
    /\ patches \subseteq Titles \ {Untitled}
    /\ rename \in Wished \cup {Absent} /\ asked \in Wished \cup {Absent}
    /\ deletion \in {"none", "unlisted", "selected"}

\* The user has opened the page of a new thread.
RecordsInit ==
    /\ listed = FALSE /\ row = Absent /\ saved = Absent /\ exchanges = 0
    /\ run = [phase |-> "idle", title |-> Untitled]
    /\ page = [phase |-> "new", title |-> Untitled] /\ patches = {}
    /\ rename = Absent /\ deletion = "none" /\ asked = Absent /\ gone = FALSE /\ asks = 0
-----------------------------------------------------------------------------
(* The row. *)

\* create_session: an upsert.
Upserted(title) == title

\* Mutant: update_title creates the row, as ensure_session_exists does.
UpdatedOrMade(title) == title

\* update_title and update_session.
Updated(title) == IF row = Absent THEN row ELSE title
-----------------------------------------------------------------------------
(* The page. *)

PageIs(phase) == [phase |-> phase, title |-> page.title]
RunIs(phase) == [phase |-> phase, title |-> run.title]

\* A stream has ended: the page sends the title it shows.
StreamEnds(title) ==
    /\ page' = [phase |-> "ready", title |-> title]
    /\ patches' = patches \cup ({title} \ {Untitled})

\* The page of a new thread creates the row, which may fail.
CreateRow ==
    /\ page.phase = "new"
    /\ page' = PageIs("ready")
    /\ \/ row' = Upserted(FirstWords) /\ gone' = FALSE
       \/ UNCHANGED <<row, gone>>
    /\ UNCHANGED <<listed, saved, run, exchanges, patches, rename, deletion, asked, asks>>

OpenPage ==
    /\ page.phase = "closed"
    /\ page' = [phase |-> "ready", title |-> IF saved = Absent THEN Untitled ELSE saved]
    /\ UNCHANGED <<listed, row, saved, run, exchanges, patches, rename, deletion, wishes>>

ClosePage ==
    /\ page.phase \notin {"closed", "new"}
    /\ page' = PageIs("closed")
    /\ UNCHANGED <<listed, row, saved, run, exchanges, patches, rename, deletion, wishes>>

\* The user stops the stream, or the connection breaks; the run goes on.
StopStream ==
    /\ page.phase = "streaming"
    /\ StreamEnds(page.title)
    /\ UNCHANGED <<listed, row, saved, run, exchanges, rename, deletion, wishes>>

\* A PATCH of the page arrives at the gateway, or does not.
PatchArrives(title) ==
    /\ title \in patches
    /\ patches' = patches \ {title}
    /\ \/ row' = Updated(title)
       \/ UNCHANGED row
    /\ UNCHANGED <<listed, saved, run, exchanges, page, rename, deletion, wishes>>
-----------------------------------------------------------------------------
(* A run on the thread; one at a time. *)

\* stream_run: the run begins with the channels of the checkpoint.
Submit ==
    /\ page.phase = "ready" /\ run.phase = "idle" /\ exchanges < MaxRuns
    /\ listed' = TRUE
    /\ run' = [phase |-> "running", title |-> IF saved = Absent THEN Untitled ELSE saved]
    /\ exchanges' = exchanges + 1
    /\ page' = PageIs("streaming")
    /\ UNCHANGED <<row, saved, patches, rename, deletion, wishes>>

\* The title a streaming page shows after a values event.
Shown(title) == IF title = Untitled THEN page.title ELSE title

\* A superstep: the checkpointer saves the channels and the page gets them.
SaveChannels ==
    /\ run.phase = "running"
    /\ saved' = run.title
    /\ page' = IF page.phase = "streaming" THEN [phase |-> page.phase, title |-> Shown(run.title)] ELSE page
    /\ UNCHANGED <<listed, row, run, exchanges, patches, rename, deletion, wishes>>

\* Mutant: the title is generated for every thread with one exchange.
ShouldGenerateAgain == exchanges = 1

\* _should_generate_title
ShouldGenerate == run.title = Untitled /\ exchanges = 1

\* aafter_agent asks a model for a title.
BeginTitle ==
    /\ run.phase = "running" /\ ShouldGenerate
    /\ run' = RunIs("titling")
    /\ UNCHANGED <<listed, row, saved, exchanges, page, patches, rename, deletion, wishes>>

\* aafter_agent has one, and puts it in the row; a failure is only logged.
SyncTitle ==
    /\ run.phase = "titling"
    /\ run' = RunIs("titled")
    /\ \/ row' = Updated(Generated)
       \/ UNCHANGED row
    /\ UNCHANGED <<listed, saved, exchanges, page, patches, rename, deletion, wishes>>

\* A page that streams gets the end event; it shows the given title by then.
StreamSees(title) ==
    IF page.phase = "streaming" THEN StreamEnds(title) ELSE UNCHANGED <<page, patches>>

\* The run is over, with its last superstep saved or, if it failed or was
\* cancelled, without.
EndRun ==
    LET title == IF run.phase = "titled" THEN Generated ELSE run.title IN
    /\ run.phase # "idle"
    /\ run' = [phase |-> "idle", title |-> Untitled]
    /\ \/ saved' = title /\ StreamSees(Shown(title))
       \/ UNCHANGED saved /\ StreamSees(page.title)
    /\ UNCHANGED <<listed, row, exchanges, rename, deletion, wishes>>

\* The agent server restarts: its list and its run are gone.
RestartServer ==
    /\ listed' = FALSE
    /\ run' = [phase |-> "idle", title |-> Untitled]
    /\ StreamSees(page.title)
    /\ UNCHANGED <<row, saved, exchanges, rename, deletion, wishes>>
-----------------------------------------------------------------------------
(* Renaming and deleting, from the list of threads. *)

\* useRenameThread: first update_thread_state; if it fails nothing follows.
RenameState(title) ==
    /\ asks < MaxAsks /\ rename = Absent
    /\ asks' = asks + 1
    /\ saved' = title
    /\ rename' = title
    /\ asked' = IF run.phase = "idle" THEN title ELSE Absent
    /\ UNCHANGED <<listed, row, run, exchanges, page, patches, deletion, gone>>

\* Then update_session, whose failure is ignored.
RenameRow ==
    /\ rename # Absent
    /\ rename' = Absent
    /\ \/ row' = Updated(rename)
       \/ UNCHANGED row
    /\ UNCHANGED <<listed, saved, run, exchanges, page, patches, deletion, wishes>>

\* useDeleteThread: the thread leaves the list of the agent server,
Unlist ==
    /\ deletion = "none" /\ row # Absent
    /\ listed' = FALSE
    /\ deletion' = "unlisted"
    /\ UNCHANGED <<row, saved, run, exchanges, page, patches, rename, wishes>>

\* delete_session looks for its owner,
SelectOwner ==
    /\ deletion = "unlisted"
    /\ deletion' = IF row = Absent THEN "none" ELSE "selected"
    /\ UNCHANGED <<listed, row, saved, run, exchanges, page, patches, rename, wishes>>

\* and deletes the row; the checkpoints stay.
DeleteRow ==
    /\ deletion = "selected"
    /\ row' = Absent /\ gone' = TRUE
    /\ deletion' = "none"
    /\ UNCHANGED <<listed, saved, run, exchanges, page, patches, rename, asked, asks>>

\* ensure_thread, for GET and PATCH: the checkpoint brings a thread back.
EnsureThread ==
    /\ ~listed /\ saved # Absent
    /\ listed' = TRUE
    /\ UNCHANGED <<row, saved, run, exchanges, page, patches, rename, deletion, wishes>>

RecordsNext ==
    \/ CreateRow \/ OpenPage \/ ClosePage \/ StopStream
    \/ \E title \in patches : PatchArrives(title)
    \/ Submit \/ SaveChannels \/ BeginTitle \/ SyncTitle \/ EndRun \/ RestartServer
    \/ \E title \in Wished : RenameState(title)
    \/ RenameRow \/ Unlist \/ SelectOwner \/ DeleteRow \/ EnsureThread

RecordsSpec == RecordsInit /\ [][RecordsNext]_recordVars
-----------------------------------------------------------------------------
(* Properties. *)

\* A rename made while no run is in progress stays in the checkpoint until the
\* next one: runs begin with it, save it again, and generate no title over it.
RenamesEndure ==
    asked # Absent => /\ saved = asked
                      /\ run.phase # "idle" => run.title = asked

\* What the user asked for stays so: renames, and deletions of the row, which
\* no title brings back that is still under way, be it of a page, of a run
\* that goes on, or of a rename.
WishesEndure == RenamesEndure /\ (gone => row = Absent)
=============================================================================

--------------------------- MODULE AnalysisCache ---------------------------
(***************************************************************************)
(* skills/public/data-analysis/scripts/analyze.py: each call loads its     *)
(* files into a DuckDB database, or finds one that an earlier call has     *)
(* loaded.  The database and the map of its tables are two files, found by *)
(* a hash of the contents of the data files.                               *)
(*                                                                         *)
(* Here is what goes on under one hash: calls whose files have the same    *)
(* contents, though not the same names nor the same order.  DuckDB is      *)
(* external: a connection that may write excludes all others, and what is  *)
(* refused ends the call.  A file that is removed lives on for those that  *)
(* are connected to it.                                                    *)
(***************************************************************************)
EXTENDS Integers, Sequences, FiniteSets

CONSTANTS Calls,
          FilesOf,    \* a call's data files, in order: [name, holds]
          MaxDeaths   \* bound: calls killed

DataFiles == UNION {{FilesOf[c][i] : i \in DOMAIN FilesOf[c]} : c \in Calls}
FileLabels == {file.name : file \in DataFiles}

\* --files takes one file or more; and the markers below are the names of none.
ASSUME CacheAssumption ==
    /\ MaxDeaths \in Nat
    /\ \A c \in Calls : FilesOf[c] \in Seq(DataFiles) /\ FilesOf[c] # <<>>
    /\ {"no database", "written"} \cap FileLabels = {}

VARIABLES tables,    \* the database file: table -> text, or NoDatabase
          tableMap,  \* the map file: name -> table, NoMap, or TornMap
          analyses,  \* where each call is, its map, the files left to load, and
                     \* the database it is connected to if that was removed
          deaths,    \* number of killed calls
          beside,    \* history: a call began beside another
          barren,    \* history: a call could not load any table
          rewritten, \* history: a query has changed tables of the cache
          vain       \* history: how many calls failed that could read their files

cacheVars == <<tables, tableMap, analyses, deaths, beside, barren, rewritten, vain>>

NoDatabase == [t \in {<<"no database", 0>>} |-> FALSE]
NoMap == [written |-> FALSE]
TornMap == [written |-> TRUE]
EmptyMap == <<>>   \* a map, or a database, of nothing

\* A file's table: its name, or name_1, ... when that is taken.
TableNames == FileLabels \X Nat

NewCall == [at |-> "new", map |-> EmptyMap, left |-> EmptyMap, own |-> NoDatabase,
            unread |-> FALSE]
UnderWay(c) == analyses[c].at \notin {"new", "over"}
Loads(c) == analyses[c].at \in {"loading", "saving", "working"}
Linked(c) == analyses[c].own = NoDatabase
Seen(c) == IF Linked(c) THEN tables ELSE analyses[c].own

CacheTypeOK ==
    /\ tables = NoDatabase \/ DOMAIN tables \subseteq TableNames
    /\ tableMap \in {NoMap, TornMap} \/ DOMAIN tableMap \subseteq FileLabels
    /\ \A c \in Calls :
          /\ analyses[c].at \in {"new", "mapped", "hit", "miss", "loading", "saving",
                                "working", "reading", "emptied", "over"}
          /\ DOMAIN analyses[c].map \subseteq FileLabels
    /\ \A c, d \in {o \in Calls : Linked(o)} :
          Loads(c) /\ c # d => ~Loads(d) /\ analyses[d].at # "reading"
    /\ deaths \in 0 .. MaxDeaths /\ beside \in BOOLEAN /\ barren \in BOOLEAN
    /\ rewritten \in BOOLEAN /\ vain \in Nat

CacheInit ==
    /\ tables = NoDatabase /\ tableMap = NoMap
    /\ analyses = [c \in Calls |-> NewCall]
    /\ deaths = 0 /\ beside = FALSE /\ barren = FALSE /\ rewritten = FALSE /\ vain = 0

Moves(c, at) == analyses' = [analyses EXCEPT ![c].at = at]
Fails(c) ==
    /\ analyses' = [analyses EXCEPT ![c] = [NewCall EXCEPT !.at = "over"]]
    /\ vain' = IF analyses[c].unread THEN vain ELSE vain + 1
-----------------------------------------------------------------------------
\* load_table_map: what cannot be read is no map.
ReadMap(c) ==
    /\ analyses[c].at = "new"
    /\ analyses' = [analyses EXCEPT ![c].at = "mapped",
                ![c].map = IF tableMap \in {NoMap, TornMap} THEN EmptyMap ELSE tableMap]
    /\ beside' = (beside \/ \E d \in Calls : UnderWay(d))
    /\ UNCHANGED <<tables, tableMap, deaths, barren, rewritten, vain>>

\* cached_table_map and os.path.exists(db_path)
LookUp(c) ==
    /\ analyses[c].at = "mapped"
    /\ Moves(c, IF analyses[c].map # EmptyMap /\ tables # NoDatabase THEN "hit" ELSE "miss")
    /\ UNCHANGED <<tables, tableMap, deaths, beside, barren, rewritten, vain>>

Busy(c, who(_)) == \E d \in Calls \ {c} : Linked(d) /\ who(d)

\* duckdb.connect(db_path, read_only=True)
ConnectToRead(c) ==
    /\ analyses[c].at = "hit"
    /\ IF tables = NoDatabase \/ Busy(c, Loads) THEN Fails(c)
       ELSE Moves(c, "reading") /\ UNCHANGED vain
    /\ UNCHANGED <<tables, tableMap, deaths, beside, barren, rewritten>>

\* duckdb.connect(db_path)
ConnectToLoad(c) ==
    /\ analyses[c].at = "miss"
    /\ IF Busy(c, LAMBDA d : Loads(d) \/ analyses[d].at = "reading")
       THEN Fails(c) /\ UNCHANGED tables
       ELSE /\ analyses' = [analyses EXCEPT ![c].at = "loading", ![c].map = EmptyMap,
                                            ![c].left = FilesOf[c]]
            /\ tables' = IF tables = NoDatabase THEN EmptyMap ELSE tables
            /\ UNCHANGED vain
    /\ UNCHANGED <<tableMap, deaths, beside, barren, rewritten>>

With(f, x, v) == [y \in DOMAIN f \cup {x} |-> IF y = x THEN v ELSE f[y]]

\* The first of name, name_1, ... that no file in the map has.
TableFor(map, name) ==
    LET taken == {map[n] : n \in DOMAIN map}
        k == CHOOSE i \in 0 .. Cardinality(taken) :
                /\ <<name, i>> \notin taken
                /\ \A j \in 0 .. (i - 1) : <<name, j>> \in taken
    IN <<name, k>>

\* _load_csv, and _load_excel for each sheet: a table that cannot be created,
\* because it exists or the file cannot be read, is left out.
LoadFile(c) ==
    LET file   == Head(analyses[c].left)
        table  == TableFor(analyses[c].map, file.name)
        loaded == With(Seen(c), table, file.holds)
        rest   == [analyses[c] EXCEPT !.left = Tail(@)]
        done   == [rest EXCEPT !.map = With(@, file.name, table)]
    IN /\ analyses[c].at = "loading" /\ analyses[c].left # <<>>
       /\ \/ /\ table \notin DOMAIN Seen(c)
             /\ IF Linked(c)
                THEN tables' = loaded /\ analyses' = [analyses EXCEPT ![c] = done]
                ELSE /\ analyses' = [analyses EXCEPT ![c] = [done EXCEPT !.own = loaded]]
                     /\ UNCHANGED tables
          \/ /\ table \in DOMAIN Seen(c)
             /\ analyses' = [analyses EXCEPT ![c] = rest]
             /\ UNCHANGED tables
          \/ /\ analyses' = [analyses EXCEPT ![c] = [rest EXCEPT !.unread = TRUE]]
             /\ UNCHANGED tables
       /\ UNCHANGED <<tableMap, deaths, beside, barren, rewritten, vain>>

\* save_table_map, unless there are no tables: then the connection is closed.
Loaded(c) ==
    /\ analyses[c].at = "loading" /\ analyses[c].left = <<>>
    /\ IF analyses[c].map = EmptyMap
       THEN Moves(c, "emptied") /\ barren' = TRUE /\ UNCHANGED tableMap
       ELSE Moves(c, "saving") /\ tableMap' = TornMap /\ UNCHANGED barren
    /\ UNCHANGED <<tables, deaths, beside, rewritten, vain>>

SaveMap(c) ==
    /\ analyses[c].at = "saving"
    /\ tableMap' = analyses[c].map
    /\ Moves(c, "working")
    /\ UNCHANGED <<tables, deaths, beside, barren, rewritten, vain>>

\* Mutant: the database that has no tables for the map stays.
RemoveNothing(c) ==
    /\ analyses[c].at = "emptied"
    /\ Fails(c)
    /\ UNCHANGED <<tables, tableMap, deaths, beside, barren, rewritten>>

\* os.remove(db_path)
RemoveDatabase(c) ==
    /\ analyses[c].at = "emptied"
    /\ analyses' = [d \in Calls |->
                   IF d = c THEN [NewCall EXCEPT !.at = "over"]
                   ELSE IF Linked(d) /\ (Loads(d) \/ analyses[d].at = "reading")
                   THEN [analyses[d] EXCEPT !.own = tables] ELSE analyses[d]]
    /\ vain' = IF analyses[c].unread THEN vain ELSE vain + 1
    /\ tables' = NoDatabase
    /\ UNCHANGED <<tableMap, deaths, beside, barren, rewritten>>

Works(c) == analyses[c].at \in {"reading", "working"}
Ends(c) == analyses' = [analyses EXCEPT ![c] = [NewCall EXCEPT !.at = "over"]]
HasTables(c) == \A n \in DOMAIN analyses[c].map : analyses[c].map[n] \in DOMAIN Seen(c)

\* action_inspect describes every table of the map.
Inspect(c) ==
    /\ Works(c)
    /\ IF HasTables(c) THEN Ends(c) /\ UNCHANGED vain ELSE Fails(c)
    /\ UNCHANGED <<tables, tableMap, deaths, beside, barren, rewritten>>

\* action_query runs any SQL: one that drops a table drops it from the cache if
\* this is the call that has loaded it.  After an error it describes the tables.
Query(c) ==
    /\ Works(c)
    /\ \/ Ends(c) /\ UNCHANGED <<tables, rewritten, vain>>
       \/ ~HasTables(c) /\ Fails(c) /\ UNCHANGED <<tables, rewritten>>
       \/ /\ analyses[c].at = "working" /\ Linked(c) /\ Ends(c)
          /\ \E dropped \in DOMAIN tables :
                tables' = [t \in DOMAIN tables \ {dropped} |-> tables[t]]
          /\ rewritten' = TRUE /\ UNCHANGED vain
    /\ UNCHANGED <<tableMap, deaths, beside, barren>>

\* action_summary says so if it finds no such table.
Summarise(c) ==
    /\ Works(c) /\ Ends(c)
    /\ UNCHANGED <<tables, tableMap, deaths, beside, barren, rewritten, vain>>

\* bash's timeout or the end of the sandbox kills a call, or an exception ends it:
\* a workbook that cannot be opened, an extension that cannot be installed.
Die(c) ==
    /\ UnderWay(c) /\ deaths < MaxDeaths
    /\ deaths' = deaths + 1
    /\ analyses' = [analyses EXCEPT ![c] = [NewCall EXCEPT !.at = "over"]]
    /\ UNCHANGED <<tables, tableMap, beside, barren, rewritten, vain>>

CacheNext ==
    \E c \in Calls :
        \/ ReadMap(c) \/ LookUp(c) \/ ConnectToRead(c) \/ ConnectToLoad(c) \/ LoadFile(c)
        \/ Loaded(c) \/ SaveMap(c) \/ RemoveDatabase(c)
        \/ Inspect(c) \/ Query(c) \/ Summarise(c) \/ Die(c)

CacheSpec == CacheInit /\ [][CacheNext]_cacheVars
-----------------------------------------------------------------------------
TextsOf(name) == {file.holds : file \in {f \in DataFiles : f.name = name}}

\* A call finds every table of its map, with the text of a file of that name:
\* if calls come one after the other, or if none had to leave with no table;
\* though some be killed.  (Unless a query has dropped a table.)
TablesAreFound ==
    ~rewritten /\ (~beside \/ ~barren) =>
        \A c \in Calls : Works(c) =>
            \A n \in DOMAIN analyses[c].map :
                /\ analyses[c].map[n] \in DOMAIN Seen(c)
                /\ Seen(c)[analyses[c].map[n]] \in TextsOf(n)

\* When calls come one after the other, each that was killed makes at most one
\* other fail.
DeathsAreRepaired == ~beside /\ ~rewritten => vain <= deaths

AnalysisHolds == TablesAreFound /\ DeathsAreRepaired
=============================================================================

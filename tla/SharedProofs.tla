---------------------------- MODULE SharedProofs ----------------------------
(***************************************************************************)
(* What processes share on disk, in Redis and in PostgreSQL: the custom    *)
(* skills, the pool and the checkpointer, the stream of a run, and the     *)
(* cache of data analyses, for any number of processes, coroutines,        *)
(* readers, events, calls and files.                                       *)
(***************************************************************************)
EXTENDS SkillInstall, Storage, RedisStream, AnalysisCache, Lemmas

-----------------------------------------------------------------------------
(***************************************************************************)
(* Custom skills stay whole. That a directory has one archive is not       *)
(* inductive: who copies must be alone in the directory and find there     *)
(* only what it has copied itself. Both follow from mkdir, which only one  *)
(* process can be successful with.                                         *)
(***************************************************************************)

Copies(i) == installs[i].at = "copying"

CopiersAreAlone ==
    \A i, j \in Installers : Copies(i) /\ Copies(j) /\ TargetOf(i) = TargetOf(j) => i = j

CopiersOwnTheirDirectory ==
    \A i \in Installers : Copies(i) =>
        /\ TargetOf(i) \in custom
        /\ \A c \in content : c[1] = TargetOf(i) => c[2] = installs[i].archive

FoundIsRead == \A s \in listing.found : s.dir \notin listing.toRead

SkillsInv ==
    /\ SkillsTypeOK /\ CopiersAreAlone /\ CopiersOwnTheirDirectory
    /\ FoundIsRead /\ SkillsAreWhole

\* The request of an installer that is at nothing.
LEMMA NoInstallTyped ==
    NoInstall \in [at : {"idle", "valid", "free", "copying"}, archive : Archives] /\ NoInstall.at = "idle"
BY InstallAssumption DEF NoInstall

\* Nobody installs anything at the start.
LEMMA SkillsInitially == SkillsInit => SkillsInv
<1> SUFFICES ASSUME SkillsInit PROVE SkillsInv
  OBVIOUS
<1> USE InstallAssumption, NoInstallTyped DEF SkillsInit
<1>1. /\ installs \in [Installers -> [at : {"idle", "valid", "free", "copying"}, archive : Archives]]
      /\ \A i \in Installers : installs[i].at = "idle"
  OBVIOUS
<1>2. listing.toRead = {} /\ listing.found = {}
  BY DEF NoListing
<1>3. SkillsTypeOK
  BY <1>1, <1>2 DEF SkillsTypeOK
<1>4. CopiersAreAlone /\ CopiersOwnTheirDirectory
  BY <1>1 DEF CopiersAreAlone, CopiersOwnTheirDirectory, Copies
<1>5. FoundIsRead /\ ListedOnce
  BY <1>2 DEF FoundIsRead, ListedOnce
<1>6. OneArchiveEach /\ AnsweredIsThere /\ PartialHasAReason
  BY DEF OneArchiveEach, AnsweredIsThere, PartialHasAReason
<1> QED
  BY <1>3, <1>4, <1>5, <1>6 DEF SkillsInv, SkillsAreWhole

\* A step that leaves the directory alone, and who copies into it.
LEMMA OutsideKeeps ==
  ASSUME SkillsInv, SkillsTypeOK',
         UNCHANGED <<custom, content, succeeded, left, listing>>,
         \A i \in Installers : /\ Copies(i)' <=> Copies(i)
                               /\ Copies(i) => installs'[i] = installs[i]
  PROVE  SkillsInv'
<1> USE DEF SkillsInv, SkillsAreWhole
<1>1. \A i \in Installers : Copies(i) => TargetOf(i)' = TargetOf(i)
  BY DEF TargetOf
<1>2. CopiersAreAlone'
  BY <1>1 DEF CopiersAreAlone
<1>3. CopiersOwnTheirDirectory'
  BY <1>1 DEF CopiersOwnTheirDirectory
<1>4. FoundIsRead' /\ ListedOnce'
  BY DEF FoundIsRead, ListedOnce
<1>5. OneArchiveEach' /\ AnsweredIsThere'
  BY DEF OneArchiveEach, AnsweredIsThere
<1>6. PartialHasAReason'
  BY <1>1 DEF PartialHasAReason, IsWhole, Copying, Copies
<1> QED
  BY <1>2, <1>3, <1>4, <1>5, <1>6

\* The request moves to another point, which is not the copying.
LEMMA MovesOn ==
  ASSUME SkillsInv, NEW i \in Installers, ~Copies(i), NEW r,
         r \in [at : {"idle", "valid", "free"}, archive : Archives],
         r.at # "idle" => NamedBy[r.archive] # Unnamed,
         installs' = [installs EXCEPT ![i] = r],
         installed' \in 0 .. MaxInstalls,
         UNCHANGED <<custom, content, succeeded, left, listing, troubles>>
  PROVE  SkillsInv'
<1> USE DEF SkillsInv
<1>1. installs'[i] = r /\ \A j \in Installers \ {i} : installs'[j] = installs[j]
  BY DEF SkillsTypeOK
<1>2. installs' \in [Installers -> [at : {"idle", "valid", "free", "copying"}, archive : Archives]]
  BY DEF SkillsTypeOK
<1>3. ASSUME NEW j \in Installers, installs'[j].at # "idle"
      PROVE  TargetOf(j)' \in SkillNames
  BY <1>1, <1>3 DEF SkillsTypeOK, TargetOf, SkillNames
<1>4. SkillsTypeOK'
  BY <1>2, <1>3 DEF SkillsTypeOK
<1>5. \A j \in Installers : /\ Copies(j)' <=> Copies(j)
                            /\ Copies(j) => installs'[j] = installs[j]
  BY <1>1 DEF Copies
<1> QED
  BY <1>4, <1>5, OutsideKeeps

\* An archive is validated.
LEMMA ValidateKeeps ==
  ASSUME SkillsInv, NEW i \in Installers, NEW a \in Archives, Validate(i, a)
  PROVE  SkillsInv'
<1> DEFINE r == [at |-> "valid", archive |-> a]
<1>1. /\ ~Copies(i) /\ NamedBy[r.archive] # Unnamed
      /\ installs' = [installs EXCEPT ![i] = r]
      /\ UNCHANGED <<custom, content, succeeded, left, listing, troubles>>
  BY DEF Validate, Copies
<1>2. installed' \in 0 .. MaxInstalls
  BY InstallAssumption DEF Validate, SkillsInv, SkillsTypeOK
<1>3. r \in [at : {"idle", "valid", "free"}, archive : Archives]
  OBVIOUS
<1> QED
  BY <1>1, <1>2, <1>3, MovesOn

\* exists() moves the request on, or ends it.
LEMMA CheckTargetKeeps ==
  ASSUME SkillsInv, NEW i \in Installers, CheckTarget(i)
  PROVE  SkillsInv'
<1>1. /\ ~Copies(i) /\ UNCHANGED <<custom, content, succeeded, left, listing, installed, troubles>>
      /\ installs[i].at = "valid"
  BY DEF CheckTarget, Copies
<1>2. installed' \in 0 .. MaxInstalls
  BY <1>1 DEF SkillsInv, SkillsTypeOK
<1>3. CASE installs' = [installs EXCEPT ![i] = NoInstall]
  <2>1. NoInstall \in [at : {"idle", "valid", "free"}, archive : Archives] /\ NoInstall.at = "idle"
    BY InstallAssumption DEF NoInstall
  <2> QED
    BY <1>1, <1>2, <1>3, <2>1, MovesOn
<1>4. CASE installs' = [installs EXCEPT ![i] = InstallAt(i, "free")]
  <2>1. InstallAt(i, "free") \in [at : {"idle", "valid", "free"}, archive : Archives]
    BY DEF InstallAt, SkillsInv, SkillsTypeOK
  <2>2. NamedBy[InstallAt(i, "free").archive] # Unnamed
    BY <1>1 DEF InstallAt, TargetOf, SkillNames, SkillsInv, SkillsTypeOK
  <2> QED
    BY <1>1, <1>2, <1>4, <2>1, <2>2, MovesOn
<1> QED
  BY <1>3, <1>4 DEF CheckTarget

\* mkdir: whoever makes the directory finds nothing in it, and is alone.
LEMMA MakeDirKeeps ==
  ASSUME SkillsInv, NEW i \in Installers, MakeDir(i)
  PROVE  SkillsInv'
<1> USE DEF SkillsInv
<1> DEFINE t == TargetOf(i)
<1>1. /\ installs[i].at = "free" /\ ~Copies(i) /\ t \in SkillNames
      /\ custom' = custom \cup {t}
      /\ UNCHANGED <<content, succeeded, left, listing, installed, troubles>>
  BY DEF MakeDir, Copies, SkillsTypeOK
<1>2. CASE t \in custom
  <2>1. custom' = custom /\ installs' = [installs EXCEPT ![i] = NoInstall]
    BY <1>1, <1>2 DEF MakeDir
  <2>2. NoInstall \in [at : {"idle", "valid", "free"}, archive : Archives] /\ NoInstall.at = "idle"
    BY InstallAssumption DEF NoInstall
  <2>3. installed' \in 0 .. MaxInstalls
    BY <1>1 DEF SkillsTypeOK
  <2> QED
    BY <1>1, <2>1, <2>2, <2>3, MovesOn
<1>3. CASE t \notin custom
  <2>1. installs' = [installs EXCEPT ![i] = InstallAt(i, "copying")]
    BY <1>3 DEF MakeDir
  <2>2. /\ installs'[i] = [at |-> "copying", archive |-> installs[i].archive]
        /\ \A j \in Installers \ {i} : installs'[j] = installs[j]
        /\ installs' \in [Installers -> [at : {"idle", "valid", "free", "copying"}, archive : Archives]]
    BY <2>1 DEF SkillsTypeOK, InstallAt
  <2>3. \A j \in Installers : TargetOf(j)' = TargetOf(j)
    BY <2>2 DEF TargetOf
  <2>4. \A j \in Installers : Copies(j)' <=> j = i \/ Copies(j)
    BY <2>2 DEF Copies
  <2>5. \A j \in Installers : Copies(j) => TargetOf(j) \in custom
    BY DEF CopiersOwnTheirDirectory
  <2>6. \A c \in content : c[1] \in custom
    BY DEF SkillsTypeOK
  <2>7. SkillsTypeOK'
    <3>1. \A j \in Installers : installs'[j].at # "idle" => TargetOf(j)' \in SkillNames
      BY <1>1, <2>2, <2>3 DEF SkillsTypeOK
    <3> QED
      BY <1>1, <2>2, <3>1 DEF SkillsTypeOK
  <2>8. CopiersAreAlone'
    BY <1>3, <2>3, <2>4, <2>5 DEF CopiersAreAlone
  <2>9. CopiersOwnTheirDirectory'
    <3>1. \A j \in Installers : installs'[j].archive = installs[j].archive
      BY <2>2
    <3> QED
      BY <1>1, <1>3, <2>3, <2>4, <2>6, <3>1 DEF CopiersOwnTheirDirectory
  <2>10. FoundIsRead' /\ ListedOnce' /\ OneArchiveEach' /\ AnsweredIsThere'
    BY <1>1 DEF FoundIsRead, ListedOnce, OneArchiveEach, AnsweredIsThere, SkillsAreWhole
  <2>11. PartialHasAReason'
    <3>1. \A n : Copying(n)' <=> n = t \/ Copying(n)
      BY <2>3, <2>4 DEF Copying, Copies
    <3> QED
      BY <1>1, <3>1 DEF PartialHasAReason, IsWhole, SkillsAreWhole
  <2> QED
    BY <2>7, <2>8, <2>9, <2>10, <2>11 DEF SkillsAreWhole
<1> QED
  BY <1>2, <1>3

\* A part is copied into a directory that is the copier's own.
LEMMA CopyPartKeeps ==
  ASSUME SkillsInv, NEW i \in Installers, CopyPart(i)
  PROVE  SkillsInv'
<1> USE DEF SkillsInv
<1> DEFINE t == TargetOf(i)
           a == installs[i].archive
<1>1. /\ Copies(i) /\ a \in Archives /\ t \in custom
      /\ UNCHANGED <<custom, installs, succeeded, left, listing, installed, troubles>>
  BY DEF CopyPart, Copies, SkillsTypeOK, CopiersOwnTheirDirectory
<1>2. PICK part \in ArchiveParts : content' = content \cup {<<t, a, part>>}
  BY DEF CopyPart
<1>3. SkillsTypeOK'
  BY <1>1, <1>2 DEF SkillsTypeOK, TargetOf
<1>4. \A c \in content : c[1] = t => c[2] = a
  BY <1>1 DEF CopiersOwnTheirDirectory
<1>5. CopiersAreAlone' /\ FoundIsRead' /\ ListedOnce'
  BY <1>1 DEF CopiersAreAlone, Copies, TargetOf, FoundIsRead, ListedOnce, SkillsAreWhole
<1>6. CopiersOwnTheirDirectory'
  <2>1. SUFFICES ASSUME NEW j \in Installers, Copies(j)
        PROVE  /\ TargetOf(j) \in custom
               /\ \A c \in content' : c[1] = TargetOf(j) => c[2] = installs[j].archive
    BY <1>1 DEF CopiersOwnTheirDirectory, Copies, TargetOf
  <2>2. TargetOf(j) = t => j = i
    BY <1>1, <2>1 DEF CopiersAreAlone
  <2>3. <<t, a, part>>[1] = t /\ <<t, a, part>>[2] = a
    OBVIOUS
  <2> QED
    BY <1>2, <2>1, <2>2, <2>3 DEF CopiersOwnTheirDirectory
<1>7. OneArchiveEach'
  <2>1. <<t, a, part>>[1] = t /\ <<t, a, part>>[2] = a
    OBVIOUS
  <2> QED
    BY <1>2, <1>4, <2>1 DEF OneArchiveEach, SkillsAreWhole
<1>8. AnsweredIsThere'
  BY <1>1, <1>2 DEF AnsweredIsThere, SkillsAreWhole
<1>9. PartialHasAReason'
  <2>1. \A n : IsWhole(n) => IsWhole(n)'
    BY <1>2 DEF IsWhole
  <2>2. \A n : Copying(n)' <=> Copying(n)
    BY <1>1 DEF Copying, TargetOf
  <2> QED
    BY <1>1, <2>1, <2>2 DEF PartialHasAReason, SkillsAreWhole
<1> QED
  BY <1>3, <1>5, <1>6, <1>7, <1>8, <1>9 DEF SkillsAreWhole

\* An installer that stops copying, because all is there or because it cannot go
\* on, leaves a directory that is whole, or known to be given up.
LEMMA StopsCopying ==
  ASSUME SkillsInv, NEW i \in Installers, Copies(i),
         installs' = [installs EXCEPT ![i] = NoInstall],
         UNCHANGED <<custom, content, listing, installed>>,
         troubles' \in 0 .. MaxTroubles,
         \/ /\ {TargetOf(i)} \X {installs[i].archive} \X ArchiveParts \subseteq content
            /\ succeeded' = succeeded \cup {<<TargetOf(i), installs[i].archive>>}
            /\ left' = left
         \/ left' = left \cup {TargetOf(i)} /\ succeeded' = succeeded
  PROVE  SkillsInv'
<1> USE DEF SkillsInv
<1> DEFINE t == TargetOf(i)
           a == installs[i].archive
<1>1. /\ installs'[i] = NoInstall /\ \A j \in Installers \ {i} : installs'[j] = installs[j]
      /\ installs' \in [Installers -> [at : {"idle", "valid", "free", "copying"}, archive : Archives]]
      /\ installs'[i].at = "idle"
  BY NoInstallTyped DEF SkillsTypeOK
<1>2. t \in SkillNames /\ a \in Archives
  BY DEF SkillsTypeOK, Copies
<1>3. \A j \in Installers : installs'[j].at # "idle" => TargetOf(j)' = TargetOf(j) /\ j # i
  BY <1>1 DEF TargetOf
<1>4. SkillsTypeOK'
  <2>1. \A j \in Installers : installs'[j].at # "idle" => TargetOf(j)' \in SkillNames
    BY <1>1, <1>3 DEF SkillsTypeOK
  <2>2. succeeded' \subseteq SkillNames \X Archives /\ left' \subseteq SkillNames
    BY <1>2 DEF SkillsTypeOK
  <2> QED
    BY <1>1, <2>1, <2>2 DEF SkillsTypeOK
<1>5. \A j \in Installers : Copies(j)' <=> Copies(j) /\ j # i
  BY <1>1 DEF Copies
<1>6. \A j \in Installers : Copies(j)' => TargetOf(j)' = TargetOf(j) /\ installs'[j] = installs[j]
  BY <1>1, <1>5 DEF TargetOf
<1>7. CopiersAreAlone' /\ CopiersOwnTheirDirectory'
  BY <1>5, <1>6 DEF CopiersAreAlone, CopiersOwnTheirDirectory
<1>8. FoundIsRead' /\ ListedOnce' /\ OneArchiveEach'
  BY DEF FoundIsRead, ListedOnce, OneArchiveEach, SkillsAreWhole
<1>9. AnsweredIsThere'
  <2>1. <<t, a>>[1] = t /\ <<t, a>>[2] = a
    OBVIOUS
  <2> QED
    BY <2>1 DEF AnsweredIsThere, SkillsAreWhole
<1>10. PartialHasAReason'
  <2>1. \A n : IsWhole(n)' <=> IsWhole(n)
    BY DEF IsWhole
  <2>2. \A n : Copying(n) => Copying(n)' \/ n = t
    BY <1>5, <1>6 DEF Copying, Copies
  <2>3. IsWhole(t) \/ t \in left'
    BY <1>2 DEF IsWhole
  <2> QED
    BY <2>1, <2>2, <2>3 DEF PartialHasAReason, SkillsAreWhole
<1> QED
  BY <1>4, <1>7, <1>8, <1>9, <1>10 DEF SkillsAreWhole

\* A directory is removed only while nobody copies into it.
LEMMA RemoveSkillKeeps ==
  ASSUME SkillsInv, NEW n \in SkillNames, RemoveSkill(n)
  PROVE  SkillsInv'
<1> USE DEF SkillsInv
<1>1. /\ ~Copying(n) /\ UNCHANGED <<installs, listing, installed>>
      /\ custom' = custom \ {n} /\ content' = {c \in content : c[1] # n}
      /\ succeeded' = {d \in succeeded : d[1] # n} /\ left' = left \ {n}
  BY DEF RemoveSkill
<1>2. \A i \in Installers : Copies(i)' = Copies(i) /\ TargetOf(i)' = TargetOf(i)
  BY <1>1 DEF Copies, TargetOf
<1>3. SkillsTypeOK'
  <2>1. troubles' \in 0 .. MaxTroubles
    BY InstallAssumption DEF RemoveSkill, SkillsTypeOK
  <2>2. content' \subseteq custom' \X Archives \X ArchiveParts
    BY <1>1 DEF SkillsTypeOK
  <2>3. \A i \in Installers : installs'[i].at # "idle" => TargetOf(i)' \in SkillNames
    BY <1>1, <1>2 DEF SkillsTypeOK
  <2> QED
    BY <1>1, <2>1, <2>2, <2>3 DEF SkillsTypeOK
<1>4. CopiersAreAlone' /\ CopiersOwnTheirDirectory'
  <2>1. \A i \in Installers : Copies(i) => TargetOf(i) # n
    BY <1>1 DEF Copying, Copies
  <2> QED
    BY <1>1, <1>2, <2>1 DEF CopiersAreAlone, CopiersOwnTheirDirectory
<1>5. FoundIsRead' /\ ListedOnce' /\ OneArchiveEach'
  BY <1>1 DEF FoundIsRead, ListedOnce, OneArchiveEach, SkillsAreWhole
<1>6. AnsweredIsThere'
  <2> SUFFICES ASSUME NEW d \in succeeded', NEW c \in {d[1]} \X {d[2]} \X ArchiveParts
               PROVE  c \in content'
    BY DEF AnsweredIsThere
  <2>1. c \in content /\ d[1] # n
    BY <1>1 DEF AnsweredIsThere, SkillsAreWhole
  <2> QED
    BY <1>1, <2>1
<1>7. PartialHasAReason'
  <2> SUFFICES ASSUME NEW m \in custom' PROVE IsWhole(m)' \/ Copying(m)' \/ m \in left'
    BY DEF PartialHasAReason
  <2>1. m \in custom /\ m # n
    BY <1>1
  <2>2. IsWhole(m) => IsWhole(m)'
    <3> SUFFICES ASSUME NEW a \in Archives, {m} \X {a} \X ArchiveParts \subseteq content
                 PROVE  {m} \X {a} \X ArchiveParts \subseteq content'
      BY DEF IsWhole
    <3> QED
      BY <1>1, <2>1
  <2>3. Copying(m)' <=> Copying(m)
    BY <1>1 DEF Copying, TargetOf
  <2> QED
    BY <1>1, <2>1, <2>2, <2>3 DEF PartialHasAReason, SkillsAreWhole
<1> QED
  BY <1>3, <1>4, <1>5, <1>6, <1>7 DEF SkillsAreWhole

\* Listing reads; a directory is read once, and has one SKILL.md.
LEMMA ListingKeeps ==
  ASSUME SkillsInv, ListSkills \/ \E n \in SkillNames : ReadSkill(n)
  PROVE  SkillsInv'
<1> USE DEF SkillsInv
<1>1. UNCHANGED <<custom, content, installs, succeeded, left, installed, troubles>>
  BY DEF ListSkills, ReadSkill
<1>2. \A i : Copies(i)' = Copies(i) /\ TargetOf(i)' = TargetOf(i)
  BY <1>1 DEF Copies, TargetOf
<1>3. CopiersAreAlone' /\ CopiersOwnTheirDirectory'
  BY <1>1, <1>2 DEF CopiersAreAlone, CopiersOwnTheirDirectory
<1>4. OneArchiveEach' /\ AnsweredIsThere' /\ PartialHasAReason'
  BY <1>1, <1>2 DEF OneArchiveEach, AnsweredIsThere, PartialHasAReason, IsWhole, Copying, SkillsAreWhole
<1>5. /\ listing'.toRead \subseteq SkillNames
      /\ listing'.found \subseteq [name : {ListedBy[a] : a \in Archives}, dir : SkillNames, from : Archives]
      /\ FoundIsRead' /\ ListedOnce'
  <2>1. CASE ListSkills
    <3>1. listing'.toRead = custom /\ listing'.found = {}
      BY <2>1 DEF ListSkills
    <3> QED
      BY <3>1 DEF SkillsTypeOK, FoundIsRead, ListedOnce
  <2>2. CASE \E n \in SkillNames : ReadSkill(n)
    <3> PICK n \in SkillNames : ReadSkill(n)
      BY <2>2
    <3> DEFINE readable == {b \in Archives : /\ <<n, b, "SKILL.md">> \in content
                                             /\ ListedBy[b] # Unnamed}
               new == {[name |-> ListedBy[a], dir |-> n, from |-> a] : a \in readable}
    <3>1. /\ n \in listing.toRead /\ listing'.toRead = listing.toRead \ {n}
          /\ listing'.found = listing.found \cup new
      BY DEF ReadSkill
    <3>2. \A s \in new : /\ s.dir = n
                         /\ s \in [name : {ListedBy[a] : a \in Archives}, dir : SkillNames, from : Archives]
      <4> SUFFICES ASSUME NEW s \in new
                   PROVE  /\ s.dir = n
                          /\ s \in [name : {ListedBy[a] : a \in Archives}, dir : SkillNames, from : Archives]
        OBVIOUS
      <4>1. PICK a \in readable : s = [name |-> ListedBy[a], dir |-> n, from |-> a]
        OBVIOUS
      <4>2. a \in Archives /\ ListedBy[a] \in {ListedBy[b] : b \in Archives}
        OBVIOUS
      <4> QED
        BY <4>1, <4>2
    <3>3. \A a, b \in readable : a = b
      <4> SUFFICES ASSUME NEW a \in readable, NEW b \in readable PROVE a = b
        OBVIOUS
      <4>1. /\ <<n, a, "SKILL.md">>[1] = <<n, b, "SKILL.md">>[1]
            /\ <<n, a, "SKILL.md">>[2] = a /\ <<n, b, "SKILL.md">>[2] = b
        OBVIOUS
      <4> QED
        BY <4>1 DEF OneArchiveEach, SkillsAreWhole
    <3>4. \A s, t \in new : s = t
      BY <3>3
    <3>5. \A s \in listing.found : s.dir # n
      BY <3>1 DEF FoundIsRead
    <3> HIDE DEF new
    <3> QED
      BY <3>1, <3>2, <3>4, <3>5 DEF SkillsTypeOK, FoundIsRead, ListedOnce, SkillsAreWhole
  <2> QED
    BY <2>1, <2>2
<1>6. SkillsTypeOK'
  BY <1>1, <1>2, <1>5 DEF SkillsTypeOK
<1> QED
  BY <1>3, <1>4, <1>5, <1>6 DEF SkillsAreWhole

\* The steps of an installation, all of them.
LEMMA InstallStepKeeps ==
  ASSUME SkillsInv, NEW i \in Installers, InstallStep(i)
  PROVE  SkillsInv'
<1>1. CASE AnswerSuccess(i)
  <2>1. troubles' \in 0 .. MaxTroubles
    BY <1>1 DEF AnswerSuccess, SkillsInv, SkillsTypeOK
  <2> QED
    BY <1>1, <2>1, StopsCopying DEF AnswerSuccess, Copies
<1>2. CASE GiveUp(i)
  <2>1. troubles' \in 0 .. MaxTroubles
    BY <1>2, InstallAssumption DEF GiveUp, SkillsInv, SkillsTypeOK
  <2> QED
    BY <1>2, <2>1, StopsCopying DEF GiveUp, Copies
<1> QED
  BY <1>1, <1>2, ValidateKeeps, CheckTargetKeeps, MakeDirKeeps, CopyPartKeeps DEF InstallStep

\* Every step of the installers and of the listing keeps the invariant.
LEMMA SkillsKeep == SkillsInv /\ [SkillsNext]_skillVars => SkillsInv'
<1> SUFFICES ASSUME SkillsInv, [SkillsNext]_skillVars PROVE SkillsInv'
  OBVIOUS
<1>1. CASE UNCHANGED skillVars
  <2>1. SkillsTypeOK'
    BY <1>1 DEF skillVars, SkillsInv, SkillsTypeOK, TargetOf
  <2>2. \A i \in Installers : (Copies(i)' <=> Copies(i)) /\ installs'[i] = installs[i]
    BY <1>1 DEF skillVars, Copies
  <2> QED
    BY <1>1, <2>1, <2>2, OutsideKeeps DEF skillVars
<1>2. CASE SkillsNext
  BY <1>2, InstallStepKeeps, RemoveSkillKeeps, ListingKeeps DEF SkillsNext
<1> QED
  BY <1>1, <1>2

\* Processes that install skills at the same time, and give up where they will,
\* leave each directory with one archive, whole when success was answered, and
\* partial only for a known reason (skills.py and client.py install_skill).
THEOREM SkillsStayWhole == SkillsSpec => []SkillsAreWhole
<1>1. SkillsInv => SkillsAreWhole
  BY DEF SkillsInv
<1> QED
  BY <1>1, SkillsInitially, SkillsKeep, PTL DEF SkillsSpec

\* The directory of skills and the requests keep their types.
THEOREM SkillsTyped == SkillsSpec => []SkillsTypeOK
<1>1. SkillsInv => SkillsTypeOK
  BY DEF SkillsInv
<1> QED
  BY <1>1, SkillsInitially, SkillsKeep, PTL DEF SkillsSpec

-----------------------------------------------------------------------------
(***************************************************************************)
(* The pool and the checkpointer. Their properties speak of what is there; *)
(* the invariant adds who waits for what: the lifespan is alone before     *)
(* anybody is served, requests wait only while the process serves, one call*)
(* of the proxy asks for the real saver, and the pools that exist and those*)
(* that coroutines are making are no more than the coroutines.             *)
(***************************************************************************)

\* The coroutines that make a pool.
Makers == {c \in Coroutines : awaits[c].what = "pool"}

AwaitsTyped ==
    awaits \in [Coroutines ->
                  [for : {"nobody", "lifespan", "request", "proxy"},
                   what : {"nothing", "saver", "setup", "pool", "query"},
                   checkpoint : Checkpoints \cup {NoCheckpoint}]]

\* For whom a coroutine waits, and what it knows then.
Waiter(c) ==
    /\ awaits[c].what = "nothing" <=> awaits[c].for = "nobody"
    /\ Resting(c) <=> awaits[c].for = "nobody"
    /\ awaits[c].for = "lifespan" => stage \in {"starting", "teams"} /\ process # "runtime"
    /\ awaits[c].for = "request" => stage = "serving"
    /\ awaits[c].for = "proxy" => process = "runtime" /\ attempted /\ ~real
    /\ awaits[c].what \in {"saver", "setup"} => process # "gateway" /\ awaits[c].for # "request"
    /\ awaits[c].what = "query" => pool # 0

\* The lifespan is alone, and before everything else, and only a gateway sets up
\* tables twice; requests come while the process serves; and there is one call of
\* the proxy.
WaitersKnown ==
    /\ process = "runtime" => stage = "serving"
    /\ stage = "closed" => process = "server"
    /\ stage = "teams" => process = "gateway"
    /\ \A c \in Coroutines : Waiter(c)
    /\ \A c, o \in Coroutines : awaits[c].for = "lifespan" /\ awaits[o].for # "nobody" => o = c
    /\ \A c, o \in Coroutines : awaits[c].for = "proxy" /\ awaits[o].for = "proxy" => o = c

\* Where the pools come from.
PoolsKnown ==
    /\ pool = 0 => pools = {}
    /\ Cardinality(pools) + Cardinality(Makers) <= Cardinality(Coroutines)
    /\ Makers # {} /\ pools # {} => together /\ process # "server"
    /\ pools = 1 .. Cardinality(pools)

\* What the proxy has saved: in memory what it could not save elsewhere.
ProxyKnown ==
    /\ ~attempted => memory = {} /\ ~real
    /\ ~real => rows = {}
    /\ real => memory \subseteq astray
    /\ \A c \in Coroutines : awaits[c].for = "proxy" =>
          awaits[c].checkpoint \notin memory \cup rows /\ memory \subseteq astray

StorageInv ==
    /\ StorageTypeOK /\ AwaitsTyped
    /\ WaitersKnown /\ PoolsKnown /\ ProxyKnown /\ StorageHolds

\* The invariant holds at the start: nobody waits for anything.
LEMMA StorageInitially == StorageInit => StorageInv
<1> SUFFICES ASSUME StorageInit PROVE StorageInv
  OBVIOUS
<1>1. Cardinality({}) = 0 /\ Cardinality(Coroutines) \in Nat
  BY StorageAssumption, FS_EmptySet, FS_CardinalityType
<1>2. \A c \in Coroutines : awaits[c].for = "nobody" /\ awaits[c].what = "nothing"
                           /\ awaits[c].checkpoint = NoCheckpoint /\ Resting(c)
  BY DEF StorageInit, Waiting, Resting
<1>3. Makers = {}
  BY <1>2 DEF Makers
<1>4. AwaitsTyped
  BY DEF StorageInit, AwaitsTyped, Waiting
<1>5. StorageTypeOK
  <2>1. process \in Processes /\ stage \in {"starting", "teams", "serving", "closed"}
    BY StorageAssumption DEF StorageInit
  <2>2. pool \in pools \cup {0} /\ pools \subseteq 1 .. Cardinality(Coroutines)
        /\ memory \subseteq Checkpoints /\ rows \subseteq Checkpoints /\ memory \cap rows = {}
        /\ astray \subseteq Checkpoints
    BY DEF StorageInit
  <2>3. refusals \in 0 .. MaxRefusals
    BY StorageAssumption DEF StorageInit
  <2> QED
    BY <1>2, <2>1, <2>2, <2>3 DEF StorageInit, StorageTypeOK
<1>6. WaitersKnown
  BY <1>2, StorageAssumption DEF StorageInit, WaitersKnown, Waiter
<1>7. PoolsKnown
  BY <1>1, <1>3 DEF StorageInit, PoolsKnown
<1>8. ProxyKnown /\ StorageHolds
  BY <1>2 DEF StorageInit, ProxyKnown, StorageHolds, ServerIsReady, OnePool, CheckpointsFound
<1> QED
  BY <1>4, <1>5, <1>6, <1>7, <1>8 DEF StorageInv

\* A coroutine that goes to or from the making of a pool.
LEMMA MakersFinite ==
  ASSUME StorageInv
  PROVE  /\ IsFiniteSet(Makers) /\ Cardinality(Makers) \in Nat
         /\ IsFiniteSet(pools) /\ Cardinality(pools) \in Nat
         /\ Cardinality(Coroutines) \in Nat /\ Cardinality(Makers) <= Cardinality(Coroutines)
<1>1. Makers \subseteq Coroutines
  BY DEF Makers
<1>2. IsFiniteSet(pools)
  <2>1. Cardinality(Coroutines) \in Nat
    BY StorageAssumption, FS_CardinalityType
  <2>2. IsFiniteSet(1 .. Cardinality(Coroutines))
    BY <2>1, FS_Interval
  <2> QED
    BY <2>2, FS_Subset DEF StorageInv, StorageTypeOK
<1> QED
  BY <1>1, <1>2, StorageAssumption, FS_Subset, FS_CardinalityType


\* What a coroutine waits for next, and what that makes of the makers of pools.
Goes(c, who, what, k) ==
    /\ AwaitsTyped'
    /\ awaits'[c].for = who /\ awaits'[c].what = what /\ awaits'[c].checkpoint = k
    /\ \A o \in Coroutines \ {c} : awaits'[o] = awaits[o]
    /\ Makers' = IF what = "pool" THEN Makers \cup {c} ELSE Makers \ {c}
    /\ Resting(c)' <=> (who = "nobody" /\ what = "nothing" /\ k = NoCheckpoint)
    /\ \A o \in Coroutines \ {c} : Resting(o)' <=> Resting(o)

\* Begin takes a coroutine to another await.
LEMMA AwaitsNext ==
  ASSUME StorageInv, NEW c \in Coroutines,
         NEW who \in {"nobody", "lifespan", "request", "proxy"},
         NEW what \in {"nothing", "saver", "setup", "pool", "query"},
         NEW k \in Checkpoints \cup {NoCheckpoint}, Begin(c, who, what, k)
  PROVE  Goes(c, who, what, k)
<1> USE DEF StorageInv, AwaitsTyped, Begin
<1>1. AwaitsTyped'
  OBVIOUS
<1>2. awaits'[c].for = who /\ awaits'[c].what = what /\ awaits'[c].checkpoint = k
  OBVIOUS
<1>3. \A o \in Coroutines \ {c} : awaits'[o] = awaits[o]
  OBVIOUS
<1>4. Makers' = IF what = "pool" THEN Makers \cup {c} ELSE Makers \ {c}
  BY <1>2, <1>3 DEF Makers
<1>5. Resting(c)' <=> (who = "nobody" /\ what = "nothing" /\ k = NoCheckpoint)
  BY DEF Resting, Waiting
<1>6. \A o \in Coroutines \ {c} : Resting(o)' <=> Resting(o)
  BY <1>3 DEF Resting
<1> QED
  BY <1>1, <1>2, <1>3, <1>4, <1>5, <1>6 DEF Goes

\* A step to another await, and a step of get_checkpointer that leads to none.
LEMMA AwaitsBecome ==
  ASSUME StorageInv, NEW c \in Coroutines
  PROVE  /\ awaits[c].for \in {"nobody", "lifespan", "request", "proxy"}
         /\ awaits[c].checkpoint \in Checkpoints \cup {NoCheckpoint}
         /\ \A what : Await(c, what) => Begin(c, awaits[c].for, what, awaits[c].checkpoint)
         /\ Leave(c) => Begin(c, "nobody", "nothing", NoCheckpoint)
<1> USE DEF StorageInv, AwaitsTyped
<1>1. ASSUME NEW what, Await(c, what) PROVE Begin(c, awaits[c].for, what, awaits[c].checkpoint)
  <2>1. awaits[c] = [for |-> awaits[c].for, what |-> awaits[c].what, checkpoint |-> awaits[c].checkpoint]
    OBVIOUS
  <2>2. [awaits[c] EXCEPT !.what = what] = [for |-> awaits[c].for, what |-> what, checkpoint |-> awaits[c].checkpoint]
    BY <2>1
  <2> QED
    BY <1>1, <2>2 DEF Await, Begin
<1>2. Leave(c) => Begin(c, "nobody", "nothing", NoCheckpoint)
  BY DEF Leave, Begin, Waiting
<1>3. /\ awaits[c].for \in {"nobody", "lifespan", "request", "proxy"}
      /\ awaits[c].checkpoint \in Checkpoints \cup {NoCheckpoint}
  OBVIOUS
<1> QED
  BY <1>1, <1>2, <1>3

\* The part of the type invariant that is about the awaits.
AwaitsOK ==
    \A c \in Coroutines :
       /\ awaits[c].for \in {"nobody", "lifespan", "request", "proxy"}
       /\ awaits[c].what \in {"nothing", "saver", "setup", "pool", "query"}
       /\ awaits[c].for = "proxy" <=> awaits[c].checkpoint # NoCheckpoint

\* A step to another await keeps the type of the awaits, when the proxy is the
\* only one with a checkpoint to save.
LEMMA AwaitsStayTyped ==
  ASSUME StorageInv, NEW c \in Coroutines, NEW who, NEW what, NEW k,
         Goes(c, who, what, k), who = "proxy" <=> k # NoCheckpoint
  PROVE  AwaitsOK'
<1>1. ASSUME NEW o \in Coroutines PROVE
        /\ awaits'[o].for \in {"nobody", "lifespan", "request", "proxy"}
        /\ awaits'[o].what \in {"nothing", "saver", "setup", "pool", "query"}
  <2>1. awaits'[o] \in [for : {"nobody", "lifespan", "request", "proxy"},
                   what : {"nothing", "saver", "setup", "pool", "query"},
                   checkpoint : Checkpoints \cup {NoCheckpoint}]
    BY DEF Goes, AwaitsTyped
  <2> QED
    BY <2>1
<1>2. ASSUME NEW o \in Coroutines PROVE
        awaits'[o].for = "proxy" <=> awaits'[o].checkpoint # NoCheckpoint
  <2>1. CASE o = c
    BY <2>1 DEF Goes
  <2>2. CASE o # c
    BY <2>2 DEF Goes, StorageInv, StorageTypeOK
  <2> QED
    BY <2>1, <2>2
<1> QED
  BY <1>1, <1>2 DEF AwaitsOK

\* A step of one coroutine leaves what is known of the others, when it goes to a
\* purpose it has to itself only if all others rest.
LEMMA OthersStayKnown ==
  ASSUME StorageInv, NEW c \in Coroutines, NEW who, NEW what, NEW k, Goes(c, who, what, k),
         process' = process, Waiter(c)',
         \/ who = "nobody"
         \/ who = awaits[c].for
         \/ \A o \in Coroutines \ {c} :
               /\ who = "lifespan" => awaits[o].for = "nobody"
               /\ who = "proxy" => awaits[o].for # "proxy"
               /\ awaits[o].for # "lifespan",
         process' = "runtime" => stage' = "serving",
         stage' = "closed" => process' = "server",
         stage' = "teams" => process' = "gateway",
         \A o \in Coroutines \ {c} : Waiter(o)'
  PROVE  WaitersKnown'
<1>1. ASSUME NEW o \in Coroutines, NEW p \in Coroutines,
             \/ awaits'[o].for = "lifespan" /\ awaits'[p].for # "nobody"
             \/ awaits'[o].for = "proxy" /\ awaits'[p].for = "proxy"
      PROVE  p = o
  <2>1. CASE o = c /\ p # c
    BY <1>1, <2>1 DEF Goes, StorageInv, WaitersKnown
  <2>2. CASE o # c /\ p = c
    BY <1>1, <2>2 DEF Goes, StorageInv, WaitersKnown
  <2>3. CASE o # c /\ p # c
    BY <1>1, <2>3 DEF Goes, StorageInv, WaitersKnown
  <2> QED
    BY <2>1, <2>2, <2>3
<1>2. \A o \in Coroutines : Waiter(o)'
  OBVIOUS
<1> QED
  BY <1>1, <1>2 DEF WaitersKnown

\* The others know what they knew while the process goes on as it was.
LEMMA OthersSame ==
  ASSUME StorageInv, NEW c \in Coroutines, NEW who, NEW what, NEW k, Goes(c, who, what, k),
         process' = process, NEW o \in Coroutines \ {c},
         awaits[o].for \in {"lifespan", "request"} => stage' = stage,
         awaits[o].for = "proxy" => attempted' = attempted /\ real' = real,
         awaits[o].what = "query" => pool' = pool \/ pool' # 0
  PROVE  Waiter(o)'
<1>1. Waiter(o) /\ awaits'[o] = awaits[o] /\ (Resting(o)' <=> Resting(o))
  BY DEF StorageInv, WaitersKnown, Goes
<1> QED
  BY <1>1 DEF Waiter

\* What is known of the pools is kept by a step that makes none, and that starts
\* to make one only where there is none.
LEMMA PoolsStayKnown ==
  ASSUME StorageInv, NEW c \in Coroutines, NEW who, NEW what, NEW k, Goes(c, who, what, k),
         what = "pool" => pool = 0,
         pool' = pool, pools' = pools, together' = together, process' = process
  PROVE  PoolsKnown'
<1>0. PoolsKnown /\ Makers \subseteq Coroutines
  BY DEF StorageInv, Makers
<1>1. Makers' \subseteq Coroutines /\ IsFiniteSet(Makers') /\ Cardinality(Makers') \in Nat
      /\ Cardinality(Makers') <= Cardinality(Coroutines)
  <2>1. Makers' \subseteq Coroutines
    BY DEF Makers
  <2> QED
    BY <2>1, StorageAssumption, FS_Subset, FS_CardinalityType
<1>2. CASE what = "pool"
  <2>1. pools = {} /\ Cardinality(pools) = 0
    BY <1>0, <1>2, FS_EmptySet DEF PoolsKnown
  <2> QED
    BY <1>0, <1>1, <2>1, MakersFinite DEF PoolsKnown
<1>3. CASE what # "pool"
  <2>1. Makers' \subseteq Makers
    BY <1>3 DEF Goes
  <2>2. Cardinality(Makers') <= Cardinality(Makers)
    BY <2>1, MakersFinite, FS_Subset
  <2> QED
    BY <1>0, <1>1, <2>1, <2>2, MakersFinite DEF PoolsKnown
<1> QED
  BY <1>2, <1>3

\* Nor does the closing of the pools leave anything to know.
LEMMA ClosedPoolsKnown ==
  ASSUME StorageInv, pool' = 0, pools' = {} PROVE PoolsKnown'
<1>1. Makers' \subseteq Coroutines
  BY DEF Makers
<1>2. Cardinality(Makers') \in Nat /\ Cardinality(Makers') <= Cardinality(Coroutines)
  BY <1>1, StorageAssumption, FS_Subset, FS_CardinalityType
<1>3. Cardinality(pools') = 0
  BY FS_EmptySet
<1>4. pools' = 1 .. 0
  OBVIOUS
<1> QED
  BY <1>2, <1>3, <1>4, MakersFinite DEF PoolsKnown

\* The lifespan asks for what it needs.
LEMMA BeginLifespanKeeps ==
  ASSUME StorageInv, NEW c \in Coroutines, BeginLifespan(c) PROVE StorageInv'
<1> USE StorageAssumption
<1>0. Waiter(c) /\ StorageTypeOK /\ WaitersKnown /\ ProxyKnown /\ StorageHolds
  BY DEF StorageInv, WaitersKnown
<1>1. Goes(c, "lifespan", (IF process = "server" THEN "saver" ELSE AskPool), NoCheckpoint)
  <2>1. Begin(c, "lifespan", (IF process = "server" THEN "saver" ELSE AskPool), NoCheckpoint)
    BY AwaitsBecome DEF BeginLifespan
  <2>2. "lifespan" \in {"nobody", "lifespan", "request", "proxy"} /\ NoCheckpoint \in Checkpoints \cup {NoCheckpoint}
    BY AwaitsBecome
  <2>3. (IF process = "server" THEN "saver" ELSE AskPool) \in {"nothing", "saver", "setup", "pool", "query"}
    BY DEF AskPool
  <2> QED
    BY <2>1, <2>2, <2>3, AwaitsNext
<1>2. AwaitsOK'
  BY <1>0, <1>1, AwaitsStayTyped DEF BeginLifespan, StorageTypeOK
<1>3. StorageTypeOK'
  BY <1>0, <1>2 DEF BeginLifespan, AwaitsOK, StorageTypeOK, poolVars, proxyVars
<1>4. WaitersKnown'
  <2>1. Waiter(c)'
    BY <1>0, <1>1 DEF BeginLifespan, Goes, StorageTypeOK, WaitersKnown, Waiter, poolVars, proxyVars, AskPool
  <2>2. \A o \in Coroutines \ {c} : Waiter(o)'
    BY <1>1, OthersSame DEF BeginLifespan, poolVars, proxyVars
  <2> QED
    BY <1>0, <1>1, <2>1, <2>2, OthersStayKnown DEF BeginLifespan, WaitersKnown, Waiter, poolVars, proxyVars
<1>5. PoolsKnown'
  BY <1>1, PoolsStayKnown DEF BeginLifespan, poolVars, AskPool
<1>6. ProxyKnown'
  BY <1>0, <1>1 DEF BeginLifespan, Goes, ProxyKnown, Waiter, poolVars, proxyVars
<1>7. StorageHolds'
  BY <1>0 DEF BeginLifespan, StorageHolds, ServerIsReady, OnePool, CheckpointsFound, poolVars, proxyVars
<1> QED
  BY <1>1, <1>3, <1>4, <1>5, <1>6, <1>7 DEF StorageInv, Goes

\* A request asks for a connection.
LEMMA BeginRequestKeeps ==
  ASSUME StorageInv, NEW c \in Coroutines, BeginRequest(c) PROVE StorageInv'
<1> USE StorageAssumption
<1>0. Waiter(c) /\ StorageTypeOK /\ WaitersKnown /\ ProxyKnown /\ StorageHolds
  BY DEF StorageInv, WaitersKnown
<1>1. Goes(c, "request", AskPool, NoCheckpoint)
  <2>1. Begin(c, "request", AskPool, NoCheckpoint)
    BY AwaitsBecome DEF BeginRequest
  <2>2. "request" \in {"nobody", "lifespan", "request", "proxy"} /\ NoCheckpoint \in Checkpoints \cup {NoCheckpoint}
    BY AwaitsBecome
  <2>3. AskPool \in {"nothing", "saver", "setup", "pool", "query"}
    BY DEF AskPool
  <2> QED
    BY <2>1, <2>2, <2>3, AwaitsNext
<1>2. AwaitsOK'
  BY <1>0, <1>1, AwaitsStayTyped DEF BeginRequest, StorageTypeOK
<1>3. StorageTypeOK'
  BY <1>0, <1>2 DEF BeginRequest, AwaitsOK, StorageTypeOK, poolVars, proxyVars
<1>4. WaitersKnown'
  <2>1. Waiter(c)'
    BY <1>0, <1>1 DEF BeginRequest, Goes, StorageTypeOK, WaitersKnown, Waiter, poolVars, proxyVars, AskPool
  <2>2. \A o \in Coroutines \ {c} : Waiter(o)'
    BY <1>1, OthersSame DEF BeginRequest, poolVars, proxyVars
  <2> QED
    BY <1>0, <1>1, <2>1, <2>2, OthersStayKnown DEF BeginRequest, WaitersKnown, Waiter, poolVars, proxyVars
<1>5. PoolsKnown'
  BY <1>1, PoolsStayKnown DEF BeginRequest, poolVars, AskPool
<1>6. ProxyKnown'
  BY <1>0, <1>1 DEF BeginRequest, Goes, ProxyKnown, Waiter, poolVars, proxyVars
<1>7. StorageHolds'
  BY <1>0 DEF BeginRequest, StorageHolds, ServerIsReady, OnePool, CheckpointsFound, poolVars, proxyVars
<1> QED
  BY <1>1, <1>3, <1>4, <1>5, <1>6, <1>7 DEF StorageInv, Goes

\* The checkpointer is there, not yet set up: nobody is served before it is.
LEMMA EnteredKeeps ==
  ASSUME StorageInv, NEW c \in Coroutines, Entered(c) PROVE StorageInv'
<1> USE StorageAssumption
<1>0. Waiter(c) /\ StorageTypeOK /\ WaitersKnown /\ ProxyKnown /\ StorageHolds
  BY DEF StorageInv, WaitersKnown
<1>1. Goes(c, awaits[c].for, "setup", awaits[c].checkpoint)
  <2>1. Begin(c, awaits[c].for, "setup", awaits[c].checkpoint)
    BY AwaitsBecome DEF Entered
  <2>2. awaits[c].for \in {"nobody", "lifespan", "request", "proxy"} /\ awaits[c].checkpoint \in Checkpoints \cup {NoCheckpoint}
    BY AwaitsBecome
  <2>3. "setup" \in {"nothing", "saver", "setup", "pool", "query"}
    BY DEF AskPool
  <2> QED
    BY <2>1, <2>2, <2>3, AwaitsNext
<1>2. AwaitsOK'
  BY <1>0, <1>1, AwaitsStayTyped DEF Entered, StorageTypeOK
<1>3. StorageTypeOK'
  BY <1>0, <1>2 DEF Entered, AwaitsOK, StorageTypeOK, poolVars, proxyVars
<1>4. WaitersKnown'
  <2>1. Waiter(c)'
    BY <1>0, <1>1 DEF Entered, Goes, StorageTypeOK, WaitersKnown, Waiter, poolVars, proxyVars
  <2>2. \A o \in Coroutines \ {c} : Waiter(o)'
    BY <1>1, OthersSame DEF Entered, poolVars, proxyVars
  <2> QED
    BY <1>0, <1>1, <2>1, <2>2, OthersStayKnown DEF Entered, WaitersKnown, Waiter, poolVars, proxyVars
<1>5. PoolsKnown'
  BY <1>1, PoolsStayKnown DEF Entered, poolVars
<1>6. ProxyKnown'
  BY <1>0, <1>1 DEF Entered, Goes, ProxyKnown, Waiter, poolVars, proxyVars
<1>7. StorageHolds'
  BY <1>0 DEF Entered, StorageHolds, ServerIsReady, OnePool, CheckpointsFound, poolVars, proxyVars, Waiter, StorageTypeOK
<1> QED
  BY <1>1, <1>3, <1>4, <1>5, <1>6, <1>7 DEF StorageInv, Goes

\* The checkpointer is set up, and its tables are next.
LEMMA SetsUpKeeps ==
  ASSUME StorageInv, NEW c \in Coroutines, SetsUp(c) PROVE StorageInv'
<1> USE StorageAssumption
<1>0. Waiter(c) /\ StorageTypeOK /\ WaitersKnown /\ ProxyKnown /\ StorageHolds
  BY DEF StorageInv, WaitersKnown
<1>1. Goes(c, awaits[c].for, AskPool, awaits[c].checkpoint)
  <2>1. Begin(c, awaits[c].for, AskPool, awaits[c].checkpoint)
    BY AwaitsBecome DEF SetsUp
  <2>2. awaits[c].for \in {"nobody", "lifespan", "request", "proxy"} /\ awaits[c].checkpoint \in Checkpoints \cup {NoCheckpoint}
    BY AwaitsBecome
  <2>3. AskPool \in {"nothing", "saver", "setup", "pool", "query"}
    BY DEF AskPool
  <2> QED
    BY <2>1, <2>2, <2>3, AwaitsNext
<1>2. AwaitsOK'
  BY <1>0, <1>1, AwaitsStayTyped DEF SetsUp, StorageTypeOK
<1>3. StorageTypeOK'
  BY <1>0, <1>2 DEF SetsUp, AwaitsOK, StorageTypeOK, poolVars, proxyVars
<1>4. WaitersKnown'
  <2>1. Waiter(c)'
    BY <1>0, <1>1 DEF SetsUp, Goes, StorageTypeOK, WaitersKnown, Waiter, poolVars, proxyVars, AskPool
  <2>2. \A o \in Coroutines \ {c} : Waiter(o)'
    BY <1>1, OthersSame DEF SetsUp, poolVars, proxyVars
  <2> QED
    BY <1>0, <1>1, <2>1, <2>2, OthersStayKnown DEF SetsUp, WaitersKnown, Waiter, poolVars, proxyVars
<1>5. PoolsKnown'
  BY <1>1, PoolsStayKnown DEF SetsUp, poolVars, AskPool
<1>6. ProxyKnown'
  BY <1>0, <1>1 DEF SetsUp, Goes, ProxyKnown, Waiter, poolVars, proxyVars
<1>7. StorageHolds'
  BY <1>0 DEF SetsUp, StorageHolds, ServerIsReady, OnePool, CheckpointsFound, poolVars, proxyVars
<1> QED
  BY <1>1, <1>3, <1>4, <1>5, <1>6, <1>7 DEF StorageInv, Goes

\* A pool is made: it is the first, or another coroutine, of a process that is no
\* server, made one meanwhile.
LEMMA PoolMadeKeeps ==
  ASSUME StorageInv, NEW c \in Coroutines, PoolMade(c) PROVE StorageInv'
<1> USE StorageAssumption
<1>0. Waiter(c) /\ StorageTypeOK /\ WaitersKnown /\ ProxyKnown /\ StorageHolds
  BY DEF StorageInv, WaitersKnown
<1>1. Goes(c, awaits[c].for, "query", awaits[c].checkpoint)
  <2>1. Begin(c, awaits[c].for, "query", awaits[c].checkpoint)
    BY AwaitsBecome DEF PoolMade
  <2>2. awaits[c].for \in {"nobody", "lifespan", "request", "proxy"} /\ awaits[c].checkpoint \in Checkpoints \cup {NoCheckpoint}
    BY AwaitsBecome
  <2>3. "query" \in {"nothing", "saver", "setup", "pool", "query"}
    BY DEF AskPool
  <2> QED
    BY <2>1, <2>2, <2>3, AwaitsNext
<1>2. AwaitsOK'
  BY <1>0, <1>1, AwaitsStayTyped DEF StorageTypeOK
<1>8. /\ Cardinality(pools) \in Nat /\ pools' = 1 .. (Cardinality(pools) + 1)
      /\ pool' = Cardinality(pools) + 1 /\ Cardinality(pools') = Cardinality(pools) + 1
      /\ Cardinality(Makers') = Cardinality(Makers) - 1 /\ Cardinality(Makers) \in Nat
      /\ Cardinality(pools) + Cardinality(Makers) <= Cardinality(Coroutines)
      /\ Cardinality(Coroutines) \in Nat
  <2>1. PoolsKnown
    BY DEF StorageInv
  <2>2. Cardinality(pools) \in Nat /\ Cardinality(Makers) \in Nat /\ IsFiniteSet(Makers)
        /\ Cardinality(Coroutines) \in Nat
    BY MakersFinite
  <2>3. pools' = 1 .. (Cardinality(pools) + 1)
    BY <2>1, <2>2 DEF PoolMade, PoolsKnown
  <2>4. Cardinality(1 .. (Cardinality(pools) + 1)) = Cardinality(pools) + 1
    BY <2>2, FS_Interval
  <2>5. c \in Makers /\ Makers' = Makers \ {c}
    BY <1>1 DEF PoolMade, Makers, Goes
  <2>6. Cardinality(Makers \ {c}) = Cardinality(Makers) - 1
    BY <2>2, <2>5, FS_RemoveElement
  <2> QED
    BY <2>1, <2>2, <2>3, <2>4, <2>5, <2>6 DEF PoolMade, PoolsKnown
<1>9. c \in Makers /\ (pools # {} => together /\ process # "server")
      /\ (Makers' # {} => together')
  <2>1. c \in Makers /\ PoolsKnown
    BY DEF PoolMade, Makers, StorageInv
  <2>2. ASSUME NEW o \in Makers' PROVE together'
    <3>1. o \in Coroutines \ {c} /\ awaits[o].what = "pool"
      BY <1>1 DEF Makers, Goes
    <3> QED
      BY <3>1 DEF PoolMade
  <2> QED
    BY <2>1, <2>2 DEF PoolsKnown
<1>10. process # "server" \/ Makers' = {}
  <2>1. ASSUME NEW o \in Makers', process = "server" PROVE FALSE
    <3>1. o \in Coroutines \ {c} /\ awaits[o].what = "pool" /\ Waiter(o)
      BY <1>1, <1>0 DEF Makers, Goes, WaitersKnown
    <3>2. awaits[o].for = "request"
      BY <2>1, <3>1, <1>0 DEF PoolMade, Waiter, WaitersKnown, StorageTypeOK
    <3>3. pools # {}
      BY <1>0, <2>1, <3>1, <3>2 DEF Waiter, StorageHolds, ServerIsReady, StorageTypeOK
    <3> QED
      BY <1>9, <2>1, <3>3
  <2> QED
    BY <2>1
<1>3. StorageTypeOK'
  <2>1. Cardinality(Makers) >= 1
    <3>1. Cardinality(Makers) # 0
      BY <1>9, MakersFinite, FS_EmptySet
    <3> QED
      BY <3>1, <1>8
  <2>2. pool' \in pools' \cup {0} /\ pools' \subseteq 1 .. Cardinality(Coroutines)
    BY <1>8, <2>1
  <2> QED
    BY <1>0, <1>2, <2>2 DEF PoolMade, AwaitsOK, StorageTypeOK, proxyVars
<1>4. WaitersKnown'
  <2>3. awaits[c].for # "nobody" /\ pool' # 0
    BY <1>0, <1>8 DEF PoolMade, Waiter
  <2>1. Waiter(c)'
    BY <1>0, <1>1, <2>3 DEF PoolMade, Goes, Waiter, proxyVars
  <2>2. \A o \in Coroutines \ {c} : Waiter(o)'
    BY <1>1, <1>8, OthersSame DEF PoolMade, proxyVars
  <2> QED
    BY <1>0, <1>1, <2>1, <2>2, OthersStayKnown DEF PoolMade, WaitersKnown, proxyVars
<1>5. PoolsKnown'
  <2>1. pool' # 0 /\ Cardinality(pools') + Cardinality(Makers') <= Cardinality(Coroutines)
    BY <1>8
  <2>2. pools' = 1 .. Cardinality(pools')
    BY <1>8
  <2>3. Makers' # {} => together' /\ process' # "server"
    BY <1>9, <1>10 DEF PoolMade
  <2> QED
    BY <2>1, <2>2, <2>3 DEF PoolsKnown
<1>6. ProxyKnown'
  BY <1>0, <1>1 DEF PoolMade, Goes, ProxyKnown, proxyVars
<1>7. StorageHolds'
  <2>1. ServerIsReady'
    <3>1. stage # "closed"
      BY <1>0 DEF PoolMade, Waiter, WaitersKnown, StorageTypeOK
    <3>2. pool' # 0
      BY <1>8
    <3> QED
      BY <1>0, <3>1, <3>2 DEF PoolMade, StorageHolds, ServerIsReady
  <2>2. OnePool'
    <3>1. CASE pools = {}
      BY <3>1 DEF PoolMade, OnePool
    <3>2. CASE pools # {}
      BY <3>2, <1>9 DEF PoolMade, OnePool
    <3> QED
      BY <3>1, <3>2
  <2> QED
    BY <1>0, <2>1, <2>2 DEF PoolMade, StorageHolds, CheckpointsFound, proxyVars
<1> QED
  BY <1>1, <1>3, <1>4, <1>5, <1>6, <1>7 DEF StorageInv, Goes

\* The query has ended, and what it was for is served.
LEMMA AnsweredKeeps ==
  ASSUME StorageInv, NEW c \in Coroutines, Answered(c) PROVE StorageInv'
<1> USE StorageAssumption
<1>0. Waiter(c) /\ StorageTypeOK /\ WaitersKnown /\ ProxyKnown /\ StorageHolds
  BY DEF StorageInv, WaitersKnown
<1>1. Goes(c, "nobody", "nothing", NoCheckpoint)
  <2>1. Begin(c, "nobody", "nothing", NoCheckpoint)
    BY AwaitsBecome DEF Answered
  <2> QED
    BY <2>1, AwaitsNext
<1>2. AwaitsOK'
  BY <1>0, <1>1, AwaitsStayTyped DEF StorageTypeOK
<1>8. awaits[c].for = "proxy" => awaits[c].checkpoint \in Checkpoints \ memory
  BY <1>0, AwaitsBecome DEF ProxyKnown, StorageTypeOK
<1>9. \A o \in Coroutines \ {c} : awaits[c].for = "lifespan" => awaits[o].for = "nobody"
  BY <1>0 DEF WaitersKnown
<1>10. \A o \in Coroutines \ {c} : awaits[c].for = "proxy" => awaits[o].for # "proxy"
  BY <1>0 DEF WaitersKnown
<1>11. awaits[c].for = "lifespan" => process # "runtime" /\ stage' = AfterSetup
  BY <1>0 DEF Answered, Waiter
<1>3. StorageTypeOK'
  BY <1>0, <1>2, <1>8 DEF Answered, AfterSetup, AwaitsOK, StorageTypeOK, poolVars, proxyVars
<1>4. WaitersKnown'
  <2>1. Waiter(c)'
    BY <1>0, <1>1 DEF Answered, Goes, Waiter, Resting, Waiting
  <2>2. \A o \in Coroutines \ {c} : Waiter(o)'
    BY <1>1, <1>9, <1>10, OthersSame DEF Answered, poolVars, proxyVars
  <2>3. /\ process' = "runtime" => stage' = "serving"
        /\ stage' = "closed" => process' = "server"
        /\ stage' = "teams" => process' = "gateway"
        /\ process' = process
    BY <1>0 DEF Answered, AfterSetup, WaitersKnown, Waiter
  <2> QED
    BY <1>1, <2>1, <2>2, <2>3, OthersStayKnown
<1>5. PoolsKnown'
  BY <1>1, PoolsStayKnown DEF Answered, poolVars
<1>6. ProxyKnown'
  <2>1. CASE awaits[c].for = "proxy"
    BY <1>0, <1>1, <1>10, <2>1 DEF Answered, Goes, ProxyKnown, Waiter
  <2>2. CASE awaits[c].for # "proxy"
    <3>1. UNCHANGED proxyVars
      BY <2>2 DEF Answered, proxyVars
    <3> QED
      BY <1>0, <1>1, <3>1 DEF Goes, ProxyKnown, proxyVars
  <2> QED
    BY <2>1, <2>2
<1>7. StorageHolds'
  <2>1. ServerIsReady'
    BY <1>0 DEF Answered, AfterSetup, StorageHolds, ServerIsReady, Waiter, WaitersKnown, StorageTypeOK, poolVars
  <2>2. OnePool'
    BY <1>0 DEF Answered, StorageHolds, OnePool, poolVars
  <2>3. CheckpointsFound'
    <3>1. CASE awaits[c].for = "proxy"
      BY <1>0, <3>1 DEF Answered, StorageHolds, CheckpointsFound, Waiter, ProxyKnown
    <3>2. CASE awaits[c].for # "proxy"
      <4>1. UNCHANGED proxyVars
        BY <3>2 DEF Answered, proxyVars
      <4> QED
        BY <1>0, <4>1 DEF StorageHolds, CheckpointsFound, proxyVars
    <3> QED
      BY <3>1, <3>2
  <2> QED
    BY <2>1, <2>2, <2>3 DEF StorageHolds
<1> QED
  BY <1>1, <1>3, <1>4, <1>5, <1>6, <1>7 DEF StorageInv, Goes

\* PostgreSQL does not answer: the lifespan of a server ends with everything closed.
LEMMA RefusedKeeps ==
  ASSUME StorageInv, NEW c \in Coroutines, Refused(c) PROVE StorageInv'
<1> USE StorageAssumption
<1>0. Waiter(c) /\ StorageTypeOK /\ WaitersKnown /\ ProxyKnown /\ StorageHolds
  BY DEF StorageInv, WaitersKnown
<1>1. Goes(c, "nobody", "nothing", NoCheckpoint)
  <2>1. Begin(c, "nobody", "nothing", NoCheckpoint)
    BY AwaitsBecome DEF Refused
  <2> QED
    BY <2>1, AwaitsNext
<1>2. AwaitsOK'
  BY <1>0, <1>1, AwaitsStayTyped DEF StorageTypeOK
<1>8. awaits[c].for \in {"request", "lifespan"} /\ (awaits[c].for = "lifespan" => process # "runtime")
      /\ (awaits[c].for = "request" => stage' = stage)
      /\ (awaits[c].for = "lifespan" => stage' = IF process = "server" THEN "closed" ELSE AfterSetup)
  <2>1. awaits[c].for \in {"request", "lifespan"}
    BY <1>0 DEF Refused, Waiter, StorageTypeOK
  <2>2. awaits[c].for = "lifespan" => process # "runtime"
    BY <1>0 DEF Waiter
  <2>3. (awaits[c].for = "request" => stage' = stage)
        /\ (awaits[c].for = "lifespan" => stage' = IF process = "server" THEN "closed" ELSE AfterSetup)
    BY DEF Refused
  <2> QED
    BY <2>1, <2>2, <2>3
<1>9. \A o \in Coroutines \ {c} : awaits[c].for = "lifespan" => awaits[o].for = "nobody"
  BY <1>0 DEF WaitersKnown
<1>10. stage' = "closed" => awaits[c].for = "lifespan" /\ process = "server"
  BY <1>0, <1>8 DEF Refused, AfterSetup, Waiter
<1>11. \A o \in Coroutines \ {c} : awaits[c].for = "request" => awaits[o].for # "lifespan"
  BY <1>0 DEF WaitersKnown
<1>12. \A o \in Coroutines \ {c} : awaits[o].for = "nobody" => awaits[o].what = "nothing"
  BY <1>0 DEF WaitersKnown, Waiter
<1>3. StorageTypeOK'
  <2>1. refusals' \in 0 .. MaxRefusals
    <3>1. refusals \in 0 .. MaxRefusals /\ refusals < MaxRefusals /\ refusals' = refusals + 1
      BY <1>0 DEF Refused, StorageTypeOK
    <3> QED
      BY <3>1
  <2>2. pool' \in pools' \cup {0} /\ pools' \subseteq 1 .. Cardinality(Coroutines) /\ saver' \in {"none", "entered", "set up"}
    BY <1>0 DEF Refused, StorageTypeOK
  <2>3. stage' \in {"starting", "teams", "serving", "closed"}
    BY <1>0, <1>8 DEF StorageTypeOK, AfterSetup
  <2> QED
    BY <1>0, <1>2, <2>1, <2>2, <2>3 DEF Refused, AwaitsOK, StorageTypeOK, proxyVars
<1>4. WaitersKnown'
  <2>1. Waiter(c)'
    BY <1>0, <1>1 DEF Refused, Goes, Waiter
  <2>2. ASSUME NEW o \in Coroutines \ {c} PROVE Waiter(o)'
    <3>1. awaits[o].for \in {"lifespan", "request"} => stage' = stage
      BY <1>8, <1>9, <1>11
    <3>2. awaits[o].what = "query" => pool' = pool
      BY <1>9, <1>10, <1>12 DEF Refused
    <3> QED
      BY <1>1, <3>1, <3>2, OthersSame DEF Refused, proxyVars
  <2>3. /\ process' = "runtime" => stage' = "serving"
        /\ stage' = "closed" => process' = "server"
        /\ stage' = "teams" => process' = "gateway"
        /\ process' = process
    BY <1>0, <1>8, <1>10 DEF Refused, AfterSetup, WaitersKnown
  <2> QED
    BY <1>1, <2>1, <2>2, <2>3, OthersStayKnown
<1>5. PoolsKnown'
  <2>1. CASE stage' = "closed"
    BY <2>1, ClosedPoolsKnown DEF Refused
  <2>2. CASE stage' # "closed"
    BY <1>1, <2>2, PoolsStayKnown DEF Refused
  <2> QED
    BY <2>1, <2>2
<1>6. ProxyKnown'
  BY <1>0, <1>1 DEF Refused, Goes, ProxyKnown, proxyVars
<1>7. StorageHolds'
  <2>1. ServerIsReady'
    BY <1>0, <1>8, <1>10 DEF Refused, StorageHolds, ServerIsReady
  <2>2. OnePool'
    BY <1>0 DEF Refused, StorageHolds, OnePool
  <2> QED
    BY <1>0, <2>1, <2>2 DEF Refused, StorageHolds, CheckpointsFound, proxyVars
<1> QED
  BY <1>1, <1>3, <1>4, <1>5, <1>6, <1>7 DEF StorageInv, Goes

\* The real saver cannot be had: the proxy stays a MemorySaver.
LEMMA StaysInMemoryKeeps ==
  ASSUME StorageInv, NEW c \in Coroutines, StaysInMemory(c) PROVE StorageInv'
<1> USE StorageAssumption
<1>0. Waiter(c) /\ StorageTypeOK /\ WaitersKnown /\ ProxyKnown /\ StorageHolds
  BY DEF StorageInv, WaitersKnown
<1>1. Goes(c, "nobody", "nothing", NoCheckpoint)
  <2>1. Begin(c, "nobody", "nothing", NoCheckpoint)
    BY AwaitsBecome DEF StaysInMemory
  <2> QED
    BY <2>1, AwaitsNext
<1>2. AwaitsOK'
  BY <1>0, <1>1, AwaitsStayTyped DEF StorageTypeOK
<1>8. awaits[c].checkpoint \in Checkpoints \ rows /\ ~real /\ attempted /\ process = "runtime"
  BY <1>0, AwaitsBecome DEF StaysInMemory, ProxyKnown, StorageTypeOK, Waiter
<1>9. \A o \in Coroutines \ {c} : awaits[o].for # "proxy"
  BY <1>0 DEF WaitersKnown, StaysInMemory
<1>3. StorageTypeOK'
  <2>1. refusals' \in 0 .. MaxRefusals
    <3>1. refusals \in 0 .. MaxRefusals /\ refusals < MaxRefusals /\ refusals' = refusals + 1
      BY <1>0 DEF StaysInMemory, StorageTypeOK
    <3> QED
      BY <3>1
  <2>2. memory' \subseteq Checkpoints /\ memory' \cap rows = {}
    BY <1>0, <1>8 DEF StaysInMemory, StorageTypeOK
  <2> QED
    BY <1>0, <1>2, <2>1, <2>2 DEF StaysInMemory, AwaitsOK, StorageTypeOK, poolVars
<1>4. WaitersKnown'
  <2>1. Waiter(c)'
    BY <1>0, <1>1 DEF StaysInMemory, Goes, Waiter
  <2>2. \A o \in Coroutines \ {c} : Waiter(o)'
    BY <1>1, OthersSame DEF StaysInMemory, poolVars
  <2> QED
    BY <1>0, <1>1, <2>1, <2>2, OthersStayKnown DEF StaysInMemory, WaitersKnown
<1>5. PoolsKnown'
  BY <1>1, PoolsStayKnown DEF StaysInMemory, poolVars
<1>6. ProxyKnown'
  BY <1>0, <1>1, <1>8, <1>9 DEF StaysInMemory, Goes, ProxyKnown
<1>7. StorageHolds'
  <2>1. ServerIsReady' /\ OnePool'
    BY <1>0 DEF StaysInMemory, StorageHolds, ServerIsReady, OnePool, poolVars
  <2>2. CheckpointsFound'
    BY <1>0, <1>8 DEF StaysInMemory, StorageHolds, CheckpointsFound
  <2> QED
    BY <2>1, <2>2 DEF StorageHolds
<1> QED
  BY <1>1, <1>3, <1>4, <1>5, <1>6, <1>7 DEF StorageInv, Goes

\* A checkpoint is saved where the proxy looks for it, or goes for the real saver.
LEMMA AputKeeps ==
  ASSUME StorageInv, NEW c \in Coroutines, NEW k \in Checkpoints, Aput(c, k) PROVE StorageInv'
<1> USE StorageAssumption
<1>0. StorageTypeOK /\ AwaitsTyped /\ WaitersKnown /\ PoolsKnown /\ ProxyKnown /\ StorageHolds
  BY DEF StorageInv
<1>1. CASE attempted
  <2>1. /\ awaits' = awaits /\ Makers' = Makers /\ \A o \in Coroutines : Resting(o)' <=> Resting(o)
    BY <1>1 DEF Aput, Makers, Resting
  <2>2. StorageTypeOK' /\ AwaitsTyped'
    <3>1. memory' \subseteq Checkpoints /\ rows' \subseteq Checkpoints /\ memory' \cap rows' = {}
          /\ astray' \subseteq Checkpoints
      BY <1>0, <1>1 DEF Aput, StorageTypeOK
    <3> QED
      BY <1>0, <1>1, <2>1, <3>1 DEF Aput, StorageTypeOK, AwaitsTyped, poolVars
  <2>3. WaitersKnown'
    BY <1>0, <1>1, <2>1 DEF Aput, WaitersKnown, Waiter, poolVars
  <2>4. PoolsKnown'
    BY <1>0, <1>1, <2>1 DEF Aput, PoolsKnown, poolVars
  <2>5. ProxyKnown'
    <3>1. ASSUME NEW o \in Coroutines, awaits[o].for = "proxy"
          PROVE  /\ awaits[o].checkpoint \notin memory' \cup rows' /\ memory' \subseteq astray'
      BY <1>0, <1>1, <3>1 DEF Aput, ProxyKnown
    <3>2. real' => memory' \subseteq astray'
      BY <1>0, <1>1 DEF Aput, ProxyKnown
    <3>3. ~real' => rows' = {}
      BY <1>0, <1>1 DEF Aput, ProxyKnown
    <3> QED
      BY <1>1, <2>1, <3>1, <3>2, <3>3 DEF Aput, ProxyKnown
  <2>6. StorageHolds'
    BY <1>0, <1>1 DEF Aput, StorageHolds, ServerIsReady, OnePool, CheckpointsFound, poolVars
  <2> QED
    BY <2>2, <2>3, <2>4, <2>5, <2>6 DEF StorageInv
<1>2. CASE ~attempted
  <2>1. Goes(c, "proxy", "saver", k)
    BY <1>2, AwaitsNext DEF Aput
  <2>2. AwaitsOK'
    BY <1>0, <2>1, AwaitsStayTyped DEF StorageTypeOK
  <2>3. StorageTypeOK'
    BY <1>0, <1>2, <2>2 DEF Aput, AwaitsOK, StorageTypeOK, poolVars
  <2>4. \A o \in Coroutines \ {c} : awaits[o].for \notin {"lifespan", "proxy"}
    BY <1>0, <1>2 DEF Aput, WaitersKnown, Waiter, StorageTypeOK
  <2>5. WaitersKnown'
    <3>1. Waiter(c)'
      BY <1>0, <1>2, <2>1 DEF Aput, Goes, ProxyKnown, Waiter
    <3>2. \A o \in Coroutines \ {c} : Waiter(o)'
      BY <2>1, <2>4, OthersSame DEF Aput, poolVars
    <3> QED
      BY <1>0, <2>1, <2>4, <3>1, <3>2, OthersStayKnown DEF Aput, WaitersKnown
  <2>6. PoolsKnown'
    BY <2>1, PoolsStayKnown DEF Aput, poolVars
  <2>7. ProxyKnown'
    BY <1>0, <1>2, <2>1, <2>4 DEF Aput, Goes, ProxyKnown
  <2>8. StorageHolds'
    BY <1>0, <1>2 DEF Aput, StorageHolds, ServerIsReady, OnePool, CheckpointsFound, poolVars
  <2> QED
    BY <2>1, <2>3, <2>5, <2>6, <2>7, <2>8 DEF StorageInv, Goes
<1> QED
  BY <1>1, <1>2

\* The server closes what it has opened: it served with one pool.
LEMMA CloseDbKeeps ==
  ASSUME StorageInv, CloseDb PROVE StorageInv'
<1> USE StorageAssumption
<1>0. StorageTypeOK /\ AwaitsTyped /\ WaitersKnown /\ PoolsKnown /\ ProxyKnown /\ StorageHolds
  BY DEF StorageInv
<1>1. pools' = {}
  BY <1>0 DEF CloseDb, StorageHolds, OnePool
<1>2. StorageTypeOK' /\ AwaitsTyped'
  BY <1>0, <1>1 DEF CloseDb, StorageTypeOK, AwaitsTyped, proxyVars
<1>3. WaitersKnown'
  <2>1. ASSUME NEW c \in Coroutines PROVE Waiter(c)' /\ awaits'[c].for = "nobody"
    BY <1>0 DEF CloseDb, WaitersKnown, Waiter, Resting, Waiting
  <2> QED
    BY <1>0, <2>1 DEF CloseDb, WaitersKnown
<1>4. PoolsKnown'
  BY <1>1, ClosedPoolsKnown DEF CloseDb
<1>5. ProxyKnown' /\ StorageHolds'
  BY <1>0, <1>1 DEF CloseDb, ProxyKnown, StorageHolds, ServerIsReady, OnePool, CheckpointsFound, proxyVars
<1> QED
  BY <1>2, <1>3, <1>4, <1>5 DEF StorageInv

\* Every step keeps the invariant.
LEMMA StorageKeeps ==
  ASSUME StorageInv, [StorageNext]_storageVars PROVE StorageInv'
<1>1. CASE StorageNext
  BY <1>1, CloseDbKeeps, BeginLifespanKeeps, BeginRequestKeeps, AputKeeps, EnteredKeeps, SetsUpKeeps,
     PoolMadeKeeps, AnsweredKeeps, RefusedKeeps, StaysInMemoryKeeps DEF StorageNext
<1>2. CASE UNCHANGED storageVars
  BY ZenonT(30), <1>2 DEF storageVars, poolVars, proxyVars, StorageInv, StorageTypeOK, AwaitsTyped, WaitersKnown, Waiter,
     PoolsKnown, Makers, ProxyKnown, StorageHolds, ServerIsReady, OnePool, CheckpointsFound, Resting
<1> QED
  BY <1>1, <1>2

\* Whatever the interleaving of the coroutines, a server serves with what it needs and
\* closes it, there is one pool, and checkpoints are found again, but for the two races
\* that the properties name (database.py, checkpointer.py).
THEOREM PoolAndCheckpointerMadeOnce == StorageSpec => [](StorageTypeOK /\ StorageHolds)
<1>1. StorageInv => StorageTypeOK /\ StorageHolds
  BY DEF StorageInv
<1> QED
  BY <1>1, StorageInitially, StorageKeeps, PTL DEF StorageSpec

-----------------------------------------------------------------------------
(***************************************************************************)
(* The stream of a run. A reader knows only the id after which it reads    *)
(* next; the invariant relates that id to all that was published: up to    *)
(* it, everything was yielded, or trimmed or dropped before it could be    *)
(* read.                                                                   *)
(***************************************************************************)

\* s lists S in order.
Lists(s, S) ==
    /\ s \in [1 .. Cardinality(S) -> S]
    /\ \A i, j \in DOMAIN s : i < j => s[i] < s[j]

\* A finite set of numbers can be listed: by induction on its bound.
LEMMA CanBeListed == ASSUME NEW n \in Nat, NEW S \in SUBSET (1 .. n) PROVE \E s : Lists(s, S)
<1> DEFINE Unlisted == {m \in Nat : \E U \in SUBSET (1 .. m) : ~ \E s : Lists(s, U)}
<1>1. SUFFICES ASSUME Unlisted # {} PROVE FALSE
  OBVIOUS
<1>2. PICK m \in Unlisted : \A k \in Unlisted : m <= k
  BY <1>1, Least
<1>3. PICK U \in SUBSET (1 .. m) : ~ \E s : Lists(s, U)
  BY <1>2
<1>4. m \in Nat /\ (m > 0 => m - 1 \in Nat /\ m - 1 \notin Unlisted)
  <2>1. m \in Nat
    OBVIOUS
  <2> HIDE DEF Unlisted
  <2>2. ASSUME m > 0 PROVE m - 1 \in Nat /\ ~(m <= m - 1)
    BY <2>1, <2>2
  <2> QED
    BY <1>2, <2>1, <2>2
<1>5. IsFiniteSet(U) /\ Cardinality(U) \in Nat
  <2>1. IsFiniteSet(1 .. m)
    BY <1>4, FS_Interval
  <2> QED
    BY <2>1, FS_Subset, FS_CardinalityType
<1>6. CASE U = {}
  <2>1. Cardinality(U) = 0
    BY <1>6, FS_EmptySet
  <2>2. Lists([i \in 1 .. 0 |-> 0], U)
    BY <1>6, <2>1 DEF Lists
  <2> QED
    BY <1>3, <2>2
<1>7. CASE U # {} /\ m \notin U
  <2>0. \A x \in U : x \in 1 .. m /\ x # m
    BY <1>7
  <2>1. m > 0 /\ U \in SUBSET (1 .. (m - 1))
    <3>1. PICK u \in U : TRUE
      BY <1>7
    <3>2. m > 0
      BY <1>4, <2>0, <3>1
    <3>3. \A x \in 1 .. m : x # m => x \in 1 .. (m - 1)
      BY <1>4
    <3> QED
      BY <2>0, <3>2, <3>3
  <2> QED
    BY <1>3, <1>4, <2>1
<1>8. CASE m \in U
  <2> DEFINE V == U \ {m}
             k == Cardinality(U)
  <2>1. m > 0 /\ V \in SUBSET (1 .. (m - 1))
    BY <1>4, <1>8
  <2>2. PICK e : Lists(e, V)
    BY <1>4, <2>1
  <2>3. Cardinality(V) = k - 1 /\ k \in Nat /\ k > 0
    BY SMTT(30), <1>5, <1>8, FS_RemoveElement, FS_EmptySet
  <2> DEFINE s == [i \in 1 .. k |-> IF i < k THEN e[i] ELSE m]
  <2>4. e \in [1 .. (k - 1) -> V] /\ \A i, j \in 1 .. (k - 1) : i < j => e[i] < e[j]
    BY <2>2, <2>3 DEF Lists
  <2> HIDE DEF k, V
  <2>5. s \in [1 .. k -> U]
    <3>1. ASSUME NEW i \in 1 .. k PROVE s[i] \in U
      <4>1. CASE i < k
        <5>1. i \in 1 .. (k - 1)
          BY <2>3, <4>1
        <5> QED
          BY <2>4, <4>1, <5>1 DEF V
      <4>2. CASE ~(i < k)
        BY <1>8, <4>2
      <4> QED
        BY <4>1, <4>2
    <3> QED
      BY <3>1
  <2>6. ASSUME NEW i \in 1 .. k, NEW j \in 1 .. k, i < j PROVE s[i] < s[j]
    <3>1. i \in 1 .. (k - 1) /\ i < k
      BY <2>3, <2>6
    <3>2. CASE j < k
      <4>1. j \in 1 .. (k - 1)
        BY <2>3, <3>2
      <4> QED
        BY <2>4, <2>6, <3>1, <3>2, <4>1
    <3>3. CASE ~(j < k)
      <4>1. e[i] \in 1 .. (m - 1)
        BY <2>1, <2>4, <3>1
      <4>2. e[i] < m
        BY <1>4, <4>1
      <4> QED
        BY <3>1, <3>3, <4>2
    <3> QED
      BY <3>2, <3>3
  <2>7. DOMAIN s = 1 .. k
    OBVIOUS
  <2> HIDE DEF s
  <2>8. Lists(s, U)
    BY <2>5, <2>6, <2>7 DEF Lists, k
  <2> QED
    BY <1>3, <2>8
<1> QED
  BY <1>6, <1>7, <1>8

\* What Sorted returns.
LEMMA SortedLists ==
  ASSUME NEW n \in Nat, NEW S \in SUBSET (1 .. n)
  PROVE  /\ Cardinality(S) \in Nat
         /\ Sorted(S) \in [1 .. Cardinality(S) -> S] /\ Sorted(S) \in Seq(S) /\ Len(Sorted(S)) = Cardinality(S)
         /\ \A i, j \in 1 .. Cardinality(S) : i < j => Sorted(S)[i] < Sorted(S)[j]
         /\ \A x \in S : \E i \in 1 .. Cardinality(S) : Sorted(S)[i] = x
<1> DEFINE s == Sorted(S)
           k == Cardinality(S)
<1>1. \E e : Lists(e, S)
  BY CanBeListed
<1>2. Lists(s, S)
  BY <1>1 DEF Lists, Sorted
<1>3. IsFiniteSet(S) /\ k \in Nat
  <2>1. IsFiniteSet(1 .. n)
    BY FS_Interval
  <2> QED
    BY <2>1, FS_Subset, FS_CardinalityType
<1> HIDE DEF s, k
<1>4. s \in [1 .. k -> S] /\ \A i, j \in 1 .. k : i < j => s[i] < s[j]
  BY <1>2 DEF Lists, k
<1>5. \A i \in 1 .. k : s[i] \in S /\ s[i] \in Int
  <2>1. \A x \in S : x \in Int
    OBVIOUS
  <2> QED
    BY <1>4, <2>1
<1>6. \A i, j \in 1 .. k : s[i] = s[j] => i = j
  <2>1. ASSUME NEW i \in 1 .. k, NEW j \in 1 .. k, s[i] = s[j], i # j PROVE FALSE
    <3>1. CASE i < j
      BY <1>4, <1>5, <2>1, <3>1
    <3>2. CASE j < i
      BY <1>4, <1>5, <2>1, <3>2
    <3> QED
      BY <1>3, <2>1, <3>1, <3>2
  <2> QED
    BY <2>1
<1>7. s \in Injection(1 .. k, S)
  BY <1>4, <1>6 DEF Injection, IsInjective
<1>8. Cardinality(1 .. k) = k /\ IsFiniteSet(1 .. k)
  BY <1>3, FS_Interval
<1>9. s \in Surjection(1 .. k, S)
  BY <1>3, <1>7, <1>8, FS_Injection DEF k
<1>10. \A x \in S : \E i \in 1 .. k : s[i] = x
  BY <1>9 DEF Surjection
<1>11. s \in Seq(S) /\ Len(s) = k
  BY <1>3, <1>4
<1> QED
  BY <1>3, <1>4, <1>10, <1>11 DEF s, k

\* What a reader is, and what it has passed over.
ReaderType == [at : {"idle", "between", "waiting", "over"}, from : Latest .. Events,
               since : 0 .. Events, start : 0 .. Events]

\* The id after which a reader reads.
After(r) == IF reading[r].from = Latest THEN reading[r].since ELSE reading[r].from

Reader(r) ==
    /\ reading[r].at = "idle" => got[r] = <<>>
    /\ reading[r].from <= published /\ reading[r].since <= published
    /\ reading[r].from = Latest => got[r] = <<>> /\ reading[r].start = reading[r].since
    /\ reading[r].start <= After(r)
    /\ \A n \in 1 .. published : reading[r].start < n /\ n <= After(r) =>
          n \in Yielded(r) \cup neverStored \cup trimmedAway
    /\ got[r] # <<>> => reading[r].from = got[r][Len(got[r])]
    /\ \A i \in DOMAIN got[r] : got[r][i] \in 1 .. published /\ got[r][i] <= After(r)
    /\ \A i, j \in DOMAIN got[r] : i < j => got[r][i] < got[r][j]

StreamInv ==
    /\ StreamTypeOK
    /\ reading \in [Readers -> ReaderType] /\ got \in [Readers -> Seq(Nat)]
    /\ 1 .. published \subseteq entries \cup neverStored \cup trimmedAway
    /\ \A r \in Readers : Reader(r)

\* There is no event and no reader at the start.
LEMMA StreamInitially == StreamInit => StreamInv
<1> SUFFICES ASSUME StreamInit PROVE StreamInv
  OBVIOUS
<1> USE StreamAssumption DEF StreamInit
<1>1. NotReading \in ReaderType
  BY DEF NotReading, ReaderType, Latest
<1>2. reading \in [Readers -> ReaderType] /\ got \in [Readers -> Seq(Nat)]
  BY <1>1
<1>3. \A r \in Readers : Reader(r)
  BY DEF Reader, After, NotReading, Latest
<1>4. StreamTypeOK
  <2>1. 0 \in 0 .. Events /\ 0 \in Latest .. Events /\ 0 \in 0 .. MaxFails
    BY DEF Latest
  <2>2. NotReading.at = "idle" /\ NotReading.from = 0 /\ NotReading.since = 0 /\ NotReading.start = 0
    BY DEF NotReading
  <2> QED
    BY <2>1, <2>2 DEF StreamTypeOK
<1> QED
  BY <1>2, <1>3, <1>4 DEF StreamInv

\* A reader, typed.
LEMMA ReaderTyped ==
  ASSUME StreamInv, NEW r \in Readers
  PROVE  /\ Reader(r) /\ reading[r] \in ReaderType /\ got[r] \in Seq(Nat)
         /\ reading[r].from \in Int /\ reading[r].from >= -1 /\ reading[r].from <= Events
         /\ reading[r].since \in Nat /\ reading[r].start \in Nat
         /\ After(r) \in Nat /\ After(r) <= published /\ published \in Nat
<1>1. reading[r] \in ReaderType /\ got[r] \in Seq(Nat) /\ Reader(r) /\ published \in Nat
  BY StreamAssumption DEF StreamInv, StreamTypeOK
<1>2. reading[r].from \in Latest .. Events /\ reading[r].since \in 0 .. Events /\ reading[r].start \in 0 .. Events
  BY <1>1 DEF ReaderType
<1>3. After(r) \in Nat /\ After(r) <= published
  BY <1>1, <1>2 DEF Reader, After, Latest
<1> QED
  BY <1>1, <1>2, <1>3, StreamAssumption DEF Latest

\* The events go on, and what was there is accounted for: what a reader knows stays so.
LEMMA ReadersStay ==
  ASSUME StreamInv, UNCHANGED <<reading, got>>, published' \in {published, published + 1},
         neverStored \subseteq neverStored', trimmedAway \subseteq trimmedAway'
  PROVE  \A r \in Readers : Reader(r)'
<1> SUFFICES ASSUME NEW r \in Readers PROVE Reader(r)'
  OBVIOUS
<1>1. /\ Reader(r) /\ After(r) \in Nat /\ After(r) <= published /\ published \in Nat
      /\ reading[r].from \in Int /\ reading[r].since \in Nat
  BY ReaderTyped
<1>2. After(r)' = After(r) /\ published <= published' /\ published' \in Nat /\ Yielded(r)' = Yielded(r)
  BY <1>1 DEF After, Yielded
<1>3. \A n \in 1 .. published' : n <= After(r) => n \in 1 .. published
  BY <1>1, <1>2
<1>4. \A n \in 1 .. published : n \in 1 .. published'
  BY <1>1, <1>2
<1>5. reading[r].from <= published' /\ reading[r].since <= published'
  BY <1>1, <1>2 DEF Reader
<1> QED
  BY <1>1, <1>2, <1>3, <1>4, <1>5 DEF Reader

\* The stream gets another event, is trimmed or is gone: what readers know stays so.
LEMMA PublishKeeps == ASSUME StreamInv, Publish \/ DropKey PROVE StreamInv'
<1>1. StreamTypeOK /\ published \in Nat /\ Events \in Nat /\ fails \in 0 .. MaxFails /\ MaxFails \in Nat
      /\ entries \subseteq 1 .. published /\ neverStored \cup trimmedAway \subseteq 1 .. published
      /\ 1 .. published \subseteq entries \cup neverStored \cup trimmedAway
  BY StreamAssumption DEF StreamInv, StreamTypeOK
<1>2. UNCHANGED <<reading, got>> /\ published' \in {published, published + 1}
      /\ neverStored \subseteq neverStored' /\ trimmedAway \subseteq trimmedAway'
      /\ published' \in 0 .. Events
  <2>1. published' \in 0 .. Events
    BY <1>1 DEF Publish, DropKey, StreamTypeOK
  <2> QED
    BY <2>1 DEF Publish, DropKey
<1>3. fails' \in 0 .. MaxFails
  <2>1. fails' = fails \/ (fails + 1 <= MaxFails /\ fails' = fails + 1)
    BY DEF Publish, DropKey, CallFails
  <2> QED
    BY <1>1, <2>1
<1>4. /\ entries' \subseteq 1 .. published' /\ neverStored' \cup trimmedAway' \subseteq 1 .. published'
      /\ 1 .. published' \subseteq entries' \cup neverStored' \cup trimmedAway'
      /\ expires' \in BOOLEAN /\ (entries' = {} => ~expires')
  <2>1. CASE Publish
    <3>1. 1 .. (published + 1) = (1 .. published) \cup {published + 1}
      BY <1>1
    <3>2. published' = published + 1
      BY <2>1 DEF Publish
    <3>3. ASSUME NEW trimmed \in SUBSET entries,
                 entries' = (entries \ trimmed) \cup {published + 1}, trimmedAway' = trimmedAway \cup trimmed,
                 expires' = TRUE \/ expires' = expires, neverStored' = neverStored
          PROVE  /\ entries' \subseteq 1 .. published' /\ neverStored' \cup trimmedAway' \subseteq 1 .. published'
                 /\ 1 .. published' \subseteq entries' \cup neverStored' \cup trimmedAway'
                 /\ expires' \in BOOLEAN /\ (entries' = {} => ~expires')
      BY <1>1, <3>1, <3>2, <3>3 DEF StreamTypeOK
    <3>4. ASSUME neverStored' = neverStored \cup {published + 1}, UNCHANGED <<entries, expires, trimmedAway>>
          PROVE  /\ entries' \subseteq 1 .. published' /\ neverStored' \cup trimmedAway' \subseteq 1 .. published'
                 /\ 1 .. published' \subseteq entries' \cup neverStored' \cup trimmedAway'
                 /\ expires' \in BOOLEAN /\ (entries' = {} => ~expires')
      BY <1>1, <3>1, <3>2, <3>4 DEF StreamTypeOK
    <3>5. \/ \E trimmed \in SUBSET entries :
                 /\ entries' = (entries \ trimmed) \cup {published + 1} /\ trimmedAway' = trimmedAway \cup trimmed
                 /\ (expires' = TRUE \/ expires' = expires) /\ neverStored' = neverStored
          \/ neverStored' = neverStored \cup {published + 1} /\ UNCHANGED <<entries, expires, trimmedAway>>
      BY <2>1, Zenon DEF Publish
    <3> QED
      BY <3>3, <3>4, <3>5
  <2>2. CASE DropKey
    BY <1>1, <2>2 DEF DropKey
  <2> QED
    BY <2>1, <2>2
<1>5. StreamTypeOK'
  BY <1>1, <1>2, <1>3, <1>4 DEF StreamTypeOK
<1>6. \A r \in Readers : Reader(r)'
  BY <1>2, ReadersStay
<1> QED
  BY <1>2, <1>4, <1>5, <1>6 DEF StreamInv

\* A step of one reader.
LEMMA ReaderStep ==
  ASSUME StreamInv, NEW r \in Readers, NEW new \in ReaderType, reading' = [reading EXCEPT ![r] = new],
         UNCHANGED <<published, entries, expires, neverStored, trimmedAway, fails>>,
         got' \in [Readers -> Seq(Nat)], \A o \in Readers \ {r} : got'[o] = got[o], Reader(r)'
  PROVE  StreamInv'
<1>1. reading' \in [Readers -> ReaderType] /\ \A o \in Readers \ {r} : reading'[o] = reading[o]
  BY DEF StreamInv
<1>2. ASSUME NEW o \in Readers \ {r} PROVE Reader(o)'
  BY <1>1 DEF StreamInv, Reader, After, Yielded
<1>3. ASSUME NEW o \in Readers
      PROVE  /\ reading'[o].at \in {"idle", "between", "waiting", "over"}
             /\ reading'[o].from \in Latest .. Events
             /\ reading'[o].since \in 0 .. Events /\ reading'[o].start \in 0 .. Events
  <2>1. reading'[o] \in ReaderType
    BY <1>1
  <2> QED
    BY <2>1 DEF ReaderType
<1>4. StreamTypeOK'
  BY <1>3 DEF StreamInv, StreamTypeOK
<1> QED
  BY <1>1, <1>2, <1>4 DEF StreamInv

\* A reader begins, waits, and hears nothing.
LEMMA OpenKeeps ==
  ASSUME StreamInv, NEW r \in Readers, Open(r) \/ BeginRead(r) \/ KeepAlive(r) PROVE StreamInv'
<1>1. /\ Reader(r) /\ reading[r] \in ReaderType /\ got[r] \in Seq(Nat)
      /\ reading[r].from \in Int /\ reading[r].from >= -1 /\ reading[r].from <= Events
      /\ reading[r].since \in Nat /\ reading[r].start \in Nat
      /\ After(r) \in Nat /\ After(r) <= published /\ published \in Nat
      /\ got \in [Readers -> Seq(Nat)] /\ published <= Events /\ Events \in Nat
      /\ reading \in [Readers -> ReaderType]
  BY ReaderTyped, StreamAssumption DEF StreamInv, StreamTypeOK
<1>2. UNCHANGED <<published, entries, expires, got, neverStored, trimmedAway, fails>>
  BY DEF Open, BeginRead, KeepAlive
<1>3. CASE Open(r)
  <2>1. PICK last \in {Latest} \cup 0 .. published :
          reading' = [reading EXCEPT ![r] = [at |-> "between", from |-> last, since |-> published,
                                             start |-> IF last = Latest THEN published ELSE last]]
    BY <1>3 DEF Open
  <2> DEFINE new == [at |-> "between", from |-> last, since |-> published,
                     start |-> IF last = Latest THEN published ELSE last]
  <2>2. new \in ReaderType /\ reading'[r] = new
    BY <1>1, <2>1 DEF ReaderType, Latest
  <2>3. got[r] = <<>> /\ new.at = "between" /\ new.from = last /\ new.since = published
        /\ new.start = IF last = Latest THEN published ELSE last
    BY <1>1, <1>3 DEF Reader, Open
  <2> HIDE DEF new
  <2>4. Reader(r)'
    BY <1>1, <1>2, <2>2, <2>3 DEF Reader, After, Latest
  <2> QED
    BY <1>1, <1>2, <2>1, <2>2, <2>4, ReaderStep DEF new
<1>4. CASE BeginRead(r)
  <2> DEFINE new == [at |-> "waiting", from |-> reading[r].from, since |-> published,
                     start |-> IF reading[r].from = Latest THEN published ELSE reading[r].start]
  <2>1. reading' = [reading EXCEPT ![r] = new]
    BY <1>4 DEF BeginRead
  <2>2. new \in ReaderType /\ reading'[r] = new
    BY <1>1, <2>1 DEF ReaderType, Latest
  <2>3. new.at = "waiting" /\ new.from = reading[r].from /\ new.since = published
        /\ new.start = IF reading[r].from = Latest THEN published ELSE reading[r].start
    OBVIOUS
  <2> HIDE DEF new
  <2>4. Reader(r)'
    <3>1. CASE reading[r].from = Latest
      BY <1>1, <1>2, <2>2, <2>3, <3>1 DEF Reader, After
    <3>2. CASE reading[r].from # Latest
      <4>1. After(r)' = After(r) /\ reading'[r].start = reading[r].start
        BY <2>2, <2>3, <3>2 DEF After
      <4> QED
        BY <1>1, <1>2, <2>2, <2>3, <3>2, <4>1 DEF Reader, Yielded
    <3> QED
      BY <3>1, <3>2
  <2> QED
    BY <1>1, <1>2, <2>1, <2>2, <2>4, ReaderStep
<1>5. CASE KeepAlive(r)
  <2> DEFINE new == [at |-> "between", from |-> reading[r].from, since |-> reading[r].since,
                     start |-> reading[r].start]
  <2>0. [reading[r] EXCEPT !.at = "between"] = new
    <3>1. reading[r] = [at |-> reading[r].at, from |-> reading[r].from, since |-> reading[r].since,
                        start |-> reading[r].start]
      BY <1>1 DEF ReaderType
    <3> QED
      BY <3>1
  <2>1. reading' = [reading EXCEPT ![r] = new]
    BY <1>5, <2>0 DEF KeepAlive
  <2>2. new \in ReaderType /\ reading'[r] = new
    BY <1>1, <2>1 DEF ReaderType, Latest
  <2>3. new.at = "between" /\ new.from = reading[r].from /\ new.since = reading[r].since
        /\ new.start = reading[r].start
    OBVIOUS
  <2> HIDE DEF new
  <2>4. Reader(r)'
    <3>1. After(r)' = After(r) /\ reading'[r].start = reading[r].start
      BY <2>2, <2>3 DEF After
    <3> QED
      BY <1>1, <1>2, <2>2, <2>3, <3>1 DEF Reader, Yielded
  <2> QED
    BY <1>1, <1>2, <2>1, <2>2, <2>4, ReaderStep
<1> QED
  BY <1>3, <1>4, <1>5

\* The first entries after an id.
Later(from) == Sorted({n \in entries : n > from})
Batch(from) == SubSeq(Later(from), 1, IF Len(Later(from)) < ReadCount THEN Len(Later(from)) ELSE ReadCount)

\* A batch follows an id: it is in order, and it has every entry up to its last one.
Follows(batch, from) ==
    /\ batch \in Seq(Nat) /\ Len(batch) \in Nat \ {0}
    /\ \A i \in 1 .. Len(batch) : batch[i] \in entries /\ batch[i] > from
    /\ \A i, j \in 1 .. Len(batch) : i < j => batch[i] < batch[j]
    /\ \A n \in entries : from < n /\ n <= batch[Len(batch)] => \E i \in 1 .. Len(batch) : batch[i] = n

\* A batch is what comes next in the stream: between the last id and the end of the batch
\* nothing in the stream is passed over.
LEMMA BatchKnown ==
  ASSUME StreamInv, NEW from \in Nat, Batch(from) # <<>>
  PROVE  Follows(Batch(from), from)
<1> DEFINE later == Later(from)
           batch == Batch(from)
           S == {n \in entries : n > from}
           k == Cardinality(S)
           m == IF Len(later) < ReadCount THEN Len(later) ELSE ReadCount
<1>1. published \in Nat /\ entries \subseteq 1 .. published /\ ReadCount \in Nat
  BY StreamAssumption DEF StreamInv, StreamTypeOK
<1>2. S \in SUBSET (1 .. published)
  BY <1>1
<1>0. later = Sorted(S) /\ batch # <<>>
      /\ batch = SubSeq(later, 1, IF Len(later) < ReadCount THEN Len(later) ELSE ReadCount)
  BY DEF Later, Batch
<1> HIDE DEF S, later, batch
<1>3. /\ k \in Nat /\ later \in [1 .. k -> S] /\ later \in Seq(S) /\ Len(later) = k
      /\ \A i, j \in 1 .. k : i < j => later[i] < later[j]
      /\ \A x \in S : \E i \in 1 .. k : later[i] = x
  BY <1>0, <1>1, <1>2, SortedLists
<1> HIDE DEF k
<1>4. m \in 0 .. k /\ m \in Nat
  BY <1>1, <1>3
<1> HIDE DEF m
<1>5. batch = SubSeq(later, 1, m)
  BY <1>0 DEF m
<1>6. Len(batch) = m /\ batch \in Seq(S) /\ \A i \in 1 .. m : batch[i] = later[i]
  <2>1. SubSeq(later, 1, m) = [i \in 1 .. m |-> later[i]]
    BY <1>3, <1>4
  <2>2. \A i \in 1 .. m : later[i] \in S
    BY <1>3, <1>4
  <2>3. /\ SubSeq(later, 1, m) \in Seq(S)
        /\ Len(SubSeq(later, 1, m)) = IF 1 <= m THEN m - 1 + 1 ELSE 0
    BY <1>4, <2>2, SubSeqProperties
  <2>4. Len(batch) = m /\ batch \in Seq(S)
    <3>1. batch \in Seq(S) /\ Len(batch) = IF 1 <= m THEN m - 1 + 1 ELSE 0
      BY <1>5, <2>3, Zenon
    <3> QED
      BY <1>4, <3>1
  <2>5. \A i \in 1 .. m : batch[i] = later[i]
    BY <1>5, <2>1
  <2> QED
    BY <2>4, <2>5
<1>7. m # 0
  BY <1>0, <1>6
<1>8. \A i \in 1 .. m : i \in 1 .. k /\ later[i] \in S
  BY <1>3, <1>4
<1>9. \A n \in S : n \in entries /\ n > from /\ n \in Nat
  BY <1>1 DEF S
<1>10. batch \in Seq(Nat)
  BY <1>6, <1>9
<1>11. ASSUME NEW n \in entries, from < n, n <= batch[m] PROVE \E i \in 1 .. m : batch[i] = n
  <2>1. n \in S
    BY <1>1, <1>11 DEF S
  <2>2. PICK i \in 1 .. k : later[i] = n
    BY <1>3, <2>1
  <2>3. m \in 1 .. m /\ m \in 1 .. k
    BY <1>4, <1>7
  <2>4. i <= m
    <3>1. SUFFICES ASSUME m < i PROVE FALSE
      BY <1>4, <2>3
    <3>2. later[m] < later[i]
      BY <1>3, <2>3, <3>1
    <3>3. later[m] \in Nat /\ n \in Nat
      BY <1>8, <1>9, <2>1, <2>3
    <3> QED
      BY <1>6, <1>11, <2>2, <2>3, <3>2, <3>3
  <2>5. i \in 1 .. m
    BY <1>4, <2>4
  <2> QED
    BY <1>6, <2>2, <2>5
<1>12. \A i \in 1 .. m : batch[i] \in entries /\ batch[i] > from
  BY <1>6, <1>8, <1>9
<1>13. \A i, j \in 1 .. m : i < j => batch[i] < batch[j]
  BY <1>3, <1>6, <1>8
<1>14. Len(batch) = m
  BY <1>6
<1> QED
  BY <1>4, <1>7, <1>10, <1>11, <1>12, <1>13, <1>14 DEF Follows, batch

\* The reader yields a batch, and has passed over nothing that it could have had.
LEMMA YieldBatchKeeps ==
  ASSUME StreamInv, NEW r \in Readers, YieldBatch(r) PROVE StreamInv'
<1> DEFINE from == After(r)
           batch == Batch(from)
           last == batch[Len(batch)]
           old == got[r]
           new == [at |-> IF last = Events THEN "over" ELSE "between", from |-> last,
                   since |-> reading[r].since, start |-> reading[r].start]
<1>1. /\ Reader(r) /\ reading[r] \in ReaderType /\ old \in Seq(Nat)
      /\ reading[r].since \in Nat /\ reading[r].start \in Nat
      /\ from \in Nat /\ from <= published /\ published \in Nat
      /\ got \in [Readers -> Seq(Nat)] /\ published <= Events /\ Events \in Nat
      /\ reading \in [Readers -> ReaderType] /\ entries \subseteq 1 .. published
      /\ 1 .. published \subseteq entries \cup neverStored \cup trimmedAway
  BY ReaderTyped, StreamAssumption DEF StreamInv, StreamTypeOK
<1>2. /\ batch # <<>> /\ got' = [got EXCEPT ![r] = old \o batch] /\ reading' = [reading EXCEPT ![r] = new]
      /\ UNCHANGED <<published, entries, expires, neverStored, trimmedAway, fails>>
  BY DEF YieldBatch, After, ReadUpTo, Batch, Later
<1>3. /\ batch \in Seq(Nat) /\ Len(batch) \in Nat \ {0}
      /\ \A i \in 1 .. Len(batch) : batch[i] \in entries /\ batch[i] > from
      /\ \A i, j \in 1 .. Len(batch) : i < j => batch[i] < batch[j]
      /\ \A n \in entries : from < n /\ n <= batch[Len(batch)] => \E i \in 1 .. Len(batch) : batch[i] = n
  BY <1>1, <1>2, BatchKnown DEF Follows
<1> HIDE DEF batch, from, old
<1> DEFINE p == Len(old)
           q == Len(batch)
<1>4. /\ old \o batch \in Seq(Nat) /\ Len(old \o batch) = p + q /\ p \in Nat /\ q \in Nat \ {0}
      /\ \A i \in 1 .. p : (old \o batch)[i] = old[i]
      /\ \A i \in 1 .. q : (old \o batch)[p + i] = batch[i]
      /\ \A i \in 1 .. (p + q) : i \in 1 .. p \/ (i - p \in 1 .. q /\ (old \o batch)[i] = batch[i - p])
      /\ DOMAIN (old \o batch) = 1 .. (p + q) /\ DOMAIN old = 1 .. p
  BY <1>1, <1>3
<1> DEFINE all == old \o batch
<1> HIDE DEF all, p, q
<1>5. got'[r] = all /\ got' \in [Readers -> Seq(Nat)] /\ \A o \in Readers \ {r} : got'[o] = got[o]
  BY <1>1, <1>2, <1>4 DEF all
<1>6. last \in 1 .. published /\ last > from /\ last = batch[q] /\ q \in 1 .. q
      /\ \A i \in 1 .. q : batch[i] <= last /\ batch[i] \in Nat
  <2>1. q \in 1 .. q
    BY <1>4
  <2>2. last = batch[q] /\ last \in 1 .. published /\ last > from
    BY <1>1, <1>3, <2>1 DEF q
  <2>3. ASSUME NEW i \in 1 .. q PROVE batch[i] <= last /\ batch[i] \in Nat
    <3>1. batch[i] \in Nat
      BY <1>3 DEF q
    <3>2. i < q \/ i = q
      BY <1>4
    <3> QED
      BY <1>3, <2>1, <2>2, <3>1, <3>2 DEF q
  <2> QED
    BY <2>1, <2>2, <2>3
<1> HIDE DEF last
<1>7. new \in ReaderType /\ new.from = last /\ new.since = reading[r].since /\ new.start = reading[r].start
      /\ new.at # "idle"
  <2>1. last \in Latest .. Events
    BY <1>1, <1>6 DEF Latest
  <2> QED
    BY <1>1, <2>1 DEF ReaderType
<1> HIDE DEF new
<1>8. reading'[r] = new
  BY <1>1, <1>2
<1>9. \A i \in 1 .. p : old[i] \in 1 .. published /\ old[i] <= from
  BY <1>1, <1>4 DEF Reader, from, old
<1>10. all \in Seq(Nat) /\ all # <<>> /\ all[Len(all)] = last /\ Len(all) = p + q
  BY <1>4, <1>6 DEF all
<1>11. ASSUME NEW i \in 1 .. (p + q) PROVE all[i] \in 1 .. published /\ all[i] <= last
  <2>1. CASE i \in 1 .. p
    BY SMTT(30), <1>1, <1>4, <1>6, <1>9, <2>1 DEF all
  <2>2. CASE i - p \in 1 .. q /\ all[i] = batch[i - p]
    BY <1>1, <1>3, <1>6, <2>2 DEF q
  <2> QED
    BY <1>4, <2>1, <2>2 DEF all
<1>12. ASSUME NEW i \in 1 .. (p + q), NEW j \in 1 .. (p + q), i < j PROVE all[i] < all[j]
  <2>1. CASE i \in 1 .. p /\ j \in 1 .. p
    BY <1>1, <1>4, <1>12, <2>1 DEF all, Reader, old
  <2>2. CASE i \in 1 .. p /\ j - p \in 1 .. q /\ all[j] = batch[j - p]
    <3>1. all[i] <= from /\ all[i] \in Nat /\ batch[j - p] > from /\ batch[j - p] \in Nat
      <4>1. all[i] = old[i] /\ old[i] \in Nat /\ old[i] <= from
        <5>1. old[i] \in 1 .. published /\ old[i] <= from
          BY <1>9, <2>2
        <5>2. all[i] = old[i]
          BY <1>4, <2>2 DEF all
        <5> QED
          BY <5>1, <5>2
      <4>2. batch[j - p] > from /\ batch[j - p] \in Nat
        BY <1>3, <1>6, <2>2 DEF q
      <4> QED
        BY <4>1, <4>2
    <3> QED
      BY <1>1, <2>2, <3>1
  <2>3. CASE i - p \in 1 .. q /\ all[i] = batch[i - p] /\ j - p \in 1 .. q /\ all[j] = batch[j - p]
    <3>1. i - p < j - p
      BY <1>4, <1>12
    <3> QED
      BY <1>3, <2>3, <3>1 DEF q
  <2>4. i \in 1 .. p \/ ~(j \in 1 .. p)
    BY <1>4, <1>12
  <2> QED
    BY <1>4, <2>1, <2>2, <2>3, <2>4 DEF all
<1>13. After(r)' = last
  BY <1>6, <1>7, <1>8 DEF After, Latest
<1>14. \A n \in Yielded(r) : n \in Yielded(r)'
  <2>1. ASSUME NEW i \in 1 .. p PROVE old[i] \in Yielded(r)'
    <3>1. i \in DOMAIN got'[r] /\ got'[r][i] = old[i]
      BY <1>4, <1>5 DEF all
    <3> QED
      BY <3>1 DEF Yielded
  <2> QED
    BY <1>4, <2>1 DEF Yielded, old
<1>15. ASSUME NEW n \in 1 .. published, reading[r].start < n, n <= last
       PROVE  n \in Yielded(r)' \cup neverStored \cup trimmedAway
  <2>1. CASE n <= from
    <3>1. n \in Yielded(r) \cup neverStored \cup trimmedAway
      BY <1>1, <1>15, <2>1 DEF Reader, from
    <3> QED
      BY <1>14, <3>1
  <2>2. CASE from < n /\ n \in entries
    <3>1. PICK i \in 1 .. q : batch[i] = n
      BY <1>3, <1>6, <1>15, <2>2 DEF q
    <3>2. p + i \in DOMAIN got'[r] /\ got'[r][p + i] = n
      <4>1. p + i \in 1 .. (p + q)
        BY <1>4
      <4>2. all[p + i] = batch[i] /\ DOMAIN all = 1 .. (p + q)
        BY <1>4 DEF all
      <4> QED
        BY <1>5, <3>1, <4>1, <4>2
    <3> QED
      BY <3>2 DEF Yielded
  <2>3. n \in entries \/ n \in neverStored \cup trimmedAway
    BY <1>1
  <2> QED
    BY <1>1, <1>15, <2>1, <2>2, <2>3
<1>16. last <= published /\ last # Latest /\ reading[r].start <= last /\ reading[r].since <= published
  <2>1. reading[r].start <= from
    BY <1>1 DEF Reader, from
  <2> QED
    BY <1>1, <1>6, <2>1 DEF Latest, Reader
<1>17. DOMAIN all = 1 .. (p + q)
  BY <1>4 DEF all
<1>18. Reader(r)'
  BY <1>2, <1>5, <1>7, <1>8, <1>10, <1>11, <1>12, <1>13, <1>15, <1>16, <1>17 DEF Reader
<1> QED
  BY <1>2, <1>5, <1>7, <1>18, ReaderStep

\* Every step of Redis and of the readers keeps the invariant.
LEMMA StreamKeeps == ASSUME StreamInv, [StreamNext]_redisVars PROVE StreamInv'
<1>1. CASE UNCHANGED redisVars
  <2>1. StreamTypeOK'
    BY <1>1 DEF redisVars, StreamInv, StreamTypeOK
  <2>2. \A r \in Readers : Reader(r)'
    BY <1>1 DEF redisVars, StreamInv, Reader, After, Yielded
  <2> QED
    BY <1>1, <2>1, <2>2 DEF redisVars, StreamInv
<1>2. CASE StreamNext
  BY <1>2, PublishKeeps, OpenKeeps, YieldBatchKeeps DEF StreamNext
<1> QED
  BY <1>1, <1>2

\* What a reader has passed over, it has passed over for a reason.
LEMMA StreamImplied == StreamInv => StreamTypeOK /\ ReadersMissNothing
<1> SUFFICES ASSUME StreamInv, NEW r \in Readers
             PROVE  /\ \A i, j \in DOMAIN got[r] : i < j => got[r][i] < got[r][j]
                    /\ got[r] # <<>> =>
                          (reading[r].start + 1) .. got[r][Len(got[r])]
                              \subseteq Yielded(r) \cup neverStored \cup trimmedAway
  BY DEF StreamInv, ReadersMissNothing
<1>1. Reader(r) /\ After(r) \in Nat /\ After(r) <= published /\ published \in Nat /\ reading[r].start \in Nat
      /\ got[r] \in Seq(Nat)
  BY ReaderTyped
<1>2. ASSUME got[r] # <<>>, NEW n \in (reading[r].start + 1) .. got[r][Len(got[r])]
      PROVE  n \in Yielded(r) \cup neverStored \cup trimmedAway
  <2>1. got[r][Len(got[r])] = After(r)
    BY <1>1, <1>2 DEF Reader, After
  <2>2. n \in 1 .. published /\ reading[r].start < n /\ n <= After(r)
    BY <1>1, <1>2, <2>1
  <2> QED
    BY <1>1, <2>2 DEF Reader
<1> QED
  BY <1>1, <1>2 DEF Reader

\* Whatever Redis trims, drops or refuses, and wherever a reader starts, it yields events
\* in order and once, and passes over only what the stream did not have (redis_stream.py).
THEOREM NoReaderMissesWhatWasThere == StreamSpec => [](StreamTypeOK /\ ReadersMissNothing)
  BY StreamInitially, StreamKeeps, StreamImplied, PTL DEF StreamSpec

(* RedisStream implements OrderedStream, the stream of the process. *)

\* What the clients of the abstract stream hold, and where they are.
AllIds == [r \in Readers |-> Ids(r)]
AllModes == [r \in Readers |-> Mode(r)]

\* The log is a sequence; the events are in it in their order.
LEMMA LoggedIs ==
  ASSUME StreamInv
  PROVE  /\ Logged \in Seq({"data", "end"}) /\ Len(Logged) = published /\ published \in Nat /\ Events \in Nat
         /\ \A n \in 1 .. published : Logged[n] = IF n = Events THEN "end" ELSE "data"
<1>1. published \in Nat /\ Events \in Nat
  BY StreamAssumption DEF StreamInv, StreamTypeOK
<1>2. \A n \in 1 .. published : (IF n = Events THEN "end" ELSE "data") \in {"data", "end"}
  OBVIOUS
<1> QED
  BY <1>1, <1>2 DEF Logged

\* A step that no reader can see.
LEMMA ReadersSeeNothing ==
  ASSUME \A r \in Readers : Mode(r)' = Mode(r), UNCHANGED <<published, got>>
  PROVE  UNCHANGED Ordered!abstractVars
<1>1. Logged' = Logged
  BY DEF Logged
<1>2. \A r \in Readers : Ids(r)' = Ids(r)
  BY DEF Ids
<1> QED
  BY <1>1, <1>2 DEF Ordered!abstractVars

\* Publishing writes to the log, which is open as long as there are events to come.
LEMMA PublishWrites == ASSUME StreamInv, StreamInv', Publish PROVE \E kind \in {"data", "end"} : Ordered!Write(kind)
<1> DEFINE kind == IF published + 1 = Events THEN "end" ELSE "data"
<1>1. /\ published < Events /\ published' = published + 1 /\ UNCHANGED <<reading, got>>
  BY DEF Publish
<1>2. /\ Logged \in Seq({"data", "end"}) /\ Len(Logged) = published /\ published \in Nat /\ Events \in Nat
      /\ \A n \in 1 .. published : Logged[n] = IF n = Events THEN "end" ELSE "data"
  BY LoggedIs
<1>3. /\ Logged' \in Seq({"data", "end"}) /\ Len(Logged') = published'
      /\ \A n \in 1 .. published' : Logged'[n] = IF n = Events THEN "end" ELSE "data"
  <2>1. Logged' = [n \in 1 .. published' |-> IF n = Events THEN "end" ELSE "data"]
    BY DEF Logged
  <2>2. \A n \in 1 .. published' : (IF n = Events THEN "end" ELSE "data") \in {"data", "end"}
    OBVIOUS
  <2>3. published' \in Nat
    BY <1>1, <1>2
  <2> QED
    BY <2>1, <2>2, <2>3
<1>4. kind \in {"data", "end"}
  OBVIOUS
<1>5. Logged' = Append(Logged, kind)
  <2>1. /\ Append(Logged, kind) \in Seq({"data", "end"}) /\ Len(Append(Logged, kind)) = published + 1
        /\ \A n \in 1 .. published : Append(Logged, kind)[n] = Logged[n]
        /\ Append(Logged, kind)[published + 1] = kind
    BY <1>2, <1>4
  <2> DEFINE longer == Append(Logged, kind)
  <2>2. ASSUME NEW n \in 1 .. published' PROVE Logged'[n] = longer[n]
    <3>1. n \in 1 .. published \/ n = published + 1
      BY <1>1, <1>2
    <3> QED
      BY <1>2, <1>3, <2>1, <3>1
  <2> HIDE DEF longer
  <2>3. longer \in Seq({"data", "end"}) /\ Len(longer) = Len(Logged')
    BY <1>1, <1>3, <2>1 DEF longer
  <2>4. Logged' = longer
    BY <1>3, <2>2, <2>3, SeqEqual
  <2> QED
    BY <2>4 DEF longer
<1>6. ~Ordered!Closed
  <2>1. ASSUME Logged # <<>> PROVE Logged[Len(Logged)] # "end"
    <3>1. published \in 1 .. published
      BY <1>2, <2>1
    <3> QED
      BY <1>1, <1>2, <3>1
  <2> QED
    BY <2>1 DEF Ordered!Closed
<1>7. \A r \in Readers : Ids(r)' = Ids(r) /\ Mode(r)' = Mode(r)
  BY <1>1 DEF Ids, Mode
<1> HIDE DEF kind
<1>8. UNCHANGED <<[r \in Readers |-> Ids(r)], [r \in Readers |-> Mode(r)]>>
  BY <1>7
<1> QED
  BY <1>4, <1>5, <1>6, <1>8 DEF Ordered!Write

\* A reader opens the stream; it holds nothing yet.
LEMMA OpenOpens == ASSUME StreamInv, NEW r \in Readers, Open(r) PROVE Ordered!Open(r)
<1>1. reading \in [Readers -> ReaderType]
  BY DEF StreamInv
<1>2. /\ reading[r].at = "idle" /\ reading'[r].at = "between" /\ \A o \in Readers \ {r} : reading'[o] = reading[o]
      /\ UNCHANGED <<published, got>>
  BY <1>1 DEF Open
<1>3. \A o \in Readers : Mode(o)' = (IF o = r THEN "on" ELSE Mode(o))
  BY <1>2 DEF Mode
<1>4. AllModes' = [AllModes EXCEPT ![r] = "on"]
  BY <1>3 DEF AllModes
<1>5. AllModes[r] # "on"
  BY <1>2 DEF AllModes, Mode
<1>6. AllIds' = AllIds /\ Logged' = Logged
  BY <1>2 DEF AllIds, Ids, Logged
<1> QED
  BY <1>4, <1>5, <1>6 DEF Ordered!Open, AllModes, AllIds

\* A read begins, or brings nothing.
LEMMA ReadUnseen == ASSUME StreamInv, NEW r \in Readers, BeginRead(r) \/ KeepAlive(r)
                    PROVE  UNCHANGED Ordered!abstractVars
<1>1. reading \in [Readers -> ReaderType] /\ reading[r] \in ReaderType
  BY DEF StreamInv
<1>2. /\ reading[r].at \in {"between", "waiting"} /\ reading'[r].at \in {"between", "waiting"}
      /\ \A o \in Readers \ {r} : reading'[o] = reading[o]
      /\ UNCHANGED <<published, got>>
  BY <1>1 DEF BeginRead, KeepAlive, ReaderType
<1>3. \A o \in Readers : Mode(o)' = Mode(o)
  BY <1>2 DEF Mode
<1> QED
  BY <1>2, <1>3, ReadersSeeNothing

\* What a reader yields comes after what it has yielded.
LEMMA YieldBatchIs ==
  ASSUME StreamInv, NEW r \in Readers, YieldBatch(r)
  PROVE  /\ reading[r].at = "waiting" /\ got' = [got EXCEPT ![r] = got'[r]]
         /\ Len(got[r]) < Len(got'[r]) /\ \A i \in 1 .. Len(got[r]) : got'[r][i] = got[r][i]
         /\ reading'[r].at = IF got'[r][Len(got'[r])] = Events THEN "over" ELSE "between"
         /\ \A o \in Readers \ {r} : reading'[o] = reading[o]
         /\ UNCHANGED <<published, entries>>
<1> DEFINE from == After(r)
           batch == Batch(from)
           last == batch[Len(batch)]
           old == got[r]
           new == [at |-> IF last = Events THEN "over" ELSE "between", from |-> last,
                   since |-> reading[r].since, start |-> reading[r].start]
<1>1. /\ old \in Seq(Nat) /\ from \in Nat /\ got \in [Readers -> Seq(Nat)] /\ reading \in [Readers -> ReaderType]
  BY ReaderTyped DEF StreamInv
<1>2. /\ batch # <<>> /\ got' = [got EXCEPT ![r] = old \o batch] /\ reading' = [reading EXCEPT ![r] = new]
      /\ UNCHANGED <<published, entries>> /\ reading[r].at = "waiting"
  BY DEF YieldBatch, After, ReadUpTo, Batch, Later
<1>3. batch \in Seq(Nat) /\ Len(batch) \in Nat \ {0}
  BY <1>1, <1>2, BatchKnown DEF Follows
<1> HIDE DEF batch, from, old
<1> DEFINE all == old \o batch
<1>4. /\ Len(old) < Len(all) /\ \A i \in 1 .. Len(old) : all[i] = old[i]
      /\ all[Len(all)] = last
  <2>1. /\ all \in Seq(Nat) /\ Len(all) = Len(old) + Len(batch) /\ Len(old) \in Nat
        /\ \A i \in 1 .. Len(old) : all[i] = old[i]
        /\ \A i \in 1 .. Len(batch) : all[Len(old) + i] = batch[i]
    BY <1>1, <1>3
  <2>2. Len(batch) \in 1 .. Len(batch)
    BY <1>3
  <2> HIDE DEF all
  <2> QED
    BY <1>3, <2>1, <2>2
<1> HIDE DEF all, last
<1>5. got'[r] = all /\ got' = [got EXCEPT ![r] = all]
  BY <1>1, <1>2 DEF all
<1>6. new.at = IF last = Events THEN "over" ELSE "between"
  OBVIOUS
<1> HIDE DEF new
<1>7. reading'[r] = new /\ \A o \in Readers \ {r} : reading'[o] = reading[o]
  BY <1>1, <1>2
<1> QED
  BY <1>2, <1>4, <1>5, <1>6, <1>7 DEF old

\* What a reader yields, a client receives.
LEMMA YieldBatchReceives == ASSUME StreamInv, StreamInv', NEW r \in Readers, YieldBatch(r) PROVE Ordered!Receive(r)
<1> DEFINE old == got[r]
           new == got'[r]
           m == Len(old)
           n == Len(new)
<1>1. /\ reading[r].at = "waiting" /\ got' = [got EXCEPT ![r] = new]
      /\ m < n /\ \A i \in 1 .. m : new[i] = old[i]
      /\ reading'[r].at = IF new[n] = Events THEN "over" ELSE "between"
      /\ \A o \in Readers \ {r} : reading'[o] = reading[o]
      /\ UNCHANGED <<published, entries>>
  BY YieldBatchIs
<1>2. /\ got \in [Readers -> Seq(Nat)] /\ got' \in [Readers -> Seq(Nat)]
      /\ old \in Seq(Nat) /\ new \in Seq(Nat) /\ m \in Nat /\ n \in Nat
      /\ DOMAIN old = 1 .. m /\ DOMAIN new = 1 .. n
  BY DEF StreamInv
<1>3. /\ Len(Logged) = published /\ published \in Nat /\ Events \in Nat /\ DOMAIN Logged = 1 .. published
      /\ \A k \in 1 .. published : Logged[k] = IF k = Events THEN "end" ELSE "data"
  BY LoggedIs
<1>4. /\ \A i \in 1 .. n : new[i] \in 1 .. published
      /\ \A i, j \in 1 .. n : i < j => new[i] < new[j]
  <2>1. Reader(r)'
    BY DEF StreamInv
  <2> QED
    BY <1>1, <1>2, <2>1 DEF Reader
<1> DEFINE ids == [i \in DOMAIN old |-> old[i] - 1]
           more == [i \in DOMAIN new |-> new[i] - 1]
<1>5. Ids(r) = ids /\ Ids(r)' = more
  BY DEF Ids
<1> HIDE DEF old, new, m, n
<1>6. /\ Len(ids) = m /\ Len(more) = n
      /\ \A i \in 1 .. m : ids[i] = old[i] - 1
      /\ \A i \in 1 .. n : more[i] = new[i] - 1
  BY <1>2
<1> HIDE DEF ids, more
<1>7. Ordered!Extends(more, ids)
  <2>1. ASSUME NEW i \in 1 .. m PROVE more[i] = ids[i]
    <3>1. i \in 1 .. n
      BY <1>1, <1>2
    <3> QED
      BY <1>1, <1>6, <3>1
  <2>2. ASSUME NEW i \in (m + 1) .. n PROVE more[i] + 1 \in DOMAIN Logged /\ (i > 1 => more[i - 1] < more[i])
    <3>1. i \in 1 .. n /\ (i > 1 => i - 1 \in 1 .. n)
      BY <1>1, <1>2
    <3>2. more[i] + 1 = new[i] /\ new[i] \in 1 .. published /\ more[i] = new[i] - 1
      BY <1>3, <1>4, <1>6, <3>1
    <3>3. ASSUME i > 1 PROVE more[i - 1] < more[i]
      <4>1. /\ new[i - 1] < new[i] /\ new[i - 1] \in 1 .. published /\ more[i - 1] = new[i - 1] - 1
        BY <1>2, <1>4, <1>6, <3>1, <3>3
      <4> QED
        BY <1>3, <3>2, <4>1
    <3> QED
      BY <1>3, <3>2, <3>3
  <2> QED
    BY <1>1, <1>6, <2>1, <2>2 DEF Ordered!Extends
<1>8. Logged[Ordered!LastId(more) + 1] = (IF new[n] = Events THEN "end" ELSE "data")
  <2>1. n \in 1 .. n
    BY <1>1, <1>2
  <2>2. more # <<>>
    BY <1>6, <2>1
  <2>3. more[n] + 1 = new[n] /\ new[n] \in 1 .. published
    BY <1>3, <1>4, <1>6, <2>1
  <2>4. Ordered!LastId(more) = more[n]
    BY <1>6, <2>2 DEF Ordered!LastId
  <2> QED
    BY <1>3, <2>3, <2>4
<1> DEFINE end == new[n] = Events
<1>9. /\ AllIds \in [Readers -> {Ids(o) : o \in Readers}] /\ AllIds[r] = ids /\ AllIds'[r] = more
      /\ AllIds' = [AllIds EXCEPT ![r] = more]
  <2>1. \A o \in Readers : o # r => Ids(o)' = Ids(o)
    BY <1>1, <1>2 DEF Ids
  <2> QED
    BY <1>5, <2>1 DEF AllIds
<1>10. \A o \in Readers : Mode(o)' = (IF o = r THEN (IF end THEN "ended" ELSE "on") ELSE Mode(o))
  BY <1>1 DEF Mode
<1>11. Mode(r) = "on"
  BY <1>1 DEF Mode
<1> HIDE DEF end
<1>12. AllModes[r] = "on" /\ AllModes' = [AllModes EXCEPT ![r] = IF end THEN "ended" ELSE "on"]
  BY <1>10, <1>11 DEF AllModes
<1>13. (IF Logged[Ordered!LastId(more) + 1] = "end" THEN "ended" ELSE "on") = IF end THEN "ended" ELSE "on"
  BY <1>8 DEF end
<1>14. Logged' = Logged
  BY <1>1 DEF Logged
<1>15. /\ AllModes[r] = "on" /\ Ordered!Extends(AllIds'[r], AllIds[r])
       /\ AllIds' = [AllIds EXCEPT ![r] = AllIds'[r]]
       /\ AllModes' = [AllModes EXCEPT ![r] = IF Logged[Ordered!LastId(AllIds'[r]) + 1] = "end"
                                              THEN "ended" ELSE "on"]
  BY <1>7, <1>9, <1>12, <1>13
<1> QED
  BY <1>14, <1>15 DEF Ordered!Receive, AllModes, AllIds

\* Reading a run's events from Redis is like reading them from the bus (redis_stream.py,
\* stream_sse): each reader gets events of the run in their order, each once, and its stream
\* ends with the last event and with nothing else.
THEOREM RedisStreamIsOrdered == StreamSpec => StreamIsOrdered
<1>1. StreamInit => Ordered!Init
  <2> SUFFICES ASSUME StreamInit PROVE Ordered!Init
    OBVIOUS
  <2>1. StreamInv /\ published = 0
    BY StreamInitially DEF StreamInit
  <2>2. Logged = <<>>
    BY <2>1, LoggedIs
  <2>3. \A r \in Readers : Ids(r) = <<>> /\ Mode(r) = "off"
    BY DEF StreamInit, NotReading, Ids, Mode
  <2> QED
    BY <2>2, <2>3 DEF Ordered!Init
<1>2. StreamInv /\ StreamInv' /\ [StreamNext]_redisVars => [Ordered!Next]_(Ordered!abstractVars)
  <2> SUFFICES ASSUME StreamInv, StreamInv', [StreamNext]_redisVars
               PROVE  [Ordered!Next]_(Ordered!abstractVars)
    OBVIOUS
  <2>1. CASE Publish
    BY <2>1, PublishWrites DEF Ordered!Next
  <2>2. CASE DropKey
    BY <2>2, ReadersSeeNothing DEF DropKey, Mode
  <2>3. ASSUME NEW r \in Readers, Open(r) \/ BeginRead(r) \/ YieldBatch(r) \/ KeepAlive(r)
        PROVE  [Ordered!Next]_(Ordered!abstractVars)
    BY <2>3, OpenOpens, ReadUnseen, YieldBatchReceives DEF Ordered!Next
  <2>4. CASE UNCHANGED redisVars
    BY <2>4, ReadersSeeNothing DEF redisVars, Mode
  <2> QED
    BY <2>1, <2>2, <2>3, <2>4 DEF StreamNext
<1> QED
  BY <1>1, <1>2, StreamInitially, StreamKeeps, PTL DEF StreamSpec, StreamIsOrdered, Ordered!Spec
-----------------------------------------------------------------------------
(***************************************************************************)
(* The cache of data analyses. That a call finds the tables of its files   *)
(* needs what the database and the map know of each other, and what each   *)
(* call knows of both. That each table in the way of a call is the debris  *)
(* of another call's death needs that calls come one after the other, and  *)
(* that debris has its own death before anybody meets it.                  *)
(***************************************************************************)

Usable == tableMap \notin {NoMap, TornMap}
InIt(db, map) == \A n \in DOMAIN map : map[n] \in DOMAIN db

\* What is in a table is the text of a file that gave it its name.
Textual(db) == db # NoDatabase => \A t \in DOMAIN db : t \in TableNames /\ db[t] \in TextsOf(t[1])
Named(map) ==
    /\ IsFiniteSet(DOMAIN map)
    /\ \A n \in DOMAIN map : n \in FileLabels /\ map[n] \in TableNames /\ map[n][1] = n

AnalysisPoints == {"new", "mapped", "hit", "miss", "loading", "saving", "working", "reading",
                   "emptied", "over"}

Analysis(at, map, rest, own, unread) ==
    [at |-> at, map |-> map, left |-> rest, own |-> own, unread |-> unread]

CallKnown(r) ==
    /\ r = Analysis(r.at, r.map, r.left, r.own, r.unread)
    /\ r.at \in AnalysisPoints /\ r.unread \in BOOLEAN
    /\ r.left \in Seq(DataFiles)
    /\ Named(r.map) /\ Textual(r.own)
    /\ r.at \in {"new", "over", "emptied"} => r.map = EmptyMap
    /\ r.at \in {"hit", "saving"} => r.map # EmptyMap

CacheKnown ==
    /\ Textual(tables)
    /\ Usable => Named(tableMap) /\ tableMap # EmptyMap
    /\ analyses = [c \in Calls |-> analyses[c]] /\ \A c \in Calls : CallKnown(analyses[c])
    /\ deaths \in 0 .. MaxDeaths /\ beside \in BOOLEAN /\ barren \in BOOLEAN
    /\ rewritten \in BOOLEAN /\ vain \in Nat

\* The locks of DuckDB on the one database that is there.
Locked ==
    /\ \A c, d \in Calls :
          Linked(c) /\ Linked(d) /\ Loads(c) /\ c # d => ~Loads(d) /\ analyses[d].at # "reading"
    /\ \A c \in Calls : Linked(c) /\ (Loads(c) \/ analyses[c].at = "reading") => tables # NoDatabase

Calm == ~rewritten /\ (~beside \/ ~barren)

\* What is on disk and what the calls know agree.
Found ==
    /\ \A c \in Calls : Linked(c) /\ (analyses[c].at = "emptied" => barren)
    /\ \A c \in Calls :
          analyses[c].at \in {"loading", "emptied"} \/ analyses[c].map # EmptyMap => tables # NoDatabase
    /\ Usable => tables # NoDatabase /\ InIt(tables, tableMap)
    /\ \A c \in Calls : InIt(tables, analyses[c].map)

\* Tables for which there is no map, nor a call that is to write one.
Debris ==
    /\ tables # NoDatabase /\ DOMAIN tables # {} /\ ~Usable
    /\ \A c \in Calls : analyses[c].at \in {"loading", "saving"} => analyses[c].map = EmptyMap

\* Calls that come one after the other: what they look up stays so, a call that
\* finds a table in its way has found debris, and each debris has a death of its own.
Alone ==
    /\ \A c, d \in Calls : UnderWay(c) /\ UnderWay(d) => c = d
    /\ \A c \in Calls :
          /\ analyses[c].at = "mapped" => analyses[c].map = IF Usable THEN tableMap ELSE EmptyMap
          /\ analyses[c].at \in {"miss", "loading", "emptied"} => ~Usable
          /\ analyses[c].map = EmptyMap /\ ~analyses[c].unread
             /\ (analyses[c].at = "emptied"
                 \/ (analyses[c].at = "loading" /\ analyses[c].left # FilesOf[c]))
             => DOMAIN tables # {}
    /\ vain <= deaths /\ (Debris => vain + 1 <= deaths)

CacheInv ==
    /\ CacheKnown /\ Locked
    /\ Calm => Found
    /\ ~beside /\ ~rewritten => Alone

-----------------------------------------------------------------------------
\* The empty map is a map, a database and a sequence, and none of the marks.
LEMMA EmptyMapIs ==
  /\ DOMAIN EmptyMap = {} /\ EmptyMap \in Seq(DataFiles) /\ Named(EmptyMap) /\ Textual(EmptyMap)
  /\ EmptyMap # NoDatabase /\ EmptyMap # NoMap /\ EmptyMap # TornMap
<1>1. DOMAIN EmptyMap = {} /\ EmptyMap \in Seq(DataFiles)
  BY DEF EmptyMap
<1>2. DOMAIN NoDatabase # {} /\ DOMAIN NoMap # {} /\ DOMAIN TornMap # {}
  BY DEF NoDatabase, NoMap, TornMap
<1>3. IsFiniteSet(DOMAIN EmptyMap)
  BY <1>1, FS_EmptySet
<1> QED BY <1>1, <1>2, <1>3 DEF Named, Textual

\* A map or a database that has been given an entry.
LEMMA WithIs ==
  ASSUME NEW f, NEW x, NEW v
  PROVE  /\ DOMAIN With(f, x, v) = DOMAIN f \cup {x} /\ With(f, x, v)[x] = v
         /\ \A y \in DOMAIN f \ {x} : With(f, x, v)[y] = f[y]
         /\ With(f, x, v) # EmptyMap
<1>1. DOMAIN With(f, x, v) # {}
  BY DEF With
<1> QED BY <1>1, EmptyMapIs DEF With

\* There is a table for every label whose name is free.
LEMMA TableForIs ==
  ASSUME NEW map, Named(map), NEW name \in FileLabels
  PROVE  TableFor(map, name) \in TableNames /\ TableFor(map, name)[1] = name
<1> DEFINE taken == {map[n] : n \in DOMAIN map}
           m == Cardinality(taken)
           P(i) == <<name, i>> \notin taken /\ \A j \in 0 .. (i - 1) : <<name, j>> \in taken
<1>1. IsFiniteSet(taken) /\ m \in Nat
  <2> DEFINE f == [n \in DOMAIN map |-> map[n]]
  <2>1. f \in Surjection(DOMAIN map, taken)
    BY DEF Surjection
  <2> QED BY <2>1, FS_Surjection, FS_CardinalityType DEF Named
<1>2. \E i \in 0 .. m : <<name, i>> \notin taken
  <2> SUFFICES ASSUME \A i \in 0 .. m : <<name, i>> \in taken PROVE FALSE
    OBVIOUS
  <2> DEFINE f == [i \in 0 .. m |-> <<name, i>>]
  <2>1. f \in [0 .. m -> taken]
    OBVIOUS
  <2>2. IsFiniteSet(0 .. m) /\ Cardinality(0 .. m) = m + 1
    <3> HIDE DEF m
    <3>1. 0 \in Int /\ m \in Int /\ ~(0 > m)
      BY <1>1
    <3> QED BY <3>1, FS_Interval
  <2>3. m < Cardinality(0 .. m)
    <3> HIDE DEF m
    <3> QED BY <1>1, <2>2
  <2>4. \E x, y \in 0 .. m : x # y /\ f[x] = f[y]
    <3> HIDE DEF f, taken
    <3> QED BY <1>1, <2>1, <2>2, <2>3, FS_PigeonHole
  <2> QED BY <2>4
<1> DEFINE T == {i \in 0 .. m : <<name, i>> \notin taken}
<1>3. T \in SUBSET Nat /\ T # {}
  <2> HIDE DEF m, taken
  <2> QED BY <1>1, <1>2
<1>4. PICK k \in T : \A i \in T : k <= i
  BY <1>3, Least
<1>5. k \in 0 .. m /\ P(k)
  <2> HIDE DEF m
  <2> QED BY <1>1, <1>4
<1> DEFINE h == CHOOSE i \in 0 .. m : P(i)
<1>6. h \in 0 .. m
  <2> HIDE DEF P, m
  <2> QED BY <1>5
<1>7. TableFor(map, name) = <<name, h>>
  BY DEF TableFor
<1> QED
  <2> HIDE DEF h
  <2> QED BY <1>1, <1>6, <1>7 DEF TableNames

\* A file is loaded into a database.
LEMMA LoadedIs ==
  ASSUME NEW file \in DataFiles, NEW map, Named(map), NEW db, db = NoDatabase \/ Textual(db), db # NoDatabase,
         NEW t, t = TableFor(map, file.name)
  PROVE  /\ Textual(With(db, t, file.holds)) /\ With(db, t, file.holds) # NoDatabase
         /\ Named(With(map, file.name, t)) /\ t \in TableNames
<1>1. file.name \in FileLabels /\ file.holds \in TextsOf(file.name)
  BY DEF FileLabels, TextsOf
<1>2. t \in TableNames /\ t[1] = file.name
  BY <1>1, TableForIs
<1>3. Textual(With(db, t, file.holds)) /\ With(db, t, file.holds) # NoDatabase
  <2> DEFINE g == With(db, t, file.holds)
  <2>1. DOMAIN g = DOMAIN db \cup {t} /\ g[t] = file.holds /\ \A y \in DOMAIN db \ {t} : g[y] = db[y]
    BY DEF With
  <2> HIDE DEF g
  <2>2. Textual(g)
    BY <1>1, <1>2, <2>1 DEF Textual
  <2>3. <<"no database", 0>>[1] = "no database"
    OBVIOUS
  <2>4. t # <<"no database", 0>>
    BY <1>1, <1>2, <2>3, CacheAssumption
  <2>5. DOMAIN NoDatabase = {<<"no database", 0>>}
    BY DEF NoDatabase
  <2>6. g # NoDatabase
    BY <2>1, <2>4, <2>5
  <2> QED BY <2>2, <2>6 DEF g
<1>5. Named(With(map, file.name, t))
  <2> DEFINE g == With(map, file.name, t)
             x == file.name
  <2>1. DOMAIN g = DOMAIN map \cup {x} /\ g[x] = t /\ \A y \in DOMAIN map \ {x} : g[y] = map[y]
    BY DEF With
  <2> HIDE DEF g
  <2>2. IsFiniteSet(DOMAIN g)
    BY <2>1, FS_AddElement DEF Named
  <2>3. Named(g)
    BY <1>1, <1>2, <2>1, <2>2 DEF Named
  <2> QED BY <2>3 DEF g
<1> QED BY <1>2, <1>3, <1>5

-----------------------------------------------------------------------------
\* One call turns into r, the others stay.
Turns(c, r) ==
    /\ analyses' = [d \in Calls |-> analyses'[d]] /\ analyses'[c] = r
    /\ \A d \in Calls \ {c} : analyses'[d] = analyses[d]

OverCall == Analysis("over", EmptyMap, EmptyMap, NoDatabase, FALSE)

\* An analysis that turns is the only one that changes.
LEMMA Turning ==
  ASSUME CacheKnown, NEW c \in Calls, NEW r, analyses' = [analyses EXCEPT ![c] = r]
  PROVE  Turns(c, r)
BY DEF CacheKnown, Turns

\* The fields of an analysis after some of them changed.
LEMMA ChangedIs ==
  ASSUME NEW a, a = Analysis(a.at, a.map, a.left, a.own, a.unread), NEW s, NEW m
  PROVE  [a EXCEPT !.at = s, !.map = m] = Analysis(s, m, a.left, a.own, a.unread)
<1> DEFINE y == [a EXCEPT !.at = s]
<1>1. y = Analysis(s, a.map, a.left, a.own, a.unread)
  BY DEF Analysis
<1>2. [a EXCEPT !.at = s, !.map = m] = [y EXCEPT !.map = m]
  OBVIOUS
<1> HIDE DEF y
<1>3. [y EXCEPT !.map = m] = Analysis(s, m, a.left, a.own, a.unread)
  BY <1>1 DEF Analysis
<1> QED BY <1>2, <1>3

\* A move of an analysis changes where it is.
LEMMA MovesTurns ==
  ASSUME CacheKnown, NEW c \in Calls, NEW s, Moves(c, s)
  PROVE  Turns(c, Analysis(s, analyses[c].map, analyses[c].left, analyses[c].own, analyses[c].unread))
<1> DEFINE r == [analyses[c] EXCEPT !.at = s]
<1>1. analyses' = [analyses EXCEPT ![c] = r]
  BY DEF Moves
<1>2. r = Analysis(s, analyses[c].map, analyses[c].left, analyses[c].own, analyses[c].unread)
  BY DEF CacheKnown, CallKnown, Analysis
<1> HIDE DEF r
<1> QED BY <1>1, <1>2, Turning

\* An analysis that is over is as if it were new.
LEMMA OverIs == [NewCall EXCEPT !.at = "over"] = OverCall
<1> HIDE DEF EmptyMap, NoDatabase
<1>1. NewCall = [at |-> "new", map |-> EmptyMap, left |-> EmptyMap, own |-> NoDatabase, unread |-> FALSE]
  BY DEF NewCall
<1>2. ASSUME NEW m, NEW o, NEW u
      PROVE  [[at |-> "new", map |-> m, left |-> m, own |-> o, unread |-> u] EXCEPT !.at = "over"]
             = [at |-> "over", map |-> m, left |-> m, own |-> o, unread |-> u]
  OBVIOUS
<1>3. [[at |-> "new", map |-> EmptyMap, left |-> EmptyMap, own |-> NoDatabase, unread |-> FALSE] EXCEPT !.at = "over"]
      = [at |-> "over", map |-> EmptyMap, left |-> EmptyMap, own |-> NoDatabase, unread |-> FALSE]
  BY <1>2
<1> QED BY <1>1, <1>3 DEF OverCall, Analysis

\* So is one that ends.
LEMMA EndsTurns ==
  ASSUME CacheKnown, NEW c \in Calls, Ends(c) \/ Fails(c)
  PROVE  Turns(c, OverCall)
BY Turning, OverIs DEF Ends, Fails

\* Every analysis is put together from its fields.
LEMMA AnalysisIs ==
  ASSUME NEW a, NEW m, NEW l, NEW o, NEW u
  PROVE  /\ Analysis(a, m, l, o, u).at = a /\ Analysis(a, m, l, o, u).map = m
         /\ Analysis(a, m, l, o, u).left = l /\ Analysis(a, m, l, o, u).own = o
         /\ Analysis(a, m, l, o, u).unread = u
BY DEF Analysis

\* An analysis that is over is known.
LEMMA OverKnown == CallKnown(OverCall)
<1>1. Textual(NoDatabase)
  BY DEF Textual
<1>2. /\ OverCall.at = "over" /\ OverCall.map = EmptyMap /\ OverCall.left = EmptyMap
      /\ OverCall.own = NoDatabase
  BY DEF OverCall, Analysis
<1>3. OverCall.unread = FALSE
  BY DEF OverCall, Analysis
<1>4. OverCall.unread \in BOOLEAN
  BY <1>3
<1>5. OverCall = Analysis(OverCall.at, OverCall.map, OverCall.left, OverCall.own, OverCall.unread)
  BY <1>2, <1>3 DEF OverCall
<1> QED BY <1>1, <1>2, <1>4, <1>5, EmptyMapIs DEF CallKnown, AnalysisPoints

\* The calls are known as before.
LEMMA KnownTurns ==
  ASSUME CacheKnown, NEW c \in Calls, NEW r, Turns(c, r), CallKnown(r)
  PROVE  analyses' = [d \in Calls |-> analyses'[d]] /\ \A d \in Calls : CallKnown(analyses'[d])
BY DEF Turns, CacheKnown

\* What one analysis must show when it turns, so that the locks stay as they are.
LEMMA LockedTurns ==
  ASSUME Locked, NEW c \in Calls, NEW r, Turns(c, r),
         r.own = NoDatabase => Linked(c),
         r.own = NoDatabase /\ r.at \in {"loading", "saving", "working"} =>
             Loads(c) \/ \A d \in Calls \ {c} : Linked(d) => ~Loads(d) /\ analyses[d].at # "reading",
         r.own = NoDatabase /\ r.at = "reading" =>
             analyses[c].at = "reading" \/ \A d \in Calls \ {c} : Linked(d) => ~Loads(d),
         tables # NoDatabase => tables' # NoDatabase,
         r.own = NoDatabase /\ r.at \in {"loading", "saving", "working", "reading"} => tables' # NoDatabase
  PROVE  Locked'
BY DEF Locked, Turns, Linked, Loads

\* What it must show for disk and calls to agree.
LEMMA FoundTurns ==
  ASSUME Found, NEW c \in Calls, NEW r, Turns(c, r),
         r.own = NoDatabase, r.at = "emptied" => barren', barren => barren',
         tables # NoDatabase => tables' # NoDatabase, DOMAIN tables \subseteq DOMAIN tables' \/ tables = NoDatabase,
         r.at \in {"loading", "emptied"} \/ r.map # EmptyMap => tables' # NoDatabase,
         InIt(tables', r.map),
         Usable' => tables' # NoDatabase /\ InIt(tables', tableMap')
  PROVE  Found'
<1>1. \A d \in Calls : Linked(d)' /\ (analyses'[d].at = "emptied" => barren')
  BY DEF Found, Turns, Linked
<1>2. \A d \in Calls :
         analyses'[d].at \in {"loading", "emptied"} \/ analyses'[d].map # EmptyMap => tables' # NoDatabase
  BY DEF Found, Turns
<1>3. ASSUME NEW d \in Calls PROVE InIt(tables', analyses'[d].map)
  <2>1. CASE d = c
    BY <2>1 DEF Turns
  <2>2. CASE d # c
    <3>1. analyses'[d] = analyses[d] /\ InIt(tables, analyses[d].map)
      BY <2>2 DEF Found, Turns
    <3>2. CASE analyses[d].map = EmptyMap
      BY <3>1, <3>2, EmptyMapIs DEF InIt
    <3>3. CASE analyses[d].map # EmptyMap
      BY <3>1, <3>3 DEF InIt, Found
    <3> QED BY <3>2, <3>3
  <2> QED BY <2>1, <2>2
<1>4. (Usable => tables # NoDatabase /\ InIt(tables, tableMap))'
  BY DEF InIt
<1> QED BY <1>1, <1>2, <1>3, <1>4 DEF Found

\* What it must show for calls that come one after the other.
LEMMA AloneTurns ==
  ASSUME CacheKnown, NEW c \in Calls, NEW r, Turns(c, r),
         \A d \in Calls \ {c} : ~UnderWay(d),
         r.at = "mapped" => r.map = IF Usable' THEN tableMap' ELSE EmptyMap,
         r.at \in {"miss", "loading", "emptied"} => ~Usable',
         r.map = EmptyMap /\ ~r.unread
             /\ (r.at = "emptied" \/ (r.at = "loading" /\ r.left # FilesOf[c])) => DOMAIN tables' # {},
         vain' <= deaths', Debris' => vain' + 1 <= deaths'
  PROVE  Alone'
<1>1. \A d \in Calls \ {c} : analyses'[d].at \in {"new", "over"}
  BY DEF Turns, UnderWay
<1>2. \A d, e \in Calls : UnderWay(d)' /\ UnderWay(e)' => d = e
  BY <1>1 DEF UnderWay
<1>3. analyses'[c] = r
  BY DEF Turns
<1>4. ASSUME NEW d \in Calls
      PROVE  /\ analyses'[d].at = "mapped" => analyses'[d].map = IF Usable' THEN tableMap' ELSE EmptyMap
             /\ analyses'[d].at \in {"miss", "loading", "emptied"} => ~Usable'
             /\ analyses'[d].map = EmptyMap /\ ~analyses'[d].unread
                /\ (analyses'[d].at = "emptied"
                    \/ (analyses'[d].at = "loading" /\ analyses'[d].left # FilesOf[d]))
                => DOMAIN tables' # {}
  <2>1. CASE d = c
    BY <1>3, <2>1
  <2>2. CASE d # c
    BY <1>1, <2>2
  <2> QED BY <2>1, <2>2
<1> QED BY <1>2, <1>4 DEF Alone

\* Debris after a step was debris before, unless the step made it.
LEMMA DebrisTurns ==
  ASSUME NEW c \in Calls, NEW r, Turns(c, r), UNCHANGED <<tables, tableMap>>,
         analyses[c].at \in {"loading", "saving"} /\ analyses[c].map # EmptyMap =>
             r.at \in {"loading", "saving"} /\ r.map # EmptyMap
  PROVE  Debris' => Debris
BY DEF Debris, Turns, Usable

\* A call that is under way is alone, if calls come one after the other.
LEMMA OthersRest ==
  ASSUME Alone, NEW c \in Calls, UnderWay(c)
  PROVE  \A d \in Calls \ {c} : ~UnderWay(d)
BY DEF Alone

-----------------------------------------------------------------------------
\* What is known of a call, one by one.
LEMMA CallsKnown ==
  ASSUME CacheInv, NEW c \in Calls
  PROVE  /\ CacheKnown /\ Locked /\ CallKnown(analyses[c])
         /\ Named(analyses[c].map) /\ Textual(analyses[c].own) /\ analyses[c].left \in Seq(DataFiles)
         /\ analyses[c].unread \in BOOLEAN
         /\ Calm => Found
         /\ ~beside /\ ~rewritten => Alone /\ Calm /\ Found
BY DEF CacheInv, CacheKnown, CallKnown, Calm

\* What is known of the calls when one of them turns.
LEMMA KnownKeeps ==
  ASSUME CacheKnown, NEW c \in Calls, NEW r, Turns(c, r), CallKnown(r), Textual(tables'),
         Usable' => Named(tableMap') /\ tableMap' # EmptyMap,
         deaths' \in 0 .. MaxDeaths, beside' \in BOOLEAN, barren' \in BOOLEAN,
         rewritten' \in BOOLEAN, vain' \in Nat
  PROVE  CacheKnown'
BY KnownTurns DEF CacheKnown

\* What there is on disk stays.
LEMMA DiskStays ==
  ASSUME CacheKnown, UNCHANGED <<tables, tableMap>>
  PROVE  /\ Textual(tables') /\ (Usable' => Named(tableMap') /\ tableMap' # EmptyMap)
         /\ Usable' = Usable
BY DEF CacheKnown, Usable

\* The map that is read is one.
LEMMA MappedTyped ==
  ASSUME CacheKnown
  PROVE  Named(IF Usable THEN tableMap ELSE EmptyMap)
BY EmptyMapIs DEF CacheKnown

\* A call reads the map.
LEMMA ReadMapKeeps ==
  ASSUME CacheInv, NEW c \in Calls, ReadMap(c)
  PROVE  CacheInv'
<1> DEFINE a == analyses[c]
           m == IF Usable THEN tableMap ELSE EmptyMap
           r == Analysis("mapped", m, a.left, a.own, a.unread)
<1>1. /\ CacheKnown /\ Locked /\ CallKnown(a) /\ a.left \in Seq(DataFiles) /\ Textual(a.own) /\ a.unread \in BOOLEAN
      /\ a.at = "new"
  BY CallsKnown DEF ReadMap
<1>2. UNCHANGED <<tables, tableMap, deaths, barren, rewritten, vain>>
      /\ beside' = (beside \/ \E d \in Calls : UnderWay(d))
  BY DEF ReadMap
<1>3. Turns(c, r)
  <2> DEFINE k == IF tableMap \in {NoMap, TornMap} THEN EmptyMap ELSE tableMap
             x == [a EXCEPT !.at = "mapped", !.map = k]
  <2>1. k = m
    BY DEF Usable
  <2> HIDE DEF k, m
  <2>2. analyses' = [analyses EXCEPT ![c] = x]
    BY DEF ReadMap, k
  <2>3. a = Analysis(a.at, a.map, a.left, a.own, a.unread)
    BY <1>1 DEF CallKnown
  <2>4. x = r
    <3> HIDE DEF a
    <3> QED BY <2>1, <2>3, ChangedIs
  <2> HIDE DEF x, r
  <2> QED BY <1>1, <2>2, <2>4, Turning
<1>4. r.at = "mapped" /\ r.map = m /\ r.left = a.left /\ r.own = a.own
  BY AnalysisIs
<1>5. r.unread = a.unread
  BY DEF Analysis
<1>6. CallKnown(r)
  <2>1. Named(m)
    BY <1>1, MappedTyped
  <2> HIDE DEF m
  <2>2. r = Analysis(r.at, r.map, r.left, r.own, r.unread)
    BY <1>4, <1>5
  <2> HIDE DEF r
  <2> QED BY <1>1, <1>4, <1>5, <2>1, <2>2 DEF CallKnown, AnalysisPoints
<1> HIDE DEF r
<1>7. CacheKnown'
  <2>1. beside' \in BOOLEAN /\ deaths' \in 0 .. MaxDeaths /\ barren' \in BOOLEAN /\ rewritten' \in BOOLEAN
        /\ vain' \in Nat
    BY <1>1, <1>2 DEF CacheKnown
  <2> QED BY <1>1, <1>2, <1>3, <1>6, <2>1, DiskStays, KnownKeeps
<1>8. Locked'
  BY <1>1, <1>2, <1>3, <1>4, LockedTurns DEF Linked
<1>9. Calm' => Found'
  <2> SUFFICES ASSUME Calm' PROVE Found'
    OBVIOUS
  <2>1. Found
    BY <1>2, CallsKnown DEF Calm
  <2>2. m # EmptyMap => tables # NoDatabase
    BY <2>1 DEF Found
  <2>3. InIt(tables, m)
    BY <2>1, EmptyMapIs DEF Found, InIt
  <2>4. a.own = NoDatabase
    BY <2>1 DEF Found, Linked
  <2> HIDE DEF m
  <2>5. Usable' => tables' # NoDatabase /\ InIt(tables', tableMap')
    BY <1>1, <1>2, <2>1, DiskStays DEF Found
  <2> QED BY <1>2, <1>3, <1>4, <2>1, <2>2, <2>3, <2>4, <2>5, FoundTurns
<1>10. ~beside' /\ ~rewritten' => Alone'
  <2> SUFFICES ASSUME ~beside', ~rewritten' PROVE Alone'
    OBVIOUS
  <2>1. Alone /\ \A d \in Calls : ~UnderWay(d)
    BY <1>2, CallsKnown
  <2>2. Debris' => Debris
    BY <1>1, <1>2, <1>3, DebrisTurns
  <2>3. r.map = IF Usable' THEN tableMap' ELSE EmptyMap
    BY <1>1, <1>2, <1>4, DiskStays
  <2>4. vain' <= deaths' /\ (Debris' => vain' + 1 <= deaths')
    BY <1>2, <2>1, <2>2 DEF Alone
  <2> QED BY <1>1, <1>3, <1>4, <2>1, <2>3, <2>4, AloneTurns
<1> QED BY <1>7, <1>8, <1>9, <1>10 DEF CacheInv

\* A call looks its files up in the map.
LEMMA LookUpKeeps ==
  ASSUME CacheInv, NEW c \in Calls, LookUp(c)
  PROVE  CacheInv'
<1> DEFINE a == analyses[c]
           s == IF a.map # EmptyMap /\ tables # NoDatabase THEN "hit" ELSE "miss"
           r == Analysis(s, a.map, a.left, a.own, a.unread)
<1>1. /\ CacheKnown /\ Locked /\ CallKnown(a)
      /\ a.at = "mapped" /\ Moves(c, s)
      /\ UNCHANGED <<tables, tableMap, deaths, beside, barren, rewritten, vain>>
  BY CallsKnown DEF LookUp
<1>2. s \in {"hit", "miss"} /\ (s = "hit" <=> a.map # EmptyMap /\ tables # NoDatabase)
  OBVIOUS
<1> HIDE DEF s
<1>3. Turns(c, r)
  BY <1>1, MovesTurns
<1>4. r.at = s /\ r.map = a.map /\ r.left = a.left /\ r.own = a.own
  BY DEF Analysis
<1>5. r.unread = a.unread
  BY DEF Analysis
<1>6. CallKnown(r)
  <2>1. r = Analysis(r.at, r.map, r.left, r.own, r.unread)
    BY <1>4, <1>5
  <2> HIDE DEF r
  <2> QED BY <1>1, <1>2, <1>4, <1>5, <2>1 DEF CallKnown, AnalysisPoints
<1> HIDE DEF r
<1>7. CacheKnown'
  <2>1. beside' \in BOOLEAN /\ deaths' \in 0 .. MaxDeaths /\ barren' \in BOOLEAN /\ rewritten' \in BOOLEAN
        /\ vain' \in Nat
    BY <1>1 DEF CacheKnown
  <2> QED BY <1>1, <1>3, <1>6, <2>1, DiskStays, KnownKeeps
<1>8. Locked'
  BY <1>1, <1>2, <1>3, <1>4, LockedTurns DEF Linked
<1>9. Calm' => Found'
  <2> SUFFICES ASSUME Calm' PROVE Found'
    OBVIOUS
  <2>1. Found
    BY <1>1, CallsKnown DEF Calm
  <2>2. (a.map # EmptyMap => tables # NoDatabase) /\ InIt(tables, a.map) /\ a.own = NoDatabase
    BY <2>1 DEF Found, Linked
  <2>3. Usable' => tables' # NoDatabase /\ InIt(tables', tableMap')
    BY <1>1, <2>1, DiskStays DEF Found
  <2> QED BY <1>1, <1>2, <1>3, <1>4, <2>1, <2>2, <2>3, FoundTurns
<1>10. ~beside' /\ ~rewritten' => Alone'
  <2> SUFFICES ASSUME ~beside', ~rewritten' PROVE Alone'
    OBVIOUS
  <2>1. Alone /\ Found
    BY <1>1, CallsKnown
  <2>2. Debris' => Debris
    BY <1>1, <1>3, DebrisTurns
  <2>3. s = "miss" => ~Usable
    BY <1>1, <1>2, <2>1 DEF Alone, Found, CacheKnown
  <2>4. \A d \in Calls \ {c} : ~UnderWay(d)
    BY <1>1, <2>1, OthersRest DEF UnderWay
  <2>5. vain' <= deaths' /\ (Debris' => vain' + 1 <= deaths')
    BY <1>1, <2>1, <2>2 DEF Alone
  <2> QED BY <1>1, <1>2, <1>3, <1>4, <2>3, <2>4, <2>5, AloneTurns, DiskStays
<1> QED BY <1>7, <1>8, <1>9, <1>10 DEF CacheInv

\* A call that is over has left everything as it is.
LEMMA OverKeeps ==
  ASSUME CacheInv, NEW c \in Calls, Turns(c, OverCall), UnderWay(c),
         UNCHANGED <<tables, tableMap, beside, barren, rewritten>>,
         deaths' \in 0 .. MaxDeaths, vain' \in Nat,
         Alone /\ Found => vain' <= deaths' /\ (Debris' => vain' + 1 <= deaths')
  PROVE  CacheInv'
<1> DEFINE r == OverCall
<1>1. CacheKnown /\ Locked
  BY CallsKnown
<1>2. r.at = "over" /\ r.map = EmptyMap /\ r.own = NoDatabase
  BY DEF OverCall, Analysis
<1>3. CacheKnown'
  <2>1. beside' \in BOOLEAN /\ barren' \in BOOLEAN /\ rewritten' \in BOOLEAN
    BY <1>1 DEF CacheKnown
  <2> QED BY <1>1, <2>1, OverKnown, DiskStays, KnownKeeps
<1> HIDE DEF r
<1>4. Locked'
  <2>1. \A d \in Calls \ {c} : analyses'[d] = analyses[d]
    BY DEF Turns
  <2>2. analyses'[c].at = "over"
    BY <1>2 DEF Turns, r
  <2> QED BY <1>1, <2>1, <2>2 DEF Locked, Linked, Loads
<1>5. Calm' => Found'
  <2> SUFFICES ASSUME Calm' PROVE Found'
    OBVIOUS
  <2>1. Found
    BY CallsKnown DEF Calm
  <2>2. InIt(tables', r.map)
    BY <1>2, EmptyMapIs DEF InIt
  <2>3. Usable' => tables' # NoDatabase /\ InIt(tables', tableMap')
    BY <1>1, <2>1, DiskStays DEF Found
  <2>4. Turns(c, r)
    BY DEF r
  <2> QED BY <1>2, <2>1, <2>2, <2>3, <2>4, FoundTurns
<1>6. ~beside' /\ ~rewritten' => Alone'
  <2> SUFFICES ASSUME ~beside', ~rewritten' PROVE Alone'
    OBVIOUS
  <2>1. Alone /\ Found
    BY CallsKnown
  <2>2. \A d \in Calls \ {c} : ~UnderWay(d)
    BY <2>1, OthersRest
  <2>3. Turns(c, r)
    BY DEF r
  <2> QED BY <1>1, <1>2, <2>1, <2>2, <2>3, AloneTurns
<1> QED BY <1>3, <1>4, <1>5, <1>6 DEF CacheInv

\* A call ends that has done its work, or fails that has found nothing; neither has anything
\* to do with debris.
LEMMA EndKeeps ==
  ASSUME CacheInv, NEW c \in Calls, analyses[c].at \in {"hit", "miss", "reading", "working"},
         UNCHANGED <<tables, tableMap, deaths, beside, barren, rewritten>>,
         \/ Ends(c) /\ vain' = vain
         \/ Fails(c) /\ ~(Alone /\ Found)
  PROVE  CacheInv'
<1>1. CacheKnown /\ UnderWay(c)
  BY CallsKnown DEF UnderWay
<1>2. Turns(c, OverCall)
  BY <1>1, EndsTurns
<1>3. vain' \in Nat /\ deaths' \in 0 .. MaxDeaths
  BY <1>1 DEF CacheKnown, Fails
<1>4. Alone /\ Found => vain' <= deaths' /\ (Debris' => vain' + 1 <= deaths')
  <2> SUFFICES ASSUME Alone, Found PROVE vain' <= deaths' /\ (Debris' => vain' + 1 <= deaths')
    OBVIOUS
  <2>1. vain' = vain
    OBVIOUS
  <2>2. Debris' => Debris
    BY <1>2, DebrisTurns
  <2> QED BY <2>1, <2>2 DEF Alone
<1> QED BY <1>1, <1>2, <1>3, <1>4, OverKeeps

\* A call dies wherever it is.
LEMMA DieKeeps ==
  ASSUME CacheInv, NEW c \in Calls, Die(c)
  PROVE  CacheInv'
<1>1. CacheKnown /\ UnderWay(c) /\ Ends(c) /\ UNCHANGED <<tables, tableMap, beside, barren, rewritten, vain>>
      /\ deaths < MaxDeaths /\ deaths' = deaths + 1
  BY CallsKnown DEF Die, Ends
<1>2. Turns(c, OverCall)
  BY <1>1, EndsTurns
<1>3. vain' \in Nat /\ deaths \in Nat /\ MaxDeaths \in Nat
  <2>1. MaxDeaths \in Nat
    BY CacheAssumption
  <2>2. deaths \in 0 .. MaxDeaths /\ vain \in Nat
    BY <1>1 DEF CacheKnown
  <2> QED BY <1>1, <2>1, <2>2
<1>4. deaths' \in 0 .. MaxDeaths
  BY <1>1, <1>3
<1>5. Alone => vain' + 1 <= deaths' /\ vain' <= deaths'
  BY <1>1, <1>3 DEF Alone
<1> QED BY <1>1, <1>2, <1>3, <1>4, <1>5, OverKeeps

\* What Found says of one call.
LEMMA FoundCall ==
  ASSUME Found, NEW c \in Calls
  PROVE  /\ Linked(c) /\ analyses[c].own = NoDatabase /\ InIt(tables, analyses[c].map) /\ HasTables(c)
         /\ analyses[c].map # EmptyMap => tables # NoDatabase
BY DEF Found, HasTables, Seen, Linked, InIt

\* A call has its tables and turns to its action.
LEMMA WorkKeeps ==
  ASSUME CacheInv, NEW c \in Calls, Inspect(c) \/ Summarise(c)
  PROVE  CacheInv'
<1>1. Works(c) /\ UNCHANGED <<tables, tableMap, deaths, beside, barren, rewritten>>
  BY DEF Inspect, Summarise
<1>2. analyses[c].at \in {"hit", "miss", "reading", "working"}
  BY <1>1 DEF Works
<1>3. \/ Ends(c) /\ vain' = vain
      \/ Fails(c) /\ ~HasTables(c)
  BY DEF Inspect, Summarise
<1> QED BY <1>1, <1>2, <1>3, EndKeeps, FoundCall

\* A call opens the database to read.
LEMMA ConnectToReadKeeps ==
  ASSUME CacheInv, NEW c \in Calls, ConnectToRead(c)
  PROVE  CacheInv'
<1> DEFINE a == analyses[c]
           r == Analysis("reading", a.map, a.left, a.own, a.unread)
           free == tables # NoDatabase /\ \A d \in Calls \ {c} : Linked(d) => ~Loads(d)
<1>1. /\ CacheKnown /\ Locked /\ CallKnown(a) /\ a.at = "hit" /\ a.map # EmptyMap
      /\ UNCHANGED <<tables, tableMap, deaths, beside, barren, rewritten>>
  BY CallsKnown DEF ConnectToRead, CallKnown
<1>2. Alone /\ Found => free
  BY <1>1, OthersRest, FoundCall DEF UnderWay, Loads
<1>3. CASE ~free
  <2>1. Fails(c)
    BY <1>3 DEF ConnectToRead, Busy
  <2> QED BY <1>1, <1>2, <1>3, <2>1, EndKeeps
<1>4. CASE free
  <2>1. Moves(c, "reading") /\ vain' = vain
    BY <1>4 DEF ConnectToRead, Busy
  <2>2. Turns(c, r)
    BY <1>1, <2>1, MovesTurns
  <2>3. r.at = "reading" /\ r.map = a.map /\ r.left = a.left /\ r.own = a.own
    BY DEF Analysis
  <2>4. r.unread = a.unread
    BY DEF Analysis
  <2>5. CallKnown(r)
    <3>1. r = Analysis(r.at, r.map, r.left, r.own, r.unread)
      BY <2>3, <2>4
    <3> HIDE DEF r
    <3> QED BY <1>1, <2>3, <2>4, <3>1 DEF CallKnown, AnalysisPoints
  <2> HIDE DEF r
  <2>6. CacheKnown'
    <3>1. beside' \in BOOLEAN /\ deaths' \in 0 .. MaxDeaths /\ barren' \in BOOLEAN /\ rewritten' \in BOOLEAN
          /\ vain' \in Nat
      BY <1>1, <2>1 DEF CacheKnown
    <3> QED BY <1>1, <2>2, <2>5, <3>1, DiskStays, KnownKeeps
  <2>7. Locked'
    BY <1>1, <1>4, <2>2, <2>3, LockedTurns DEF Linked
  <2>8. Calm' => Found'
    <3> SUFFICES ASSUME Calm' PROVE Found'
      OBVIOUS
    <3>1. Found
      BY <1>1, CallsKnown DEF Calm
    <3>2. a.own = NoDatabase /\ InIt(tables, a.map)
      BY <3>1, FoundCall
    <3>3. Usable' => tables' # NoDatabase /\ InIt(tables', tableMap')
      BY <1>1, <3>1, DiskStays DEF Found
    <3> QED BY <1>1, <1>4, <2>2, <2>3, <3>1, <3>2, <3>3, FoundTurns
  <2>9. ~beside' /\ ~rewritten' => Alone'
    <3> SUFFICES ASSUME ~beside', ~rewritten' PROVE Alone'
      OBVIOUS
    <3>1. Alone
      BY <1>1, CallsKnown
    <3>2. Debris' => Debris
      BY <1>1, <2>2, DebrisTurns
    <3>3. \A d \in Calls \ {c} : ~UnderWay(d)
      BY <1>1, <3>1, OthersRest DEF UnderWay
    <3>4. vain' <= deaths' /\ (Debris' => vain' + 1 <= deaths')
      BY <1>1, <2>1, <3>1, <3>2 DEF Alone
    <3> QED BY <1>1, <2>2, <2>3, <3>3, <3>4, AloneTurns
  <2> QED BY <2>6, <2>7, <2>8, <2>9 DEF CacheInv
<1> QED BY <1>3, <1>4

\* A call opens the database, or makes one, to load.
LEMMA ConnectToLoadKeeps ==
  ASSUME CacheInv, NEW c \in Calls, ConnectToLoad(c)
  PROVE  CacheInv'
<1> DEFINE a == analyses[c]
           r == Analysis("loading", EmptyMap, FilesOf[c], a.own, a.unread)
           free == \A d \in Calls \ {c} : Linked(d) => ~Loads(d) /\ analyses[d].at # "reading"
           db == IF tables = NoDatabase THEN EmptyMap ELSE tables
<1>1. /\ CacheKnown /\ Locked /\ CallKnown(a) /\ a.at = "miss"
      /\ UNCHANGED <<tableMap, deaths, beside, barren, rewritten>>
  BY CallsKnown DEF ConnectToLoad
<1>2. Alone => free
  BY <1>1, OthersRest DEF UnderWay, Loads
<1>3. CASE ~free
  <2>1. Fails(c) /\ tables' = tables
    BY <1>3 DEF ConnectToLoad, Busy
  <2> QED BY <1>1, <1>2, <1>3, <2>1, EndKeeps
<1>4. CASE free
  <2>1. analyses' = [analyses EXCEPT ![c].at = "loading", ![c].map = EmptyMap, ![c].left = FilesOf[c]]
        /\ tables' = db /\ vain' = vain
    BY <1>4 DEF ConnectToLoad, Busy
  <2>2. db # NoDatabase /\ Textual(db) /\ (tables # NoDatabase => db = tables)
    BY <1>1, EmptyMapIs DEF CacheKnown
  <2> HIDE DEF db
  <2>3. Turns(c, r)
    <3> DEFINE x == [a EXCEPT !.at = "loading", !.map = EmptyMap, !.left = FilesOf[c]]
               y == [a EXCEPT !.at = "loading", !.map = EmptyMap]
    <3>1. analyses' = [analyses EXCEPT ![c] = x]
      BY <2>1
    <3>2. y = Analysis("loading", EmptyMap, a.left, a.own, a.unread)
      BY <1>1, ChangedIs DEF CallKnown
    <3>3. x = [y EXCEPT !.left = FilesOf[c]]
      OBVIOUS
    <3> HIDE DEF x, y
    <3>4. y.at = "loading" /\ y.map = EmptyMap /\ y.left = a.left /\ y.own = a.own /\ y.unread = a.unread
      BY <3>2, AnalysisIs
    <3>5. y = Analysis(y.at, y.map, y.left, y.own, y.unread)
      BY <3>2, <3>4
    <3>6. [y EXCEPT !.left = FilesOf[c]] = Analysis(y.at, y.map, FilesOf[c], y.own, y.unread)
      BY <3>5 DEF Analysis
    <3>7. x = r
      BY <3>3, <3>4, <3>6
    <3> QED BY <1>1, <3>1, <3>7, Turning
  <2>4. r.at = "loading" /\ r.map = EmptyMap /\ r.left = FilesOf[c] /\ r.own = a.own
    BY DEF Analysis
  <2>5. r.unread = a.unread
    BY DEF Analysis
  <2>6. CallKnown(r)
    <3>1. r = Analysis(r.at, r.map, r.left, r.own, r.unread)
      BY <2>4, <2>5
    <3>2. FilesOf[c] \in Seq(DataFiles)
      BY CacheAssumption
    <3> HIDE DEF r
    <3> QED BY <1>1, <2>4, <2>5, <3>1, <3>2, EmptyMapIs DEF CallKnown, AnalysisPoints
  <2> HIDE DEF r
  <2>7. CacheKnown'
    <3>1. beside' \in BOOLEAN /\ deaths' \in 0 .. MaxDeaths /\ barren' \in BOOLEAN /\ rewritten' \in BOOLEAN
          /\ vain' \in Nat
      BY <1>1, <2>1 DEF CacheKnown
    <3>2. Usable' => Named(tableMap') /\ tableMap' # EmptyMap
      BY <1>1 DEF CacheKnown, Usable
    <3> QED BY <1>1, <2>1, <2>2, <2>3, <2>6, <3>1, <3>2, KnownKeeps
  <2>8. Locked'
    BY <1>1, <1>4, <2>1, <2>2, <2>3, <2>4, LockedTurns DEF Linked
  <2>9. Usable' = Usable
    BY <1>1 DEF Usable
  <2>10. Calm' => Found'
    <3> SUFFICES ASSUME Calm' PROVE Found'
      OBVIOUS
    <3>1. Found
      BY <1>1, CallsKnown DEF Calm
    <3>2. a.own = NoDatabase
      BY <3>1, FoundCall
    <3>3. InIt(tables', r.map)
      BY <2>4, EmptyMapIs DEF InIt
    <3>4. Usable' => tables' # NoDatabase /\ InIt(tables', tableMap')
      BY <1>1, <2>1, <2>2, <2>9, <3>1 DEF Found
    <3> QED BY <1>1, <2>1, <2>2, <2>3, <2>4, <3>1, <3>2, <3>3, <3>4, FoundTurns
  <2>11. ~beside' /\ ~rewritten' => Alone'
    <3> SUFFICES ASSUME ~beside', ~rewritten' PROVE Alone'
      OBVIOUS
    <3>1. Alone
      BY <1>1, CallsKnown
    <3>2. Debris' => Debris
      <4> SUFFICES ASSUME Debris' PROVE Debris
        OBVIOUS
      <4>1. db # EmptyMap /\ ~Usable
        BY <2>1, <2>9, EmptyMapIs DEF Debris
      <4>2. tables # NoDatabase /\ tables' = tables
        BY <2>1, <2>2, <4>1 DEF db
      <4> QED BY <1>1, <2>3, <4>2, DebrisTurns
    <3>3. \A d \in Calls \ {c} : ~UnderWay(d)
      BY <1>1, <3>1, OthersRest DEF UnderWay
    <3>4. vain' <= deaths' /\ (Debris' => vain' + 1 <= deaths')
      BY <1>1, <2>1, <3>1, <3>2 DEF Alone
    <3>5. ~Usable'
      BY <1>1, <2>9, <3>1 DEF Alone
    <3> QED BY <1>1, <2>3, <2>4, <3>3, <3>4, <3>5, AloneTurns
  <2> QED BY <2>7, <2>8, <2>10, <2>11 DEF CacheInv
<1> QED BY <1>3, <1>4

\* A call has loaded its files.
LEMMA LoadedKeeps ==
  ASSUME CacheInv, NEW c \in Calls, Loaded(c)
  PROVE  CacheInv'
<1> DEFINE a == analyses[c]
           s == IF a.map = EmptyMap THEN "emptied" ELSE "saving"
           r == Analysis(s, a.map, a.left, a.own, a.unread)
<1>1. /\ CacheKnown /\ Locked /\ CallKnown(a) /\ a.at = "loading" /\ a.left = <<>>
      /\ UNCHANGED <<tables, deaths, beside, rewritten, vain>>
      /\ Moves(c, s) /\ (s = "emptied" <=> a.map = EmptyMap) /\ s \in {"emptied", "saving"}
      /\ s = "emptied" => barren' = TRUE /\ tableMap' = tableMap
      /\ s = "saving" => barren' = barren /\ tableMap' = TornMap
  BY CallsKnown DEF Loaded
<1> HIDE DEF s
<1>2. Turns(c, r)
  BY <1>1, MovesTurns
<1>3. r.at = s /\ r.map = a.map /\ r.left = a.left /\ r.own = a.own
  BY DEF Analysis
<1>4. r.unread = a.unread
  BY DEF Analysis
<1>5. CallKnown(r)
  <2>1. r = Analysis(r.at, r.map, r.left, r.own, r.unread)
    BY <1>3, <1>4
  <2> HIDE DEF r
  <2> QED BY <1>1, <1>3, <1>4, <2>1 DEF CallKnown, AnalysisPoints
<1> HIDE DEF r
<1>6. Usable' => Usable /\ tableMap' = tableMap
  BY <1>1 DEF Usable
<1>7. CacheKnown'
  <2>1. beside' \in BOOLEAN /\ deaths' \in 0 .. MaxDeaths /\ rewritten' \in BOOLEAN /\ vain' \in Nat
    BY <1>1 DEF CacheKnown
  <2>2. barren' \in BOOLEAN
    BY <1>1 DEF CacheKnown
  <2>3. Textual(tables') /\ (Usable' => Named(tableMap') /\ tableMap' # EmptyMap)
    BY <1>1, <1>6 DEF CacheKnown
  <2> QED BY <1>1, <1>2, <1>5, <2>1, <2>2, <2>3, KnownKeeps
<1>8. tables # NoDatabase \/ ~Linked(c)
  BY <1>1 DEF Locked, Loads
<1>9. Locked'
  BY <1>1, <1>2, <1>3, <1>8, LockedTurns DEF Linked, Loads
<1>10. Calm' => Found'
  <2> SUFFICES ASSUME Calm' PROVE Found'
    OBVIOUS
  <2>1. Found
    BY <1>1, CallsKnown DEF Calm
  <2>2. a.own = NoDatabase /\ InIt(tables, a.map) /\ tables # NoDatabase
    BY <1>8, <2>1, FoundCall
  <2>3. Usable' => tables' # NoDatabase /\ InIt(tables', tableMap')
    BY <1>1, <1>6, <2>1 DEF Found
  <2>4. barren => barren'
    BY <1>1
  <2>5. r.at = "emptied" => barren'
    BY <1>1, <1>3
  <2> QED BY <1>1, <1>2, <1>3, <2>1, <2>2, <2>3, <2>4, <2>5, FoundTurns
<1>11. ~beside' /\ ~rewritten' => Alone'
  <2> SUFFICES ASSUME ~beside', ~rewritten' PROVE Alone'
    OBVIOUS
  <2>1. Alone
    BY <1>1, CallsKnown
  <2>2. \A d \in Calls \ {c} : ~UnderWay(d)
    BY <1>1, <2>1, OthersRest DEF UnderWay
  <2>3. ~Usable'
    BY <1>1, <1>6, <2>1 DEF Alone
  <2>4. Debris' => Debris
    <3> SUFFICES ASSUME Debris' PROVE Debris
      OBVIOUS
    <3>1. analyses'[c] = r
      BY <1>2 DEF Turns
    <3>2. s = "emptied"
      BY <1>1, <1>3, <3>1 DEF Debris
    <3> QED BY <1>1, <1>2, <3>2, DebrisTurns
  <2>5. vain' <= deaths' /\ (Debris' => vain' + 1 <= deaths')
    BY <1>1, <2>1, <2>4 DEF Alone
  <2>6. a.map = EmptyMap /\ ~a.unread => DOMAIN tables # {}
    <3>1. a.left # FilesOf[c]
      BY <1>1, CacheAssumption
    <3> QED BY <1>1, <2>1, <3>1 DEF Alone
  <2> QED BY <1>1, <1>2, <1>3, <1>4, <2>2, <2>3, <2>5, <2>6, AloneTurns
<1> QED BY <1>7, <1>9, <1>10, <1>11 DEF CacheInv

\* A call writes the map.
LEMMA SaveMapKeeps ==
  ASSUME CacheInv, NEW c \in Calls, SaveMap(c)
  PROVE  CacheInv'
<1> DEFINE a == analyses[c]
           r == Analysis("working", a.map, a.left, a.own, a.unread)
<1>1. /\ CacheKnown /\ Locked /\ CallKnown(a) /\ a.at = "saving" /\ a.map # EmptyMap /\ Named(a.map)
      /\ UNCHANGED <<tables, deaths, beside, barren, rewritten, vain>>
      /\ Moves(c, "working") /\ tableMap' = a.map
  BY CallsKnown DEF SaveMap, CallKnown
<1>2. Turns(c, r)
  BY <1>1, MovesTurns
<1>3. r.at = "working" /\ r.map = a.map /\ r.left = a.left /\ r.own = a.own
  BY DEF Analysis
<1>4. r.unread = a.unread
  BY DEF Analysis
<1>5. CallKnown(r)
  <2>1. r = Analysis(r.at, r.map, r.left, r.own, r.unread)
    BY <1>3, <1>4
  <2> HIDE DEF r
  <2> QED BY <1>1, <1>3, <1>4, <2>1 DEF CallKnown, AnalysisPoints
<1> HIDE DEF r
<1>6. CacheKnown'
  <2>1. beside' \in BOOLEAN /\ deaths' \in 0 .. MaxDeaths /\ rewritten' \in BOOLEAN /\ vain' \in Nat
        /\ barren' \in BOOLEAN
    BY <1>1 DEF CacheKnown
  <2>2. Textual(tables') /\ Named(tableMap') /\ tableMap' # EmptyMap
    BY <1>1 DEF CacheKnown
  <2> QED BY <1>1, <1>2, <1>5, <2>1, <2>2, KnownKeeps
<1>7. tables # NoDatabase \/ ~Linked(c)
  BY <1>1 DEF Locked, Loads
<1>8. Locked'
  BY <1>1, <1>2, <1>3, <1>7, LockedTurns DEF Linked, Loads
<1>9. Calm' => Found'
  <2> SUFFICES ASSUME Calm' PROVE Found'
    OBVIOUS
  <2>1. Found
    BY <1>1, CallsKnown DEF Calm
  <2>2. a.own = NoDatabase /\ InIt(tables, a.map) /\ tables # NoDatabase
    BY <1>7, <2>1, FoundCall
  <2> QED BY <1>1, <1>2, <1>3, <2>1, <2>2, FoundTurns
<1>10. ~beside' /\ ~rewritten' => Alone'
  <2> SUFFICES ASSUME ~beside', ~rewritten' PROVE Alone'
    OBVIOUS
  <2>1. Alone
    BY <1>1, CallsKnown
  <2>2. \A d \in Calls \ {c} : ~UnderWay(d)
    BY <1>1, <2>1, OthersRest DEF UnderWay
  <2>3. Usable'
    <3>1. "written" \notin DOMAIN a.map
      BY <1>1, CacheAssumption DEF Named
    <3>2. DOMAIN NoMap = {"written"} /\ DOMAIN TornMap = {"written"}
      BY DEF NoMap, TornMap
    <3>3. a.map # NoMap /\ a.map # TornMap
      BY <3>1, <3>2
    <3> QED BY <1>1, <3>3 DEF Usable
  <2>4. ~Debris'
    BY <2>3 DEF Debris
  <2>5. vain' <= deaths'
    BY <1>1, <2>1 DEF Alone
  <2> QED BY <1>1, <1>2, <1>3, <2>2, <2>4, <2>5, AloneTurns
<1> QED BY <1>6, <1>8, <1>9, <1>10 DEF CacheInv

\* A call takes its next file: map and database grow, or not, and the rest is left.
LEMMA FileTaken ==
  ASSUME CacheInv, NEW c \in Calls, NEW m, NEW o, NEW u \in BOOLEAN,
         analyses[c].at = "loading", analyses[c].left # <<>>,
         Turns(c, Analysis("loading", m, Tail(analyses[c].left), o, u)),
         UNCHANGED <<tableMap, deaths, beside, barren, rewritten, vain>>,
         Named(m), Textual(o), o = NoDatabase => Linked(c),
         Linked(c) => \/ tables' = tables /\ m = analyses[c].map
                      \/ m # EmptyMap /\ (InIt(tables, analyses[c].map) => InIt(tables', m)),
         Textual(tables'), tables # NoDatabase => tables' # NoDatabase, DOMAIN tables \subseteq DOMAIN tables',
         Linked(c) => o = NoDatabase,
         Linked(c) /\ m = EmptyMap /\ ~u => DOMAIN tables # {} /\ tables' = tables
  PROVE  CacheInv'
<1> DEFINE a == analyses[c]
           r == Analysis("loading", m, Tail(a.left), o, u)
<1>1. /\ CacheKnown /\ Locked /\ CallKnown(a) /\ a.left \in Seq(DataFiles)
  BY CallsKnown
<1>2. r.at = "loading" /\ r.map = m /\ r.left = Tail(a.left) /\ r.own = o
  BY DEF Analysis
<1>3. r.unread = u
  BY DEF Analysis
<1>4. CallKnown(r)
  <2>1. r = Analysis(r.at, r.map, r.left, r.own, r.unread)
    BY <1>2, <1>3
  <2>2. Tail(a.left) \in Seq(DataFiles)
    BY <1>1, HeadTailProperties
  <2> HIDE DEF r
  <2> QED BY <1>1, <1>2, <1>3, <2>1, <2>2 DEF CallKnown, AnalysisPoints
<1>5. Turns(c, r)
  OBVIOUS
<1> HIDE DEF r
<1>6. Usable' = Usable
  BY DEF Usable
<1>7. CacheKnown'
  <2>1. beside' \in BOOLEAN /\ deaths' \in 0 .. MaxDeaths /\ rewritten' \in BOOLEAN /\ vain' \in Nat
        /\ barren' \in BOOLEAN
    BY <1>1 DEF CacheKnown
  <2>2. Usable' => Named(tableMap') /\ tableMap' # EmptyMap
    BY <1>1, <1>6 DEF CacheKnown
  <2> QED BY <1>1, <1>4, <1>5, <2>1, <2>2, KnownKeeps
<1>8. Linked(c) => tables # NoDatabase
  BY <1>1 DEF Locked, Loads
<1>9. Locked'
  BY <1>1, <1>2, <1>5, <1>8, LockedTurns DEF Loads
<1>10. Calm' => Found'
  <2> SUFFICES ASSUME Calm' PROVE Found'
    OBVIOUS
  <2>1. Found
    BY CallsKnown DEF Calm
  <2>2. Linked(c) /\ InIt(tables, a.map) /\ o = NoDatabase /\ tables' # NoDatabase
    BY <1>8, <2>1, FoundCall
  <2>3. InIt(tables', m)
    BY <2>2 DEF InIt
  <2>4. Usable' => tables' # NoDatabase /\ InIt(tables', tableMap')
    <3> SUFFICES ASSUME Usable' PROVE InIt(tables', tableMap')
      BY <2>2
    <3>1. InIt(tables, tableMap) /\ tableMap' = tableMap
      BY <1>6, <2>1 DEF Found
    <3> QED BY <3>1 DEF InIt
  <2> QED BY <1>2, <1>5, <2>1, <2>2, <2>3, <2>4, FoundTurns
<1>11. ~beside' /\ ~rewritten' => Alone'
  <2> SUFFICES ASSUME ~beside', ~rewritten' PROVE Alone'
    OBVIOUS
  <2>1. Alone /\ Found
    BY CallsKnown
  <2>2. \A d \in Calls \ {c} : ~UnderWay(d)
    BY <2>1, OthersRest DEF UnderWay
  <2>3. ~Usable' /\ Linked(c)
    BY <1>6, <2>1, FoundCall DEF Alone
  <2>4. Debris' => Debris
    <3> SUFFICES ASSUME Debris' PROVE Debris
      OBVIOUS
    <3>1. analyses'[c] = r
      BY <1>5 DEF Turns
    <3>2. m = EmptyMap
      BY <1>2, <3>1 DEF Debris
    <3>3. tables' = tables /\ a.map = EmptyMap
      BY <2>3, <3>2
    <3> QED BY <1>5, <3>3, DebrisTurns
  <2>5. vain' <= deaths' /\ (Debris' => vain' + 1 <= deaths')
    BY <2>1, <2>4 DEF Alone
  <2>6. m = EmptyMap /\ ~u => DOMAIN tables' # {}
    BY <2>3
  <2> QED BY <1>1, <1>2, <1>3, <1>5, <2>2, <2>3, <2>5, <2>6, AloneTurns
<1> QED BY <1>7, <1>9, <1>10, <1>11 DEF CacheInv

\* A call loads a file into a table, or finds a table in its way.
LEMMA LoadFileKeeps ==
  ASSUME CacheInv, NEW c \in Calls, LoadFile(c)
  PROVE  CacheInv'
<1> DEFINE a == analyses[c]
           file == Head(a.left)
           table == TableFor(a.map, file.name)
           loaded == With(Seen(c), table, file.holds)
           map == With(a.map, file.name, table)
           rest == [a EXCEPT !.left = Tail(@)]
           done == [rest EXCEPT !.map = With(@, file.name, table)]
<1>1. /\ CacheKnown /\ Locked /\ CallKnown(a) /\ a.left \in Seq(DataFiles) /\ Named(a.map) /\ Textual(a.own)
      /\ a.unread \in BOOLEAN /\ a.at = "loading" /\ a.left # <<>>
      /\ UNCHANGED <<tableMap, deaths, beside, barren, rewritten, vain>>
  BY CallsKnown DEF LoadFile
<1>2. Seen(c) # NoDatabase /\ Textual(Seen(c)) /\ (Linked(c) => Seen(c) = tables) /\ (~Linked(c) => Seen(c) = a.own)
  BY <1>1 DEF Seen, Linked, Locked, Loads, CacheKnown
<1>3. file \in DataFiles
  BY <1>1, HeadTailProperties
<1> HIDE DEF file
<1>4. /\ Textual(loaded) /\ loaded # NoDatabase /\ Named(map) /\ map # EmptyMap
      /\ DOMAIN loaded = DOMAIN Seen(c) \cup {table}
      /\ DOMAIN map = DOMAIN a.map \cup {file.name} /\ map[file.name] = table
      /\ \A n \in DOMAIN a.map \ {file.name} : map[n] = a.map[n]
  <2>1. Textual(loaded) /\ loaded # NoDatabase /\ Named(map)
    BY <1>1, <1>2, <1>3, LoadedIs
  <2>2. DOMAIN loaded = DOMAIN Seen(c) \cup {table}
    BY DEF With
  <2>3. DOMAIN map = DOMAIN a.map \cup {file.name} /\ map[file.name] = table
        /\ \A n \in DOMAIN a.map \ {file.name} : map[n] = a.map[n]
    BY DEF With
  <2>4. map # EmptyMap
    BY <2>3, EmptyMapIs
  <2> QED BY <2>1, <2>2, <2>3, <2>4
<1>5. rest = Analysis("loading", a.map, Tail(a.left), a.own, a.unread)
  <2>1. a = Analysis("loading", a.map, a.left, a.own, a.unread)
    BY <1>1 DEF CallKnown
  <2>2. rest = [a EXCEPT !.left = Tail(a.left)]
    OBVIOUS
  <2> DEFINE m == a.map
             l == a.left
             o == a.own
             u == a.unread
             v == Tail(a.left)
  <2>3. a = Analysis("loading", m, l, o, u) /\ rest = [a EXCEPT !.left = v]
    BY <2>1, <2>2
  <2> HIDE DEF a, rest, m, l, o, u, v
  <2>4. rest = Analysis("loading", m, v, o, u)
    BY <2>3 DEF Analysis
  <2> QED BY <2>4 DEF m, v, o, u
<1>6. rest.at = "loading" /\ rest.map = a.map /\ rest.left = Tail(a.left) /\ rest.own = a.own /\ rest.unread = a.unread
  BY <1>5 DEF Analysis
<1>7. done = [rest EXCEPT !.map = map]
  BY <1>6
<1> HIDE DEF rest, done, map, loaded
<1>9. done = Analysis("loading", map, Tail(a.left), a.own, a.unread)
  BY <1>5, <1>7 DEF Analysis
<1>10. done.at = "loading" /\ done.map = map /\ done.left = Tail(a.left) /\ done.own = a.own /\ done.unread = a.unread
  BY <1>9 DEF Analysis
<1>12. \/ table \notin DOMAIN Seen(c) /\ Linked(c) /\ tables' = loaded /\ analyses' = [analyses EXCEPT ![c] = done]
       \/ /\ table \notin DOMAIN Seen(c) /\ ~Linked(c) /\ tables' = tables
          /\ analyses' = [analyses EXCEPT ![c] = [done EXCEPT !.own = loaded]]
       \/ table \in DOMAIN Seen(c) /\ tables' = tables /\ analyses' = [analyses EXCEPT ![c] = rest]
       \/ tables' = tables /\ analyses' = [analyses EXCEPT ![c] = [rest EXCEPT !.unread = TRUE]]
  BY DEF LoadFile, file, loaded, map, rest, done
<1> HIDE DEF table
<1>13. CASE table \notin DOMAIN Seen(c) /\ Linked(c) /\ tables' = loaded /\ analyses' = [analyses EXCEPT ![c] = done]
  <2>1. Turns(c, Analysis("loading", map, Tail(a.left), a.own, a.unread))
    BY <1>1, <1>9, <1>13, Turning
  <2>2. a.own = NoDatabase
    BY <1>13 DEF Linked
  <2>3. DOMAIN tables \subseteq DOMAIN tables' /\ table \in DOMAIN tables'
    BY <1>2, <1>4, <1>13
  <2>4. InIt(tables, a.map) => InIt(tables', map)
    BY <1>4, <2>3 DEF InIt
  <2> QED BY <1>1, <1>4, <1>13, <2>1, <2>2, <2>3, <2>4, FileTaken
<1>14. CASE /\ table \notin DOMAIN Seen(c) /\ ~Linked(c) /\ tables' = tables
            /\ analyses' = [analyses EXCEPT ![c] = [done EXCEPT !.own = loaded]]
  <2>1. [done EXCEPT !.own = loaded] = Analysis("loading", map, Tail(a.left), loaded, a.unread)
    <3> DEFINE l == Tail(a.left)
               o == a.own
               u == a.unread
    <3>1. done = Analysis("loading", map, l, o, u)
      BY <1>9
    <3> HIDE DEF a, l, o, u
    <3>2. [done EXCEPT !.own = loaded] = Analysis("loading", map, l, loaded, u)
      BY <3>1 DEF Analysis
    <3> QED BY <3>2 DEF l, u
  <2>2. Turns(c, Analysis("loading", map, Tail(a.left), loaded, a.unread))
    BY <1>1, <1>14, <2>1, Turning
  <2> QED BY <1>1, <1>4, <1>14, <2>2, FileTaken DEF CacheKnown
<1>15. CASE table \in DOMAIN Seen(c) /\ tables' = tables /\ analyses' = [analyses EXCEPT ![c] = rest]
  <2>1. Turns(c, Analysis("loading", a.map, Tail(a.left), a.own, a.unread))
    BY <1>1, <1>5, <1>15, Turning
  <2>2. Linked(c) => DOMAIN tables # {}
    BY <1>2, <1>15
  <2> QED BY <1>1, <1>15, <2>1, <2>2, FileTaken DEF CacheKnown, Linked
<1>16. CASE tables' = tables /\ analyses' = [analyses EXCEPT ![c] = [rest EXCEPT !.unread = TRUE]]
  <2>1. [rest EXCEPT !.unread = TRUE] = Analysis("loading", a.map, Tail(a.left), a.own, TRUE)
    <3> DEFINE m == a.map
               l == Tail(a.left)
               o == a.own
               u == a.unread
               v == TRUE
    <3>1. rest = Analysis("loading", m, l, o, u)
      BY <1>5
    <3> HIDE DEF a, m, l, o, u, v
    <3>2. [rest EXCEPT !.unread = v] = Analysis("loading", m, l, o, v)
      BY <3>1 DEF Analysis
    <3> QED BY <3>2 DEF m, l, o, v
  <2>2. Turns(c, Analysis("loading", a.map, Tail(a.left), a.own, TRUE))
    BY <1>1, <1>16, <2>1, Turning
  <2> QED BY <1>1, <1>16, <2>2, FileTaken DEF CacheKnown, Linked
<1> QED BY <1>12, <1>13, <1>14, <1>15, <1>16

\* The marker for no database is no database.
LEMMA DatabasesAreOne ==
  ASSUME NEW db, DOMAIN db \subseteq TableNames
  PROVE  db # NoDatabase
<1>1. <<"no database", 0>> \notin TableNames
  BY CacheAssumption DEF TableNames
<1>2. DOMAIN NoDatabase = {<<"no database", 0>>}
  BY DEF NoDatabase
<1> QED BY <1>1, <1>2

\* A call reads its tables.
LEMMA QueryKeeps ==
  ASSUME CacheInv, NEW c \in Calls, Query(c)
  PROVE  CacheInv'
<1>1. Works(c) /\ UNCHANGED <<tableMap, deaths, beside, barren>> /\ CacheKnown /\ Locked
  BY CallsKnown DEF Query
<1>2. CASE \/ Ends(c) /\ UNCHANGED <<tables, rewritten, vain>>
           \/ ~HasTables(c) /\ Fails(c) /\ UNCHANGED <<tables, rewritten>>
  <2>1. analyses[c].at \in {"hit", "miss", "reading", "working"}
    BY <1>1 DEF Works
  <2>2. \/ Ends(c) /\ vain' = vain
        \/ Fails(c) /\ ~(Alone /\ Found)
    BY <1>2, FoundCall
  <2> QED BY <1>1, <1>2, <2>1, <2>2, EndKeeps
<1>3. ASSUME analyses[c].at = "working", Linked(c), Ends(c), NEW dropped \in DOMAIN tables,
             tables' = [t \in DOMAIN tables \ {dropped} |-> tables[t]],
             rewritten' = TRUE, vain' = vain
      PROVE  CacheInv'
  <2>1. Turns(c, OverCall) /\ OverCall.at = "over" /\ OverCall.own = NoDatabase
    BY <1>1, <1>3, EndsTurns DEF OverCall, Analysis
  <2>2. tables # NoDatabase
    BY <1>1, <1>3 DEF Locked, Loads
  <2>3. Textual(tables') /\ tables' # NoDatabase
    <3>1. DOMAIN tables' \subseteq TableNames /\ \A t \in DOMAIN tables' : tables'[t] = tables[t] /\ t \in DOMAIN tables
      BY <1>1, <1>3, <2>2 DEF CacheKnown, Textual
    <3>2. Textual(tables')
      BY <1>1, <2>2, <3>1 DEF CacheKnown, Textual
    <3> QED BY <3>1, <3>2, DatabasesAreOne
  <2>4. CacheKnown'
    <3>1. beside' \in BOOLEAN /\ deaths' \in 0 .. MaxDeaths /\ vain' \in Nat /\ barren' \in BOOLEAN
      BY <1>1, <1>3 DEF CacheKnown
    <3>2. rewritten' \in BOOLEAN
      BY <1>3
    <3>3. Usable' => Named(tableMap') /\ tableMap' # EmptyMap
      BY <1>1 DEF CacheKnown, Usable
    <3> QED BY <1>1, <2>1, <2>3, <3>1, <3>2, <3>3, OverKnown, KnownKeeps
  <2>5. Locked'
    <3>1. \A d \in Calls \ {c} : analyses'[d] = analyses[d]
      BY <2>1 DEF Turns
    <3>2. analyses'[c].at = "over"
      BY <2>1 DEF Turns
    <3> QED BY <1>1, <2>3, <3>1, <3>2 DEF Locked, Linked, Loads
  <2> QED BY <1>3, <2>4, <2>5 DEF CacheInv, Calm
<1> QED BY <1>2, <1>3 DEF Query

\* A call that has found no table for its files removes the database; who is connected to
\* it keeps it.
LEMMA RemoveDatabaseKeeps ==
  ASSUME CacheInv, NEW c \in Calls, RemoveDatabase(c)
  PROVE  CacheInv'
<1>1. /\ CacheKnown /\ Locked /\ analyses[c].at = "emptied" /\ CallKnown(analyses[c])
      /\ UNCHANGED <<tableMap, deaths, beside, barren, rewritten>>
      /\ tables' = NoDatabase /\ vain' = IF analyses[c].unread THEN vain ELSE vain + 1
  BY CallsKnown DEF RemoveDatabase
<1>2. /\ analyses' = [d \in Calls |-> analyses'[d]] /\ analyses'[c] = OverCall
      /\ \A d \in Calls \ {c} :
            analyses'[d] = IF Linked(d) /\ (Loads(d) \/ analyses[d].at = "reading")
                           THEN [analyses[d] EXCEPT !.own = tables] ELSE analyses[d]
  BY OverIs DEF RemoveDatabase
<1>3. \A d \in Calls : CallKnown(analyses[d]) /\ Textual(tables) /\ Textual(NoDatabase)
  BY <1>1 DEF CacheKnown, Textual
<1>4. ASSUME NEW d \in Calls \ {c}
      PROVE  /\ CallKnown(analyses'[d]) /\ analyses'[d].at = analyses[d].at /\ analyses'[d].map = analyses[d].map
             /\ analyses'[d].own = NoDatabase => Linked(d)
             /\ analyses'[d].own = NoDatabase /\ (Loads(d) \/ analyses[d].at = "reading") => tables = NoDatabase
             /\ ~(Loads(d) \/ analyses[d].at = "reading") => analyses'[d] = analyses[d]
  <2>1. CASE Linked(d) /\ (Loads(d) \/ analyses[d].at = "reading")
    <3> DEFINE a == analyses[d]
               s == a.at
               m == a.map
               l == a.left
               o == a.own
               u == a.unread
    <3>1. a = Analysis(s, m, l, o, u)
      BY <1>3 DEF CallKnown
    <3>2. analyses'[d] = [a EXCEPT !.own = tables]
      BY <1>2, <2>1
    <3> HIDE DEF a, s, m, l, o, u
    <3>3. analyses'[d] = Analysis(s, m, l, tables, u)
      BY <3>1, <3>2 DEF Analysis
    <3> DEFINE b == analyses'[d]
    <3>4. b.at = s /\ b.map = m /\ b.left = l /\ b.own = tables
      BY <3>3 DEF Analysis
    <3>5. b.unread = u
      BY <3>3 DEF Analysis
    <3>6. b = Analysis(b.at, b.map, b.left, b.own, b.unread)
      BY <3>3, <3>4, <3>5
    <3> HIDE DEF b
    <3>7. CallKnown(b)
      BY <1>3, <3>4, <3>5, <3>6 DEF CallKnown, a, s, m, l, u
    <3> QED BY <2>1, <3>4, <3>7 DEF a, b, s, m
  <2>2. CASE ~(Linked(d) /\ (Loads(d) \/ analyses[d].at = "reading"))
    BY <1>2, <1>3, <2>2 DEF Linked
  <2> QED BY <2>1, <2>2
<1>5. OverCall.at = "over" /\ OverCall.map = EmptyMap /\ OverCall.own = NoDatabase
  BY DEF OverCall, Analysis
<1>6. vain' \in Nat
  BY <1>1 DEF CacheKnown
<1>7. CacheKnown'
  <2>1. beside' \in BOOLEAN /\ deaths' \in 0 .. MaxDeaths /\ rewritten' \in BOOLEAN /\ barren' \in BOOLEAN
    BY <1>1 DEF CacheKnown
  <2>2. Textual(tables')
    BY <1>1, <1>3
  <2>3. Usable' => Named(tableMap') /\ tableMap' # EmptyMap
    BY <1>1 DEF CacheKnown, Usable
  <2>4. \A d \in Calls : CallKnown(analyses'[d])
    BY <1>2, <1>4, OverKnown
  <2> QED BY <1>2, <1>6, <2>1, <2>2, <2>3, <2>4 DEF CacheKnown
<1>8. Locked'
  <2>1. \A d \in Calls : analyses'[d].own = NoDatabase /\ analyses'[d].at \in {"loading", "saving", "working", "reading"}
                          => FALSE
    <3> SUFFICES ASSUME NEW d \in Calls, analyses'[d].own = NoDatabase,
                        analyses'[d].at \in {"loading", "saving", "working", "reading"}
                 PROVE  FALSE
      OBVIOUS
    <3>1. d # c
      BY <1>2, <1>5
    <3>2. Linked(d) /\ (Loads(d) \/ analyses[d].at = "reading") /\ tables = NoDatabase
      BY <1>4, <3>1 DEF Loads
    <3> QED BY <1>1, <3>2 DEF Locked
  <2> QED BY <2>1 DEF Locked, Linked, Loads
<1>9. ~beside /\ ~rewritten =>
         /\ Alone /\ Found /\ ~Usable
         /\ \A d \in Calls \ {c} : ~UnderWay(d) /\ analyses'[d] = analyses[d]
  <2> SUFFICES ASSUME ~beside, ~rewritten
               PROVE  /\ Alone /\ Found /\ ~Usable
                      /\ \A d \in Calls \ {c} : ~UnderWay(d) /\ analyses'[d] = analyses[d]
    OBVIOUS
  <2>1. Alone /\ Found
    BY CallsKnown
  <2>2. \A d \in Calls \ {c} : ~UnderWay(d)
    BY <1>1, <2>1, OthersRest DEF UnderWay
  <2>3. ~Usable
    BY <1>1, <2>1 DEF Alone
  <2> QED BY <1>4, <2>1, <2>2, <2>3 DEF UnderWay, Loads
<1>10. ~Usable => ~Usable'
  BY <1>1 DEF Usable
<1>11. Calm' => Found'
  <2> SUFFICES ASSUME Calm' PROVE Found'
    OBVIOUS
  <2>1. ~beside /\ ~rewritten /\ Found
    <3>1. ~rewritten /\ (~beside \/ ~barren) /\ Found
      BY <1>1, CallsKnown DEF Calm
    <3> QED BY <1>1, <3>1 DEF Found
  <2>2. \A d \in Calls : analyses'[d].map = EmptyMap /\ analyses'[d].own = NoDatabase
                         /\ analyses'[d].at \in {"new", "over"}
    <3> SUFFICES ASSUME NEW d \in Calls \ {c}
                 PROVE  analyses'[d].map = EmptyMap /\ analyses'[d].own = NoDatabase
                        /\ analyses'[d].at \in {"new", "over"}
      BY <1>2, <1>5
    <3>1. analyses'[d] = analyses[d] /\ analyses[d].at \in {"new", "over"}
      BY <1>9, <2>1 DEF UnderWay
    <3> QED BY <1>3, <2>1, <3>1 DEF CallKnown, Found, Linked
  <2>3. ~Usable'
    BY <1>9, <1>10, <2>1
  <2> QED BY <2>2, <2>3, EmptyMapIs DEF Found, Linked, InIt
<1>12. ~beside' /\ ~rewritten' => Alone'
  <2> SUFFICES ASSUME ~beside', ~rewritten' PROVE Alone'
    OBVIOUS
  <2>1. /\ Alone /\ Found /\ ~Usable
        /\ \A d \in Calls \ {c} : ~UnderWay(d) /\ analyses'[d] = analyses[d]
    BY <1>1, <1>9
  <2>2. Turns(c, OverCall)
    BY <1>2, <2>1 DEF Turns
  <2>3. ~Debris'
    BY <1>1 DEF Debris
  <2>4. vain' <= deaths'
    <3>1. CASE analyses[c].unread
      BY <1>1, <2>1, <3>1 DEF Alone
    <3>2. CASE ~analyses[c].unread
      <4>1. analyses[c].map = EmptyMap
        BY <1>1 DEF CallKnown
      <4>2. DOMAIN tables # {}
        BY <1>1, <2>1, <3>2, <4>1 DEF Alone
      <4>3. tables # NoDatabase
        BY <1>1, <2>1 DEF Found
      <4>4. Debris
        BY <1>1, <2>1, <4>2, <4>3 DEF Debris, UnderWay
      <4> QED BY <1>1, <2>1, <3>2, <4>4 DEF Alone
    <3> QED BY <3>1, <3>2
  <2> QED BY <1>1, <1>5, <2>1, <2>2, <2>3, <2>4, AloneTurns
<1> QED BY <1>7, <1>8, <1>11, <1>12 DEF CacheInv

\* Nothing is cached at the start.
LEMMA CacheInitially == CacheInit => CacheInv
<1> SUFFICES ASSUME CacheInit PROVE CacheInv
  OBVIOUS
<1>1. \A c \in Calls : analyses[c] = Analysis("new", EmptyMap, EmptyMap, NoDatabase, FALSE)
  BY DEF CacheInit, NewCall, Analysis
<1>2. \A c \in Calls : /\ analyses[c].at = "new" /\ analyses[c].map = EmptyMap
                        /\ analyses[c].left = EmptyMap /\ analyses[c].own = NoDatabase
  BY <1>1 DEF Analysis
<1>3. \A c \in Calls : analyses[c].unread = FALSE
  BY <1>1 DEF Analysis
<1>4. ~Usable /\ Textual(NoDatabase)
  BY DEF CacheInit, Usable, Textual
<1>5. \A c \in Calls : CallKnown(analyses[c])
  <2> SUFFICES ASSUME NEW c \in Calls PROVE CallKnown(analyses[c])
    OBVIOUS
  <2> DEFINE b == analyses[c]
  <2>1. b = Analysis(b.at, b.map, b.left, b.own, b.unread)
    BY <1>1, <1>2, <1>3
  <2>2. b.unread \in BOOLEAN
    BY <1>3
  <2>3. b.at = "new" /\ b.map = EmptyMap /\ b.left = EmptyMap /\ b.own = NoDatabase
    BY <1>2
  <2> HIDE DEF b
  <2>4. CallKnown(b)
    BY <1>4, <2>1, <2>2, <2>3, EmptyMapIs DEF CallKnown, AnalysisPoints
  <2> QED BY <2>4 DEF b
<1>6. CacheKnown
  <2>1. 0 \in 0 .. MaxDeaths
    <3>1. MaxDeaths \in Nat
      BY CacheAssumption
    <3> QED BY <3>1
  <2> QED BY <1>4, <1>5, <2>1 DEF CacheInit, CacheKnown
<1>7. Locked
  BY <1>2 DEF Locked, Loads
<1>8. Found
  BY <1>2, <1>4, EmptyMapIs DEF Found, Linked, InIt
<1>9. Alone
  BY <1>2, <1>4 DEF Alone, UnderWay, Debris, CacheInit
<1> QED BY <1>6, <1>7, <1>8, <1>9 DEF CacheInv

\* Every step of every call keeps the invariant.
LEMMA CacheKeeps == CacheInv /\ [CacheNext]_cacheVars => CacheInv'
<1> SUFFICES ASSUME CacheInv, [CacheNext]_cacheVars PROVE CacheInv'
  OBVIOUS
<1>1. CASE UNCHANGED cacheVars
  <2>1. CacheKnown' = CacheKnown
    BY <1>1 DEF cacheVars, CacheKnown, Usable
  <2>2. Locked' = Locked
    BY <1>1 DEF cacheVars, Locked, Linked, Loads
  <2>3. Found' = Found /\ Calm' = Calm
    BY <1>1 DEF cacheVars, Found, Calm, Linked, Usable, InIt
  <2>4. Debris' = Debris
    BY <1>1 DEF cacheVars, Debris, Usable
  <2>5. Alone => Alone'
    BY <1>1, <2>4 DEF cacheVars, Alone, UnderWay, Usable
  <2> QED BY <1>1, <2>1, <2>2, <2>3, <2>5 DEF CacheInv, cacheVars
<1>2. CASE CacheNext
  BY <1>2, ReadMapKeeps, LookUpKeeps, ConnectToReadKeeps, ConnectToLoadKeeps, LoadFileKeeps,
     LoadedKeeps, SaveMapKeeps, RemoveDatabaseKeeps, WorkKeeps, QueryKeeps, DieKeeps
  DEF CacheNext
<1> QED BY <1>1, <1>2

\* The invariant is stronger than what it is for.
LEMMA CacheFollows == CacheInv => CacheTypeOK /\ AnalysisHolds
<1> SUFFICES ASSUME CacheInv PROVE CacheTypeOK /\ AnalysisHolds
  OBVIOUS
<1>1. CacheKnown /\ Locked
  BY DEF CacheInv
<1>2. \A db : Textual(db) => db = NoDatabase \/ DOMAIN db \subseteq TableNames
  BY DEF Textual
<1>3. CacheTypeOK
  BY <1>1, <1>2 DEF CacheTypeOK, CacheKnown, CallKnown, Named, Usable, Locked, AnalysisPoints
<1>4. TablesAreFound
  <2> SUFFICES ASSUME Calm, NEW c \in Calls, Works(c), NEW n \in DOMAIN analyses[c].map
               PROVE  /\ analyses[c].map[n] \in DOMAIN Seen(c)
                      /\ Seen(c)[analyses[c].map[n]] \in TextsOf(n)
    BY DEF TablesAreFound, Calm
  <2> DEFINE t == analyses[c].map[n]
  <2>1. Found
    BY DEF CacheInv
  <2>2. Seen(c) = tables /\ t \in DOMAIN tables
    BY <2>1, FoundCall DEF Seen, InIt
  <2>3. analyses[c].map # EmptyMap /\ tables # NoDatabase
    BY <2>1, EmptyMapIs DEF Found
  <2>4. t[1] = n
    BY <1>1 DEF CacheKnown, CallKnown, Named
  <2>5. tables[t] \in TextsOf(t[1])
    BY <1>1, <2>2, <2>3 DEF CacheKnown, Textual
  <2> QED BY <2>2, <2>4, <2>5
<1>5. DeathsAreRepaired
  BY DEF DeathsAreRepaired, CacheInv, Alone
<1> QED BY <1>3, <1>4, <1>5 DEF AnalysisHolds

\* Unless a query has dropped one, calls that come one after the other, or that all load
\* something, find the tables of their maps with the right texts; and each killed call
\* makes at most one other fail (analyze.py: main, load_files, load_table_map).
THEOREM TablesAreThere == CacheSpec => []AnalysisHolds
BY CacheInitially, CacheKeeps, CacheFollows, PTL DEF CacheSpec

\* The locks of the database exclude whoever would change it from all others.
THEOREM CacheTyped == CacheSpec => []CacheTypeOK
BY CacheInitially, CacheKeeps, CacheFollows, PTL DEF CacheSpec
=============================================================================

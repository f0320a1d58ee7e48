------------------------- MODULE VendorInstallProofs -------------------------
(***************************************************************************)
(* Proofs about VendorInstall for any number of commands, graphs, names    *)
(* and edits.  A tree is known by the command that wrote it: it is never   *)
(* in two places at once.  The invariant says, for every step of a         *)
(* command, where the old tree, the new one and the user's are, among the  *)
(* directories and on whatever a power failure may leave.                  *)
(***************************************************************************)
EXTENDS VendorInstall, TLAPS

IsVendored(tree) == tree.is \in {"written", "synced", "edited"}
Kept == {Destination} \cup Backups    \* where trees last
Whole(tree) == tree.is \in {"synced", "edited"}
Own(tree) == Whole(tree) /\ tree.by = command.number

Unbuilt == {"Look", "CreateStaging", "Write"}
Built == {"StagingValidation", "Backup", "BackupValidation", "BackupSync", "Publish"}
Unpublished == Unbuilt \cup Built \cup {"SyncTree", "BuildFailure"}
Forward == {"BackupValidation", "BackupSync", "Publish", "PublishValidation", "PublishSync",
            "BackupCleanup"}
Verdict == {"RollbackValidation", "RollbackSync", "RollbackCleanup", "Report"}

\* The old tree has been moved aside.
Aside == Installed /\ state \in {"BackupReady", "Published"}

Shapes == TypeOK /\ dir \in onDisk

\* Which state a step finds.
Phases ==
  /\ pc \in Unbuilt \cup {"SyncTree", "StagingValidation", "BuildFailure", "Backup"}
       => state = "Prepared"
  /\ pc = "Look" => previous = Nothing
  /\ pc \in {"Backup", "BackupValidation", "BackupSync", "BackupCleanup", "RestoreValidation"}
       => Installed
  /\ pc \in {"BackupValidation", "BackupSync"} => state = "BackupReady"
  /\ pc = "Publish" => state = IF Installed THEN "BackupReady" ELSE "Prepared"
  /\ pc \in {"PublishValidation", "PublishSync", "BackupCleanup"} => state = "Published"
  /\ pc = "RestoreValidation" => state \in {"BackupReady", "Published"}
  /\ pc \in Steps => state \in {"Prepared", "BackupReady", "Published"}
  /\ pc = "Restore" /\ restored => state # "Published"
  /\ pc \in Verdict /\ restored => state # "Published" /\ ~Aside
  /\ pc = "done" => ~Aside

\* A state of the directories, for the command of this number at this step.
Sound(d, here, number) ==
  /\ \A p \in Kept : d[p].is # "written"
  /\ \A h \in Hidden : d[h] # Foreign
  /\ \A p \in Places : IsVendored(d[p]) =>
       /\ d[p].by <= number
       /\ here \in Unbuilt => d[p].by < number
       /\ here \in Unpublished /\ (p \in Kept \/ d[p].is = "edited") => d[p].by < number
  /\ \A p, q \in Places : IsVendored(d[p]) /\ IsVendored(d[q]) /\ d[p].by = d[q].by => p = q

\* What a power failure may leave, and so what there is.
World == \A d \in onDisk : Sound(d, pc, command.number)

\* What was found hidden is where it was.
Leftovers ==
  pc # "crashed" =>
    /\ \A d \in Hidden : before[d] # Nothing => dir[d] = before[d]
    /\ \A d \in Hidden \ {Staging, BackupPlace} : dir[d] = before[d]
    /\ pc \in {"Look", "CreateStaging"} => dir[Staging] = before[Staging]
    /\ pc \in Steps \ {"Look", "CreateStaging"} => before[Staging] = Nothing
    /\ pc \in Steps /\ Aside => before[BackupPlace] = Nothing
    /\ ~Aside => dir[BackupPlace] \in {Nothing, before[BackupPlace]}

\* Where the old tree is.
OldTree ==
  /\ previous = Nothing \/ previous.is = "synced"
  /\ pc \in Steps \ {"Look"} /\ Installed =>
       /\ state = "Prepared" => IsTree(dir[Destination], previous)
       /\ Aside => dir[BackupPlace] = Part \/ IsTree(dir[BackupPlace], previous)
       /\ pc \in Forward => dir[BackupPlace].is # "part"
       /\ pc \in Forward \ {"BackupValidation"} => dir[BackupPlace].is = "synced"
       /\ pc \in {"RollbackPublished", "Restore"} /\ Aside /\ restored
            => dir[BackupPlace].is = "synced"

\* Where the new one is.
NewTree ==
  /\ pc = "SyncTree" => dir[Staging] =
       [is |-> "written", graph |-> command.graph, by |-> command.number]
  /\ pc \in Built => dir[Staging] =
       [is |-> "synced", graph |-> command.graph, by |-> command.number]
  /\ pc \in Steps /\ state = "Published" => Own(dir[Destination]) /\ dir[Staging] = Nothing
  /\ pc = "BackupCleanup" => \A d \in onDisk : Own(d[Destination])
  /\ pc \in {"PublishValidation", "PublishSync", "RollbackPublished"}
       /\ state = "Published" /\ ~Installed =>
         \E d \in onDisk : d[Destination] = Nothing /\ \A b \in Backups : d[b] = dir[b]

\* A destination as it was before.
AsBefore(d) ==
  IF Installed THEN IsTree(d[Destination], previous) ELSE d[Destination] \in {Nothing, Foreign}

RolledBack ==
  restored =>
    /\ pc = "RollbackSync" => AsBefore(dir)
    /\ pc \in {"RollbackCleanup", "Report"} => \A d \in onDisk : AsBefore(d)

\* An edited tree that was withdrawn is nobody's.
Withdrawn(d, now) ==
  \A n \in Names, p \in Kept :
    d[StagingOf(n)].is = "edited" /\ IsVendored(now[p]) => now[p].by # d[StagingOf(n)].by

\* What the user has touched is at no place a command deletes.
Touched(t) ==
  /\ t = Foreign \/ (t.is = "edited" /\ t.by <= command.number
                     /\ (pc \in Steps => t.by < command.number))
  /\ \A d \in onDisk, n \in Names : d[StagingOf(n)] # t

Edits == (\A d \in onDisk : Withdrawn(d, dir)) /\ (\A t \in touched : Touched(t))

IInv ==
  /\ Shapes /\ World /\ Edits /\ EditsStay
  /\ Phases /\ Leftovers /\ OldTree /\ NewTree /\ RolledBack /\ ReportIsTrue

-----------------------------------------------------------------------------
(* Trees and places. *)
\* The four kinds of trees.
LEMMA TreeKinds ==
  ASSUME NEW t \in Trees, MaxCommands \in Nat
  PROVE  \/ t = Nothing /\ t.is = "nothing"
         \/ t = Part /\ t.is = "part"
         \/ t = Foreign /\ t.is = "foreign"
         \/ /\ t \in Vendored({"written", "synced", "edited"}) /\ IsVendored(t)
            /\ t.graph \in Graphs /\ t.by \in 0 .. MaxCommands
            /\ t = [is |-> t.is, graph |-> t.graph, by |-> t.by]
BY DEF Trees, Vendored, Nothing, Part, Foreign, IsVendored

\* They differ.
LEMMA TreeNames ==
  /\ Nothing.is = "nothing" /\ Part.is = "part" /\ Foreign.is = "foreign"
  /\ Nothing # Part /\ Nothing # Foreign /\ Part # Foreign
  /\ Nothing \in Trees /\ Part \in Trees /\ Foreign \in Trees
  /\ ~IsVendored(Nothing) /\ ~IsVendored(Part) /\ ~IsVendored(Foreign)
BY DEF Trees, Nothing, Part, Foreign, IsVendored

\* What a command builds, or the user makes of it.
LEMMA TreeMade ==
  ASSUME NEW how \in {"written", "synced", "edited"}, NEW graph \in Graphs,
         NEW by \in 0 .. MaxCommands
  PROVE  /\ [is |-> how, graph |-> graph, by |-> by] \in Trees
         /\ IsVendored([is |-> how, graph |-> graph, by |-> by])
BY DEF Trees, Vendored, IsVendored

\* The destination, the backups and the stagings are apart.
LEMMA PlaceNames ==
  /\ Destination \in Places /\ Destination \in Kept /\ Destination \notin Hidden
  /\ Kept \subseteq Places /\ Hidden \subseteq Places /\ Backups \subseteq Kept
  /\ Backups \subseteq Hidden /\ Places = Kept \cup {StagingOf(n) : n \in Names}
  /\ \A n \in Names : StagingOf(n) \in Hidden /\ StagingOf(n) \notin Kept
  /\ \A p \in Kept : p = Destination \/ p \in Backups
  /\ Places = Hidden \cup {Destination}
BY DEF Places, Kept, Hidden, Backups, Destination, StagingOf, BackupOf

\* Those of the command.
LEMMA OwnPlaces ==
  ASSUME TypeOK
  PROVE  /\ Staging \in Hidden /\ Staging \notin Kept /\ Staging \in Places
         /\ BackupPlace \in Backups /\ BackupPlace \in Hidden /\ BackupPlace \in Kept
         /\ BackupPlace \in Places /\ Staging # BackupPlace
         /\ Staging # Destination /\ BackupPlace # Destination
         /\ \E n \in Names : Staging = StagingOf(n)
<1>1. command.name \in Names
  BY DEF TypeOK
<1>2. Staging = StagingOf(command.name) /\ BackupPlace \in Backups
  BY <1>1 DEF Staging, BackupPlace, Backups
<1> QED
  BY <1>1, <1>2, PlaceNames

-----------------------------------------------------------------------------
(* States of the directories. *)
\* The steps go forward.
LEMMA SoundAgain ==
  ASSUME NEW d, NEW here, NEW there, NEW number, Sound(d, here, number),
         there \in Unbuilt => here \in Unbuilt, there \in Unpublished => here \in Unpublished
  PROVE  Sound(d, there, number)
BY DEF Sound

\* A tree that moves is in one place.
LEMMA SoundMove ==
  ASSUME NEW d \in [Places -> Trees], NEW here, NEW number, Sound(d, here, number),
         NEW from \in Places,
         NEW to \in Places, NEW e, e = [d EXCEPT ![to] = d[from], ![from] = Nothing],
         d[to] = Nothing, d[from] # Nothing, to \in Kept => d[from].is # "written",
         to \in Hidden => d[from] # Foreign,
         here \in Unpublished /\ to \in Kept => from \in Kept
  PROVE  e \in [Places -> Trees] /\ Sound(e, here, number)
<1>1. from # to
  OBVIOUS
<1>2. /\ e \in [Places -> Trees] /\ e[to] = d[from] /\ e[from] = Nothing
      /\ \A p \in Places : p # from /\ p # to => e[p] = d[p]
  BY <1>1, TreeNames
<1>3. \A p \in Kept : e[p].is # "written"
  BY <1>2, PlaceNames, TreeNames DEF Sound
<1>4. \A h \in Hidden : e[h] # Foreign
  BY <1>2, PlaceNames, TreeNames DEF Sound
<1>5. ASSUME NEW p \in Places, IsVendored(e[p])
      PROVE  /\ e[p].by <= number
             /\ here \in Unbuilt => e[p].by < number
             /\ here \in Unpublished /\ (p \in Kept \/ e[p].is = "edited") => e[p].by < number
  <2>1. CASE p = to
    BY <1>2, <1>5, <2>1 DEF Sound
  <2>2. CASE p # to
    BY <1>2, <1>5, <2>2, TreeNames DEF Sound
  <2> QED
    BY <2>1, <2>2
<1>6. ASSUME NEW p \in Places, NEW q \in Places, IsVendored(e[p]), IsVendored(e[q]),
             e[p].by = e[q].by
      PROVE  p = q
  <2> DEFINE Old(x) == IF x = to THEN from ELSE x
  <2>1. \A x \in Places : IsVendored(e[x]) => e[x] = d[Old(x)] /\ Old(x) \in Places /\ x # from
    BY <1>2, TreeNames
  <2>2. Old(p) = Old(q)
    BY <1>6, <2>1 DEF Sound
  <2> QED
    BY <1>6, <2>1, <2>2
<1> QED
  BY <1>2, <1>3, <1>4, <1>5, <1>6 DEF Sound

\* A tree that is deleted, or loses files, is no more.
LEMMA SoundLoss ==
  ASSUME NEW d \in [Places -> Trees], NEW here, NEW number, Sound(d, here, number),
         NEW p \in Places,
         NEW t \in {Nothing, Part}, NEW e, e = [d EXCEPT ![p] = t]
  PROVE  e \in [Places -> Trees] /\ Sound(e, here, number)
<1>1. /\ e \in [Places -> Trees] /\ e[p] = t /\ ~IsVendored(t) /\ t # Foreign /\ t.is # "written"
      /\ \A q \in Places : q # p => e[q] = d[q]
  BY TreeNames
<1>2. \A q \in Places : IsVendored(e[q]) => e[q] = d[q]
  BY <1>1
<1>3. (\A q \in Kept : e[q].is # "written") /\ (\A h \in Hidden : e[h] # Foreign)
  BY <1>1, PlaceNames DEF Sound
<1> QED
  BY <1>1, <1>2, <1>3 DEF Sound

\* A power failure makes parts of what was not synced.
LEMMA SoundPower ==
  ASSUME NEW d \in [Places -> Trees], NEW here, NEW number, Sound(d, here, number)
  PROVE  /\ AfterPowerFailure(d) \in [Places -> Trees]
         /\ Sound(AfterPowerFailure(d), here, number)
         /\ \A p \in Places : AfterPowerFailure(d)[p] = d[p] \/ AfterPowerFailure(d)[p] = Part
         /\ \A p \in Places : d[p].is # "written" => AfterPowerFailure(d)[p] = d[p]
<1>1. PICK e : e = AfterPowerFailure(d)
  OBVIOUS
<1>2. /\ e \in [Places -> Trees]
      /\ \A p \in Places : e[p] = IF d[p].is = "written" THEN Part ELSE d[p]
  BY <1>1, TreeNames DEF AfterPowerFailure
<1>3. (\A q \in Kept : e[q].is # "written") /\ (\A h \in Hidden : e[h] # Foreign)
  BY <1>2, PlaceNames, TreeNames DEF Sound
<1>4. \A q \in Places : IsVendored(e[q]) => e[q] = d[q]
  BY <1>2, TreeNames
<1>5. Sound(e, here, number)
  BY <1>3, <1>4 DEF Sound
<1> QED
  BY <1>1, <1>2, <1>5

-----------------------------------------------------------------------------
(* What every step keeps, by what it does to the directories. *)
Ahead == /\ command' = command /\ touched' = touched
         /\ pc' \in Unbuilt => pc \in Unbuilt
         /\ pc' \in Unpublished => pc \in Unpublished
         /\ pc' \in Steps => pc \in Steps

Basics == Shapes /\ World /\ Edits /\ EditsStay

\* The directories have their types.
LEMMA DirTypes ==
  ASSUME IInv
  PROVE  /\ dir \in [Places -> Trees] /\ dir \in onDisk /\ onDisk \subseteq [Places -> Trees]
         /\ \A d \in onDisk : Sound(d, pc, command.number)
         /\ Sound(dir, pc, command.number)
         /\ command.number \in 0 .. MaxCommands /\ command.graph \in Graphs /\ TypeOK
         /\ command.name \in Names
BY DEF IInv, Shapes, TypeOK, World

\* Trees that differ are written by different commands.
LEMMA Apart ==
  ASSUME NEW d \in [Places -> Trees], NEW here, NEW number, Sound(d, here, number)
  PROVE  Withdrawn(d, d)
BY PlaceNames DEF Sound, Withdrawn, IsVendored

\* Nothing is done.
LEMMA QuietBasics ==
  ASSUME IInv, Keep, Ahead, TypeOK'
  PROVE  Basics'
<1>1. dir' = dir /\ onDisk' = onDisk
  BY DEF Keep
<1>2. World'
  BY <1>1, DirTypes, SoundAgain DEF World, Ahead
<1>3. \A d \in onDisk : Withdrawn(d, dir)'
  BY <1>1 DEF IInv, Edits, Withdrawn
<1>4. \A t \in touched : Touched(t)'
  BY <1>1 DEF IInv, Edits, Touched, Ahead
<1>5. Edits' /\ EditsStay'
  BY <1>1, <1>3, <1>4 DEF IInv, Edits, EditsStay, Ahead
<1> QED
  BY <1>1, <1>2, <1>5, DirTypes DEF Basics, Shapes

\* The parent is synced.
LEMMA SyncBasics ==
  ASSUME IInv, Sync, Ahead, TypeOK'
  PROVE  Basics'
<1>1. dir' = dir /\ onDisk' = {dir} /\ onDisk' \subseteq onDisk
  BY DirTypes DEF Sync
<1>2. World'
  BY <1>1, DirTypes, SoundAgain DEF World, Ahead
<1>3. \A d \in onDisk' : Withdrawn(d, dir)'
  BY <1>1 DEF IInv, Edits, Withdrawn
<1>4. \A t \in touched : Touched(t)'
  BY <1>1 DEF IInv, Edits, Touched, Ahead
<1>5. Edits' /\ EditsStay'
  BY <1>1, <1>3, <1>4 DEF IInv, Edits, EditsStay, Ahead
<1> QED
  BY <1>1, <1>2, <1>5 DEF Basics, Shapes

\* Something changes: what it changes to is sound, and takes nothing away.
LEMMA ChangeBasics ==
  ASSUME IInv, NEW e \in [Places -> Trees], Change(e), Ahead, TypeOK',
         Sound(e, pc, command.number) \/ Sound(e, pc', command.number),
         \A d \in onDisk : Withdrawn(d, e),
         \A t \in touched, n \in Names : e[StagingOf(n)] # t,
         \A t \in touched : \E p \in Kept : e[p] = t
  PROVE  Basics'
<1>1. dir' = e /\ onDisk' = onDisk \cup {e}
  BY DEF Change
<1>2. Sound(e, pc', command.number)
  BY SoundAgain DEF Ahead
<1>3. World'
  <2>1. \A d \in onDisk : Sound(d, pc', command.number)
    BY DirTypes, SoundAgain DEF Ahead
  <2> QED
    BY <1>1, <1>2, <2>1 DEF World, Ahead
<1>4. \A d \in onDisk' : Withdrawn(d, e)
  <2>1. Withdrawn(e, e)
    BY <1>2, Apart
  <2> QED
    BY <1>1, <2>1
<1>5. \A d \in onDisk' : Withdrawn(d, dir)'
  BY <1>1, <1>4 DEF Withdrawn
<1>6. \A t \in touched : Touched(t)'
  BY <1>1 DEF IInv, Edits, Touched, Ahead
<1>7. Edits' /\ EditsStay'
  BY <1>1, <1>5, <1>6 DEF Edits, EditsStay, Ahead, Kept
<1> QED
  BY <1>1, <1>3, <1>7 DEF Basics, Shapes

\* A staging directory changes, to nothing of the user's.
LEMMA StagingBasics ==
  ASSUME IInv, NEW e, NEW t \in Trees, e = [dir EXCEPT ![Staging] = t], Change(e),
         Ahead, TypeOK', Sound(e, pc, command.number) \/ Sound(e, pc', command.number),
         t # Foreign, t.is # "edited"
  PROVE  Basics'
<1>1. /\ e \in [Places -> Trees] /\ e[Staging] = t
      /\ \A p \in Places : p # Staging => e[p] = dir[p]
      /\ \A p \in Kept : e[p] = dir[p]
  BY DirTypes, OwnPlaces, PlaceNames
<1>2. \A d \in onDisk : Withdrawn(d, e)
  BY <1>1 DEF IInv, Edits, Withdrawn
<1>3. \A x \in touched, n \in Names : e[StagingOf(n)] # x
  BY <1>1, DirTypes, PlaceNames DEF IInv, Edits, Touched
<1>4. \A x \in touched : \E p \in Kept : e[p] = x
  BY <1>1 DEF IInv, EditsStay, Kept
<1> QED
  BY <1>1, <1>2, <1>3, <1>4, ChangeBasics

\* A tree moves from where trees last to where they last.
LEMMA MoveBasics ==
  ASSUME IInv, NEW from \in Kept, NEW to \in Kept, Rename(from, to), Ahead, TypeOK',
         to # Destination => dir[from] # Foreign
  PROVE  Basics'
<1>1. PICK e : e = [dir EXCEPT ![to] = dir[from], ![from] = Nothing]
  OBVIOUS
<1>2. Change(e) /\ dir[from] # Nothing /\ dir[to] = Nothing
  BY <1>1 DEF Rename
<1>3. from # to /\ from \in Places /\ to \in Places
  BY <1>2, PlaceNames
<1>4. e \in [Places -> Trees] /\ Sound(e, pc, command.number)
  <2>1. dir[from].is # "written" /\ (to \in Hidden => dir[from] # Foreign)
    BY DirTypes, PlaceNames DEF Sound
  <2> QED
    BY <1>1, <1>2, <1>3, <2>1, DirTypes, SoundMove
<1>5. /\ e[to] = dir[from] /\ e[from] = Nothing
      /\ \A p \in Places : p # from /\ p # to => e[p] = dir[p]
      /\ \A n \in Names : e[StagingOf(n)] = dir[StagingOf(n)]
  BY <1>1, <1>3, DirTypes, PlaceNames
<1>6. \A p \in Kept : e[p] = Nothing \/ \E q \in Kept : e[p] = dir[q]
  BY <1>5, PlaceNames
<1>7. \A d \in onDisk : Withdrawn(d, e)
  BY <1>6, TreeNames DEF IInv, Edits, Withdrawn
<1>8. \A x \in touched, n \in Names : e[StagingOf(n)] # x
  BY <1>5, DirTypes DEF IInv, Edits, Touched
<1>9. \A x \in touched : \E p \in Kept : e[p] = x
  <2> SUFFICES ASSUME NEW x \in touched PROVE \E p \in Kept : e[p] = x
    OBVIOUS
  <2>1. PICK p \in Kept : dir[p] = x
    BY DEF IInv, EditsStay, Kept
  <2>2. x # Nothing
    BY TreeNames DEF IInv, Edits, Touched
  <2>3. p # to
    BY <1>2, <2>1, <2>2
  <2> QED
    BY <1>5, <2>1, <2>3, PlaceNames
<1> QED
  BY <1>2, <1>4, <1>7, <1>8, <1>9, ChangeBasics

\* A backup is deleted, or loses files: it was not the user's.
LEMMA LossBasics ==
  ASSUME IInv, NEW t \in {Nothing, Part}, NEW e, e = [dir EXCEPT ![BackupPlace] = t],
         Change(e), Ahead, TypeOK', dir[BackupPlace].is = "synced"
  PROVE  Basics'
<1>1. e \in [Places -> Trees] /\ Sound(e, pc, command.number)
  BY DirTypes, OwnPlaces, SoundLoss
<1>2. /\ e[BackupPlace] = t /\ \A p \in Places : p # BackupPlace => e[p] = dir[p]
      /\ \A n \in Names : e[StagingOf(n)] = dir[StagingOf(n)]
  BY DirTypes, OwnPlaces, PlaceNames
<1>3. \A d \in onDisk : Withdrawn(d, e)
  BY <1>2, PlaceNames, TreeNames DEF IInv, Edits, Withdrawn
<1>4. \A x \in touched, n \in Names : e[StagingOf(n)] # x
  BY <1>2, DirTypes DEF IInv, Edits, Touched
<1>5. \A x \in touched : \E p \in Kept : e[p] = x
  <2> SUFFICES ASSUME NEW x \in touched PROVE \E p \in Kept : e[p] = x
    OBVIOUS
  <2>1. PICK p \in Kept : dir[p] = x
    BY DEF IInv, EditsStay, Kept
  <2>2. p # BackupPlace
    BY <2>1, TreeNames DEF IInv, Edits, Touched
  <2> QED
    BY <1>2, <2>1, <2>2, PlaceNames
<1> QED
  BY <1>1, <1>3, <1>4, <1>5, ChangeBasics

\* The new tree is published.
LEMMA PublishBasics ==
  ASSUME IInv, Rename(Staging, Destination), Ahead, TypeOK', MaxCommands \in Nat,
         pc = "Publish",
         pc' = "PublishValidation"
  PROVE  Basics'
<1>1. PICK e : e = [dir EXCEPT ![Destination] = dir[Staging], ![Staging] = Nothing]
  OBVIOUS
<1>2. Change(e) /\ dir[Staging] # Nothing /\ dir[Destination] = Nothing
  BY <1>1 DEF Rename
<1>3. /\ dir[Staging].is = "synced" /\ dir[Staging].by = command.number /\ dir[Staging] # Foreign
  BY TreeNames DEF IInv, NewTree, Built
<1>4. e \in [Places -> Trees] /\ Sound(e, pc', command.number)
  <2>1. Sound(dir, pc', command.number)
    BY DirTypes, SoundAgain DEF Ahead
  <2> QED
    BY <1>1, <1>2, <1>3, <2>1, DirTypes, OwnPlaces, PlaceNames, SoundMove
       DEF Unpublished, Unbuilt, Built
<1>5. /\ e[Destination] = dir[Staging] /\ e[Staging] = Nothing
      /\ \A p \in Places : p # Staging /\ p # Destination => e[p] = dir[p]
  BY <1>1, DirTypes, OwnPlaces, PlaceNames
<1>6. \A d \in onDisk : Withdrawn(d, e)
  <2> SUFFICES ASSUME NEW d \in onDisk, NEW n \in Names, NEW p \in Kept,
                      d[StagingOf(n)].is = "edited", IsVendored(e[p])
               PROVE  e[p].by # d[StagingOf(n)].by
    BY DEF Withdrawn
  <2>1. CASE p = Destination
    <3>1. IsVendored(d[StagingOf(n)]) /\ StagingOf(n) \in Places /\ d \in [Places -> Trees]
      BY DirTypes, PlaceNames DEF IsVendored
    <3>2. d[StagingOf(n)].by < command.number
      BY <3>1, DirTypes DEF Sound, Unpublished, Built
    <3>3. d[StagingOf(n)].by \in 0 .. MaxCommands /\ command.number \in 0 .. MaxCommands
      BY <3>1, DirTypes, TreeKinds, TreeNames
    <3> QED
      BY <1>3, <1>5, <2>1, <3>2, <3>3
  <2>2. CASE p # Destination
    BY <1>5, <2>2, OwnPlaces, DirTypes, PlaceNames DEF IInv, Edits, Withdrawn
  <2> QED
    BY <2>1, <2>2
<1>7. \A x \in touched, n \in Names : e[StagingOf(n)] # x
  <2> SUFFICES ASSUME NEW x \in touched, NEW n \in Names PROVE e[StagingOf(n)] # x
    OBVIOUS
  <2>1. x # Nothing /\ dir[StagingOf(n)] # x
    BY DirTypes, TreeNames DEF IInv, Edits, Touched
  <2> QED
    BY <1>5, <2>1, PlaceNames
<1>8. \A x \in touched : \E p \in Kept : e[p] = x
  <2> SUFFICES ASSUME NEW x \in touched PROVE \E p \in Kept : e[p] = x
    OBVIOUS
  <2>1. PICK p \in Kept : dir[p] = x
    BY DEF IInv, EditsStay, Kept
  <2>2. p # Destination
    BY <1>2, <2>1, TreeNames DEF IInv, Edits, Touched
  <2> QED
    BY <1>5, <2>1, <2>2, OwnPlaces, DirTypes, PlaceNames
<1> QED
  BY <1>2, <1>4, <1>6, <1>7, <1>8, ChangeBasics

\* It is withdrawn: whatever it has become, it is the command's own.
LEMMA WithdrawBasics ==
  ASSUME IInv, Rename(Destination, Staging), Ahead, TypeOK', MaxCommands \in Nat,
         pc = "RollbackPublished", state = "Published"
  PROVE  Basics'
<1>1. PICK e : e = [dir EXCEPT ![Staging] = dir[Destination], ![Destination] = Nothing]
  OBVIOUS
<1>2. Change(e) /\ dir[Destination] # Nothing /\ dir[Staging] = Nothing
  BY <1>1 DEF Rename
<1>3. /\ Whole(dir[Destination]) /\ dir[Destination].by = command.number
      /\ IsVendored(dir[Destination]) /\ dir[Destination] # Foreign
  BY TreeNames DEF IInv, NewTree, Own, Whole, IsVendored, Steps
<1>4. e \in [Places -> Trees] /\ Sound(e, pc, command.number)
  BY <1>1, <1>2, <1>3, DirTypes, OwnPlaces, PlaceNames, SoundMove DEF Whole, Unpublished,
     Unbuilt, Built
<1>5. /\ e[Staging] = dir[Destination] /\ e[Destination] = Nothing
      /\ \A p \in Places : p # Staging /\ p # Destination => e[p] = dir[p]
  BY <1>1, DirTypes, OwnPlaces, PlaceNames
<1>6. \A d \in onDisk : Withdrawn(d, e)
  BY <1>5, DirTypes, OwnPlaces, PlaceNames, TreeNames DEF IInv, Edits, Withdrawn
<1>7. \A x \in touched, n \in Names : e[StagingOf(n)] # x
  <2> SUFFICES ASSUME NEW x \in touched, NEW n \in Names PROVE e[StagingOf(n)] # x
    OBVIOUS
  <2>1. dir[StagingOf(n)] # x /\ (x = Foreign \/ x.by < command.number)
    BY DirTypes DEF IInv, Edits, Touched, Steps
  <2>2. dir[Destination] # x
    BY <1>3, <2>1, DirTypes
  <2> QED
    BY <1>5, <2>1, <2>2, PlaceNames
<1>8. \A x \in touched : \E p \in Kept : e[p] = x
  <2> SUFFICES ASSUME NEW x \in touched PROVE \E p \in Kept : e[p] = x
    OBVIOUS
  <2>1. PICK p \in Kept : dir[p] = x
    BY DEF IInv, EditsStay, Kept
  <2>2. x = Foreign \/ x.by < command.number
    BY DEF IInv, Edits, Touched, Steps
  <2>3. p # Destination
    BY <1>3, <2>1, <2>2, DirTypes
  <2> QED
    BY <1>5, <2>1, <2>3, OwnPlaces, DirTypes, PlaceNames
<1> QED
  BY <1>2, <1>4, <1>6, <1>7, <1>8, ChangeBasics

-----------------------------------------------------------------------------
(* What was found hidden. *)
\* What a command may have to name.
LEMMA Leaves ==
  ASSUME IInv, pc # "crashed", NEW d \in Hidden, dir[d] # Nothing, dir[d] # before[d]
  PROVE  /\ d \in {Staging, BackupPlace}
         /\ d = BackupPlace => Aside
         /\ d = Staging => pc \notin {"Look", "CreateStaging"}
BY DEF IInv, Leftovers

\* What has lasted is synced.
LEMMA Lasting ==
  ASSUME IInv, NEW p \in Kept, Complete(dir[p])
  PROVE  dir[p].is = "synced"
BY DirTypes DEF Sound, Complete

-----------------------------------------------------------------------------
(* The steps that change no directory. *)
\* What is at the destination is accepted.
LEMMA LookKeeps ==
  ASSUME IInv, Look, MaxCommands \in Nat
  PROVE  IInv'
<1>1. TypeOK' /\ Ahead
  <2>1. previous' \in Trees
    BY DirTypes, PlaceNames DEF Look
  <2> QED
    BY <2>1, DirTypes DEF Look, At, Goto, Running, Keep, Ahead, TypeOK, Steps, Ends, Unbuilt,
       Built, Unpublished
<1>2. Basics'
  BY <1>1, QuietBasics DEF Look
<1>3. Phases'
  BY DEF IInv, Look, At, Goto, Running, Keep, Complete,
     Phases, Installed, Aside, Steps, Unbuilt, Verdict
<1>4. Leftovers'
  BY DEF IInv, Look, At, Goto, Running, Keep, Complete,
     Phases, Leftovers, Installed, Aside, Steps, Unbuilt, Verdict, Staging, BackupPlace
<1>5. OldTree'
  <2>1. previous' = Nothing \/ previous'.is = "synced"
    BY Lasting, PlaceNames DEF Look
  <2>2. previous' # Nothing => IsTree(dir[Destination], previous')
    BY <2>1 DEF Look, IsTree
  <2>3. state' = "Prepared" /\ pc' = "CreateStaging" /\ dir' = dir
    BY DEF IInv, Look, At, Goto, Keep, Phases, Unbuilt
  <2> QED
    BY <2>1, <2>2, <2>3 DEF OldTree, Installed, Aside, Forward, Look, IsTree
<1>6. NewTree'
  BY DEF IInv, Look, At, Goto, Running, Keep, Complete,
     Phases, NewTree, Installed, Staging, Steps, Built, Own
<1>7. RolledBack'
  BY DEF IInv, Look, At, Goto, Running, Keep, Complete,
     RolledBack, Installed, AsBefore
<1>8. ReportIsTrue'
  BY DEF IInv, Look, At, Goto, Running, Keep, Complete,
     Phases, ReportIsTrue, RolledBackIsDurable, NothingForgotten, Steps
<1> QED
  BY <1>1, <1>2, <1>3, <1>4, <1>5, <1>6, <1>7, <1>8 DEF IInv, Basics

\* It is not.
LEMMA LookFailsKeeps ==
  ASSUME IInv, LookFails, MaxCommands \in Nat
  PROVE  IInv'
<1>1. TypeOK' /\ Ahead
  BY DirTypes, OwnPlaces DEF LookFails, At, Goto, Running, Keep, Fail, Ahead, TypeOK, Steps, Ends,
     Unbuilt, Built, Unpublished
<1>2. Basics'
  BY <1>1, QuietBasics DEF LookFails
<1>3. Phases'
  BY DEF IInv, LookFails, At, Goto, Running, Keep, Fail,
     Phases, Installed, Aside, Steps, Unbuilt, Verdict
<1>4. Leftovers'
  BY DEF IInv, LookFails, At, Goto, Running, Keep, Fail,
     Phases, Leftovers, Installed, Aside, Steps, Unbuilt, Verdict, Staging, BackupPlace
<1>5. OldTree'
  BY DEF IInv, LookFails, At, Goto, Running, Keep, Fail,
     Phases, OldTree, Installed, Aside, Steps, BackupPlace, Forward
<1>6. NewTree'
  BY DEF IInv, LookFails, At, Goto, Running, Keep, Fail,
     Phases, NewTree, Installed, Staging, Steps, Built, Own
<1>7. RolledBack'
  BY DEF IInv, LookFails, At, Goto, Running, Keep, Fail,
     RolledBack, Installed, AsBefore
<1>8. ReportIsTrue'
  <2>1. state' = "Prepared" /\ pc' = "failed" /\ dir' = dir /\ before' = before
    BY DEF IInv, LookFails, At, Fail, Goto, Running, Keep, Phases, Unbuilt
  <2>2. \A d \in Hidden : dir[d] = Nothing \/ dir[d] = before[d]
    BY Leaves DEF IInv, LookFails, At, Phases, Unbuilt, Aside
  <2> QED
    BY <2>1, <2>2 DEF ReportIsTrue, RolledBackIsDurable, NothingForgotten
<1> QED
  BY <1>1, <1>2, <1>3, <1>4, <1>5, <1>6, <1>7, <1>8 DEF IInv, Basics

\* The staging directory cannot be made.
LEMMA CreateStagingFailsKeeps ==
  ASSUME IInv, CreateStagingFails, MaxCommands \in Nat
  PROVE  IInv'
<1>1. TypeOK' /\ Ahead
  BY DirTypes, OwnPlaces DEF CreateStagingFails, At, Goto, Running, Keep, Fail, Ahead, TypeOK,
     Steps, Ends,
     Unbuilt, Built, Unpublished
<1>2. Basics'
  BY <1>1, QuietBasics DEF CreateStagingFails
<1>3. Phases'
  BY DEF IInv, CreateStagingFails, At, Goto, Running, Keep, Fail,
     Phases, Installed, Aside, Steps, Unbuilt, Verdict
<1>4. Leftovers'
  BY DEF IInv, CreateStagingFails, At, Goto, Running, Keep, Fail,
     Phases, Leftovers, Installed, Aside, Steps, Unbuilt, Verdict, Staging, BackupPlace
<1>5. OldTree'
  BY DEF IInv, CreateStagingFails, At, Goto, Running, Keep, Fail,
     Phases, OldTree, Installed, Aside, Steps, BackupPlace, Forward
<1>6. NewTree'
  BY DEF IInv, CreateStagingFails, At, Goto, Running, Keep, Fail,
     Phases, NewTree, Installed, Staging, Steps, Built, Own
<1>7. RolledBack'
  BY DEF IInv, CreateStagingFails, At, Goto, Running, Keep, Fail,
     RolledBack, Installed, AsBefore
<1>8. ReportIsTrue'
  <2>1. state' = "Prepared" /\ pc' = "failed" /\ dir' = dir /\ before' = before
    BY DEF IInv, CreateStagingFails, At, Fail, Goto, Running, Keep, Phases, Unbuilt
  <2>2. \A d \in Hidden : dir[d] = Nothing \/ dir[d] = before[d]
    BY Leaves DEF IInv, CreateStagingFails, At, Phases, Unbuilt, Aside
  <2> QED
    BY <2>1, <2>2 DEF ReportIsTrue, RolledBackIsDurable, NothingForgotten
<1> QED
  BY <1>1, <1>2, <1>3, <1>4, <1>5, <1>6, <1>7, <1>8 DEF IInv, Basics

\* The new tree is what the lock says.
LEMMA StagingValidationKeeps ==
  ASSUME IInv, StagingValidation, MaxCommands \in Nat
  PROVE  IInv'
<1>1. TypeOK' /\ Ahead
  BY DirTypes, OwnPlaces DEF StagingValidation, At, Goto, Running, Keep, Continue, Ahead, TypeOK,
     Steps, Ends,
     Unbuilt, Built, Unpublished
<1>2. Basics'
  BY <1>1, QuietBasics DEF StagingValidation
<1>3. Phases'
  BY DEF IInv, StagingValidation, At, Goto, Running, Keep, Continue,
     Phases, Installed, Aside, Steps, Unbuilt, Verdict
<1>4. Leftovers'
  BY DEF IInv, StagingValidation, At, Goto, Running, Keep, Continue,
     Phases, Leftovers, Installed, Aside, Steps, Unbuilt, Verdict, Staging, BackupPlace
<1>5. OldTree'
  BY DEF IInv, StagingValidation, At, Goto, Running, Keep, Continue,
     Phases, OldTree, Installed, Aside, Steps, BackupPlace, Forward
<1>6. NewTree'
  BY DEF IInv, StagingValidation, At, Goto, Running, Keep, Continue,
     Phases, NewTree, Installed, Staging, Steps, Built, Own
<1>7. RolledBack'
  BY DEF IInv, StagingValidation, At, Goto, Running, Keep, Continue,
     RolledBack, Installed, AsBefore
<1>8. ReportIsTrue'
  BY DEF IInv, StagingValidation, At, Goto, Running, Keep, Continue,
     Phases, ReportIsTrue, RolledBackIsDurable, NothingForgotten, Steps
<1> QED
  BY <1>1, <1>2, <1>3, <1>4, <1>5, <1>6, <1>7, <1>8 DEF IInv, Basics

\* The build fails.
LEMMA BuildFailsKeeps ==
  ASSUME IInv, BuildFails, MaxCommands \in Nat
  PROVE  IInv'
<1>1. TypeOK' /\ Ahead
  BY DirTypes, OwnPlaces DEF BuildFails, At, Goto, Running, Keep, Continue, Ahead, TypeOK, Steps,
     Ends,
     Unbuilt, Built, Unpublished
<1>2. Basics'
  BY <1>1, QuietBasics DEF BuildFails
<1>3. Phases'
  BY DEF IInv, BuildFails, At, Goto, Running, Keep, Continue,
     Phases, Installed, Aside, Steps, Unbuilt, Verdict
<1>4. Leftovers'
  BY DEF IInv, BuildFails, At, Goto, Running, Keep, Continue,
     Phases, Leftovers, Installed, Aside, Steps, Unbuilt, Verdict, Staging, BackupPlace
<1>5. OldTree'
  BY DEF IInv, BuildFails, At, Goto, Running, Keep, Continue,
     Phases, OldTree, Installed, Aside, Steps, BackupPlace, Forward
<1>6. NewTree'
  BY DEF IInv, BuildFails, At, Goto, Running, Keep, Continue,
     Phases, NewTree, Installed, Staging, Steps, Built, Own
<1>7. RolledBack'
  BY DEF IInv, BuildFails, At, Goto, Running, Keep, Continue,
     RolledBack, Installed, AsBefore
<1>8. ReportIsTrue'
  BY DEF IInv, BuildFails, At, Goto, Running, Keep, Continue,
     Phases, ReportIsTrue, RolledBackIsDurable, NothingForgotten, Steps
<1> QED
  BY <1>1, <1>2, <1>3, <1>4, <1>5, <1>6, <1>7, <1>8 DEF IInv, Basics

\* A step of the transaction fails.
LEMMA StepFailsKeeps ==
  ASSUME IInv, StepFails, MaxCommands \in Nat
  PROVE  IInv'
<1>1. TypeOK' /\ Ahead
  BY DirTypes, OwnPlaces DEF StepFails, At, Goto, Running, Keep, BeginRollback, Ahead, TypeOK,
     Steps, Ends,
     Unbuilt, Built, Unpublished
<1>2. Basics'
  BY <1>1, QuietBasics DEF StepFails
<1>3. Phases'
  BY DEF IInv, StepFails, At, Goto, Running, Keep, BeginRollback,
     Phases, Installed, Aside, Steps, Unbuilt, Verdict
<1>4. Leftovers'
  BY DEF IInv, StepFails, At, Goto, Running, Keep, BeginRollback,
     Phases, Leftovers, Installed, Aside, Steps, Unbuilt, Verdict, Staging, BackupPlace
<1>5. OldTree'
  BY DEF IInv, StepFails, At, Goto, Running, Keep, BeginRollback,
     Phases, OldTree, Installed, Aside, Steps, BackupPlace, Forward
<1>6. NewTree'
  BY DEF IInv, StepFails, At, Goto, Running, Keep, BeginRollback,
     Phases, NewTree, Installed, Staging, Steps, Built, Own
<1>7. RolledBack'
  BY DEF IInv, StepFails, At, Goto, Running, Keep, BeginRollback,
     RolledBack, Installed, AsBefore
<1>8. ReportIsTrue'
  BY DEF IInv, StepFails, At, Goto, Running, Keep, BeginRollback,
     Phases, ReportIsTrue, RolledBackIsDurable, NothingForgotten, Steps
<1> QED
  BY <1>1, <1>2, <1>3, <1>4, <1>5, <1>6, <1>7, <1>8 DEF IInv, Basics

\* The backup is the tree that was found.
LEMMA BackupValidationKeeps ==
  ASSUME IInv, BackupValidation, MaxCommands \in Nat
  PROVE  IInv'
<1>1. TypeOK' /\ Ahead
  BY DirTypes, OwnPlaces DEF BackupValidation, At, Goto, Running, Keep, Continue, Ahead, TypeOK,
     Steps, Ends,
     Unbuilt, Built, Unpublished
<1>2. Basics'
  BY <1>1, QuietBasics DEF BackupValidation
<1>3. Phases'
  BY DEF IInv, BackupValidation, At, Goto, Running, Keep, Continue,
     Phases, Installed, Aside, Steps, Unbuilt, Verdict
<1>4. Leftovers'
  BY DEF IInv, BackupValidation, At, Goto, Running, Keep, Continue,
     Phases, Leftovers, Installed, Aside, Steps, Unbuilt, Verdict, Staging, BackupPlace
<1>5. OldTree'
  <2>1. dir[BackupPlace].is = "synced"
    BY Lasting, DirTypes, OwnPlaces DEF BackupValidation, Matches
  <2> QED
    BY <2>1 DEF IInv, BackupValidation, At, Goto, Running, Keep, Continue, Phases, OldTree,
       Installed, Aside, Steps, BackupPlace, Forward
<1>6. NewTree'
  BY DEF IInv, BackupValidation, At, Goto, Running, Keep, Continue,
     Phases, NewTree, Installed, Staging, Steps, Built, Own
<1>7. RolledBack'
  BY DEF IInv, BackupValidation, At, Goto, Running, Keep, Continue,
     RolledBack, Installed, AsBefore
<1>8. ReportIsTrue'
  BY DEF IInv, BackupValidation, At, Goto, Running, Keep, Continue,
     Phases, ReportIsTrue, RolledBackIsDurable, NothingForgotten, Steps
<1> QED
  BY <1>1, <1>2, <1>3, <1>4, <1>5, <1>6, <1>7, <1>8 DEF IInv, Basics

\* The published tree is the new one.
LEMMA PublishValidationKeeps ==
  ASSUME IInv, PublishValidation, MaxCommands \in Nat
  PROVE  IInv'
<1>1. TypeOK' /\ Ahead
  BY DirTypes, OwnPlaces DEF PublishValidation, At, Goto, Running, Keep, Continue, Ahead, TypeOK,
     Steps, Ends,
     Unbuilt, Built, Unpublished
<1>2. Basics'
  BY <1>1, QuietBasics DEF PublishValidation
<1>3. Phases'
  BY DEF IInv, PublishValidation, At, Goto, Running, Keep, Continue,
     Phases, Installed, Aside, Steps, Unbuilt, Verdict
<1>4. Leftovers'
  BY DEF IInv, PublishValidation, At, Goto, Running, Keep, Continue,
     Phases, Leftovers, Installed, Aside, Steps, Unbuilt, Verdict, Staging, BackupPlace
<1>5. OldTree'
  BY DEF IInv, PublishValidation, At, Goto, Running, Keep, Continue,
     Phases, OldTree, Installed, Aside, Steps, BackupPlace, Forward
<1>6. NewTree'
  BY DEF IInv, PublishValidation, At, Goto, Running, Keep, Continue,
     Phases, NewTree, Installed, Staging, Steps, Built, Own
<1>7. RolledBack'
  BY DEF IInv, PublishValidation, At, Goto, Running, Keep, Continue,
     RolledBack, Installed, AsBefore
<1>8. ReportIsTrue'
  BY DEF IInv, PublishValidation, At, Goto, Running, Keep, Continue,
     Phases, ReportIsTrue, RolledBackIsDurable, NothingForgotten, Steps
<1> QED
  BY <1>1, <1>2, <1>3, <1>4, <1>5, <1>6, <1>7, <1>8 DEF IInv, Basics

\* The backup can be put back.
LEMMA RestoreValidationKeeps ==
  ASSUME IInv, RestoreValidation, MaxCommands \in Nat
  PROVE  IInv'
<1>1. TypeOK' /\ Ahead
  BY DirTypes, OwnPlaces DEF RestoreValidation, At, Goto, Running, Keep, Continue, Ahead, TypeOK,
     Steps, Ends,
     Unbuilt, Built, Unpublished
<1>2. Basics'
  BY <1>1, QuietBasics DEF RestoreValidation
<1>3. Phases'
  BY DEF IInv, RestoreValidation, At, Goto, Running, Keep, Continue,
     Phases, Installed, Aside, Steps, Unbuilt, Verdict
<1>4. Leftovers'
  BY DEF IInv, RestoreValidation, At, Goto, Running, Keep, Continue,
     Phases, Leftovers, Installed, Aside, Steps, Unbuilt, Verdict, Staging, BackupPlace
<1>5. OldTree'
  <2>1. dir[BackupPlace].is = "synced"
    BY Lasting, DirTypes, OwnPlaces DEF RestoreValidation, Matches
  <2> QED
    BY <2>1 DEF IInv, RestoreValidation, At, Goto, Running, Keep, Continue, Phases, OldTree,
       Installed, Aside, Steps, BackupPlace, Forward
<1>6. NewTree'
  BY DEF IInv, RestoreValidation, At, Goto, Running, Keep, Continue,
     Phases, NewTree, Installed, Staging, Steps, Built, Own
<1>7. RolledBack'
  BY DEF IInv, RestoreValidation, At, Goto, Running, Keep, Continue,
     RolledBack, Installed, AsBefore
<1>8. ReportIsTrue'
  BY DEF IInv, RestoreValidation, At, Goto, Running, Keep, Continue,
     Phases, ReportIsTrue, RolledBackIsDurable, NothingForgotten, Steps
<1> QED
  BY <1>1, <1>2, <1>3, <1>4, <1>5, <1>6, <1>7, <1>8 DEF IInv, Basics

\* It cannot.
LEMMA RestoreValidationFailsKeeps ==
  ASSUME IInv, RestoreValidationFails, MaxCommands \in Nat
  PROVE  IInv'
<1>1. TypeOK' /\ Ahead
  BY DirTypes, OwnPlaces DEF RestoreValidationFails, At, Goto, Running, Keep, GiveUp, Ahead,
     TypeOK, Steps, Ends,
     Unbuilt, Built, Unpublished
<1>2. Basics'
  BY <1>1, QuietBasics DEF RestoreValidationFails
<1>3. Phases'
  BY DEF IInv, RestoreValidationFails, At, Goto, Running, Keep, GiveUp,
     Phases, Installed, Aside, Steps, Unbuilt, Verdict
<1>4. Leftovers'
  BY DEF IInv, RestoreValidationFails, At, Goto, Running, Keep, GiveUp,
     Phases, Leftovers, Installed, Aside, Steps, Unbuilt, Verdict, Staging, BackupPlace
<1>5. OldTree'
  BY DEF IInv, RestoreValidationFails, At, Goto, Running, Keep, GiveUp,
     Phases, OldTree, Installed, Aside, Steps, BackupPlace, Forward
<1>6. NewTree'
  BY DEF IInv, RestoreValidationFails, At, Goto, Running, Keep, GiveUp,
     Phases, NewTree, Installed, Staging, Steps, Built, Own
<1>7. RolledBack'
  BY DEF IInv, RestoreValidationFails, At, Goto, Running, Keep, GiveUp,
     RolledBack, Installed, AsBefore
<1>8. ReportIsTrue'
  BY DEF IInv, RestoreValidationFails, At, Goto, Running, Keep, GiveUp,
     Phases, ReportIsTrue, RolledBackIsDurable, NothingForgotten, Steps
<1> QED
  BY <1>1, <1>2, <1>3, <1>4, <1>5, <1>6, <1>7, <1>8 DEF IInv, Basics

\* The new tree cannot be withdrawn.
LEMMA RollbackPublishedFailsKeeps ==
  ASSUME IInv, RollbackPublishedFails, MaxCommands \in Nat
  PROVE  IInv'
<1>1. TypeOK' /\ Ahead
  BY DirTypes, OwnPlaces DEF RollbackPublishedFails, At, Goto, Running, Keep, GiveUp, Withdraws,
     Ahead, TypeOK, Steps, Ends,
     Unbuilt, Built, Unpublished
<1>2. Basics'
  BY <1>1, QuietBasics DEF RollbackPublishedFails
<1>3. Phases'
  BY DEF IInv, RollbackPublishedFails, At, Goto, Running, Keep, GiveUp, Withdraws,
     Phases, Installed, Aside, Steps, Unbuilt, Verdict
<1>4. Leftovers'
  BY DEF IInv, RollbackPublishedFails, At, Goto, Running, Keep, GiveUp, Withdraws,
     Phases, Leftovers, Installed, Aside, Steps, Unbuilt, Verdict, Staging, BackupPlace
<1>5. OldTree'
  BY DEF IInv, RollbackPublishedFails, At, Goto, Running, Keep, GiveUp, Withdraws,
     Phases, OldTree, Installed, Aside, Steps, BackupPlace, Forward
<1>6. NewTree'
  BY DEF IInv, RollbackPublishedFails, At, Goto, Running, Keep, GiveUp, Withdraws,
     Phases, NewTree, Installed, Staging, Steps, Built, Own
<1>7. RolledBack'
  BY DEF IInv, RollbackPublishedFails, At, Goto, Running, Keep, GiveUp, Withdraws,
     RolledBack, Installed, AsBefore
<1>8. ReportIsTrue'
  BY DEF IInv, RollbackPublishedFails, At, Goto, Running, Keep, GiveUp, Withdraws,
     Phases, ReportIsTrue, RolledBackIsDurable, NothingForgotten, Steps
<1> QED
  BY <1>1, <1>2, <1>3, <1>4, <1>5, <1>6, <1>7, <1>8 DEF IInv, Basics

\* The old tree cannot be put back.
LEMMA RestoreFailsKeeps ==
  ASSUME IInv, RestoreFails, MaxCommands \in Nat
  PROVE  IInv'
<1>1. TypeOK' /\ Ahead
  BY DirTypes, OwnPlaces DEF RestoreFails, At, Goto, Running, Keep, GiveUp, Restores, Ahead,
     TypeOK, Steps, Ends,
     Unbuilt, Built, Unpublished
<1>2. Basics'
  BY <1>1, QuietBasics DEF RestoreFails
<1>3. Phases'
  BY DEF IInv, RestoreFails, At, Goto, Running, Keep, GiveUp, Restores,
     Phases, Installed, Aside, Steps, Unbuilt, Verdict
<1>4. Leftovers'
  BY DEF IInv, RestoreFails, At, Goto, Running, Keep, GiveUp, Restores,
     Phases, Leftovers, Installed, Aside, Steps, Unbuilt, Verdict, Staging, BackupPlace
<1>5. OldTree'
  BY DEF IInv, RestoreFails, At, Goto, Running, Keep, GiveUp, Restores,
     Phases, OldTree, Installed, Aside, Steps, BackupPlace, Forward
<1>6. NewTree'
  BY DEF IInv, RestoreFails, At, Goto, Running, Keep, GiveUp, Restores,
     Phases, NewTree, Installed, Staging, Steps, Built, Own
<1>7. RolledBack'
  BY DEF IInv, RestoreFails, At, Goto, Running, Keep, GiveUp, Restores,
     RolledBack, Installed, AsBefore
<1>8. ReportIsTrue'
  BY DEF IInv, RestoreFails, At, Goto, Running, Keep, GiveUp, Restores,
     Phases, ReportIsTrue, RolledBackIsDurable, NothingForgotten, Steps
<1> QED
  BY <1>1, <1>2, <1>3, <1>4, <1>5, <1>6, <1>7, <1>8 DEF IInv, Basics

\* The old tree is found back, or the rollback has given up.
LEMMA RollbackValidationKeeps ==
  ASSUME IInv, RollbackValidation, MaxCommands \in Nat
  PROVE  IInv'
<1>1. TypeOK' /\ Ahead
  BY DirTypes, OwnPlaces DEF RollbackValidation, At, Goto, Running, Keep, Continue, Ahead,
     TypeOK, Steps, Ends,
     Unbuilt, Built, Unpublished
<1>2. Basics'
  BY <1>1, QuietBasics DEF RollbackValidation
<1>3. Phases'
  BY DEF IInv, RollbackValidation, At, Goto, Running, Keep, Continue,
     Phases, Installed, Aside, Steps, Unbuilt, Verdict
<1>4. Leftovers'
  BY DEF IInv, RollbackValidation, At, Goto, Running, Keep, Continue,
     Phases, Leftovers, Installed, Aside, Steps, Unbuilt, Verdict, Staging, BackupPlace
<1>5. OldTree'
  BY DEF IInv, RollbackValidation, At, Goto, Running, Keep, Continue,
     Phases, OldTree, Installed, Aside, Steps, BackupPlace, Forward
<1>6. NewTree'
  BY DEF IInv, RollbackValidation, At, Goto, Running, Keep, Continue,
     Phases, NewTree, Installed, Staging, Steps, Built, Own
<1>7. RolledBack'
  <2>1. restored => AsBefore(dir)
    BY DEF IInv, RollbackValidation, At, Phases, Verdict, Steps, Aside, Installed, OldTree,
       AsBefore
  <2> QED
    BY <2>1 DEF RollbackValidation, Continue, Goto, Running, Keep, RolledBack, AsBefore, Installed
<1>8. ReportIsTrue'
  BY DEF IInv, RollbackValidation, At, Goto, Running, Keep, Continue,
     Phases, ReportIsTrue, RolledBackIsDurable, NothingForgotten, Steps
<1> QED
  BY <1>1, <1>2, <1>3, <1>4, <1>5, <1>6, <1>7, <1>8 DEF IInv, Basics

\* It is not found back.
LEMMA RollbackValidationFailsKeeps ==
  ASSUME IInv, RollbackValidationFails, MaxCommands \in Nat
  PROVE  IInv'
<1>1. TypeOK' /\ Ahead
  BY DirTypes, OwnPlaces DEF RollbackValidationFails, At, Goto, Running, Keep, GiveUp, Ahead,
     TypeOK, Steps, Ends,
     Unbuilt, Built, Unpublished
<1>2. Basics'
  BY <1>1, QuietBasics DEF RollbackValidationFails
<1>3. Phases'
  BY DEF IInv, RollbackValidationFails, At, Goto, Running, Keep, GiveUp,
     Phases, Installed, Aside, Steps, Unbuilt, Verdict
<1>4. Leftovers'
  BY DEF IInv, RollbackValidationFails, At, Goto, Running, Keep, GiveUp,
     Phases, Leftovers, Installed, Aside, Steps, Unbuilt, Verdict, Staging, BackupPlace
<1>5. OldTree'
  BY DEF IInv, RollbackValidationFails, At, Goto, Running, Keep, GiveUp,
     Phases, OldTree, Installed, Aside, Steps, BackupPlace, Forward
<1>6. NewTree'
  BY DEF IInv, RollbackValidationFails, At, Goto, Running, Keep, GiveUp,
     Phases, NewTree, Installed, Staging, Steps, Built, Own
<1>7. RolledBack'
  BY DEF IInv, RollbackValidationFails, At, Goto, Running, Keep, GiveUp,
     RolledBack, Installed, AsBefore
<1>8. ReportIsTrue'
  BY DEF IInv, RollbackValidationFails, At, Goto, Running, Keep, GiveUp,
     Phases, ReportIsTrue, RolledBackIsDurable, NothingForgotten, Steps
<1> QED
  BY <1>1, <1>2, <1>3, <1>4, <1>5, <1>6, <1>7, <1>8 DEF IInv, Basics

\* The parent cannot be synced.
LEMMA RollbackSyncFailsKeeps ==
  ASSUME IInv, RollbackSyncFails, MaxCommands \in Nat
  PROVE  IInv'
<1>1. TypeOK' /\ Ahead
  BY DirTypes, OwnPlaces DEF RollbackSyncFails, At, Goto, Running, Keep, GiveUp, Ahead, TypeOK,
     Steps, Ends,
     Unbuilt, Built, Unpublished
<1>2. Basics'
  BY <1>1, QuietBasics DEF RollbackSyncFails
<1>3. Phases'
  BY DEF IInv, RollbackSyncFails, At, Goto, Running, Keep, GiveUp,
     Phases, Installed, Aside, Steps, Unbuilt, Verdict
<1>4. Leftovers'
  BY DEF IInv, RollbackSyncFails, At, Goto, Running, Keep, GiveUp,
     Phases, Leftovers, Installed, Aside, Steps, Unbuilt, Verdict, Staging, BackupPlace
<1>5. OldTree'
  BY DEF IInv, RollbackSyncFails, At, Goto, Running, Keep, GiveUp,
     Phases, OldTree, Installed, Aside, Steps, BackupPlace, Forward
<1>6. NewTree'
  BY DEF IInv, RollbackSyncFails, At, Goto, Running, Keep, GiveUp,
     Phases, NewTree, Installed, Staging, Steps, Built, Own
<1>7. RolledBack'
  BY DEF IInv, RollbackSyncFails, At, Goto, Running, Keep, GiveUp,
     RolledBack, Installed, AsBefore
<1>8. ReportIsTrue'
  BY DEF IInv, RollbackSyncFails, At, Goto, Running, Keep, GiveUp,
     Phases, ReportIsTrue, RolledBackIsDurable, NothingForgotten, Steps
<1> QED
  BY <1>1, <1>2, <1>3, <1>4, <1>5, <1>6, <1>7, <1>8 DEF IInv, Basics

\* The command reports the end of its rollback.
LEMMA ReportKeeps ==
  ASSUME IInv, Report, MaxCommands \in Nat
  PROVE  IInv'
<1>1. TypeOK' /\ Ahead
  BY DirTypes, OwnPlaces DEF Report, At, Goto, Running, Keep, Ahead, TypeOK, Steps, Ends,
     Unbuilt, Built, Unpublished
<1>2. Basics'
  BY <1>1, QuietBasics DEF Report
<1>3. Phases'
  BY DEF IInv, Report, At, Goto, Running, Keep,
     Phases, Installed, Aside, Steps, Unbuilt, Verdict
<1>4. Leftovers'
  BY DEF IInv, Report, At, Goto, Running, Keep,
     Phases, Leftovers, Installed, Aside, Steps, Unbuilt, Verdict, Staging, BackupPlace
<1>5. OldTree'
  BY DEF IInv, Report, At, Goto, Running, Keep,
     Phases, OldTree, Installed, Aside, Steps, BackupPlace, Forward
<1>6. NewTree'
  BY DEF IInv, Report, At, Goto, Running, Keep,
     Phases, NewTree, Installed, Staging, Steps, Built, Own
<1>7. RolledBack'
  BY DEF IInv, Report, At, Goto, Running, Keep,
     RolledBack, Installed, AsBefore
<1>8. ReportIsTrue'
  <2>1. pc' = "failed" /\ dir' = dir /\ onDisk' = onDisk /\ before' = before /\ command' = command
        /\ previous' = previous /\ Staging' = Staging /\ BackupPlace' = BackupPlace
    BY DEF Report, Goto, Keep, Running, Staging, BackupPlace
  <2>2. state' = "RolledBack" => restored
    BY DEF IInv, Report, At, Phases, Steps
  <2>3. restored => ~Aside /\ \A d \in onDisk : AsBefore(d)
    BY DEF IInv, Report, At, Phases, Verdict, RolledBack
  <2>4. restored /\ dir[BackupPlace] # Nothing => dir[BackupPlace] = before[BackupPlace]
    BY <2>3 DEF IInv, Report, At, Leftovers
  <2>5. RolledBackIsDurable'
    BY <2>1, <2>2, <2>3, <2>4 DEF RolledBackIsDurable, AsBefore, Installed
  <2>6. \A d \in Hidden : dir[d] # Nothing /\ dir[d] # before[d] => d \in reported'
    BY Leaves DEF Report, At
  <2> QED
    BY <2>1, <2>5, <2>6 DEF ReportIsTrue, NothingForgotten
<1> QED
  BY <1>1, <1>2, <1>3, <1>4, <1>5, <1>6, <1>7, <1>8 DEF IInv, Basics

\* The process is killed.
LEMMA KillKeeps ==
  ASSUME IInv, Kill, MaxCommands \in Nat
  PROVE  IInv'
<1>1. TypeOK' /\ Ahead
  BY DirTypes, OwnPlaces DEF Kill, At, Goto, Running, Keep, Continue, Ahead, TypeOK, Steps, Ends,
     Unbuilt, Built, Unpublished
<1>2. Basics'
  BY <1>1, QuietBasics DEF Kill
<1>3. Phases'
  BY DEF IInv, Kill, At, Goto, Running, Keep, Continue,
     Phases, Installed, Aside, Steps, Unbuilt, Verdict
<1>4. Leftovers'
  BY DEF IInv, Kill, At, Goto, Running, Keep, Continue,
     Phases, Leftovers, Installed, Aside, Steps, Unbuilt, Verdict, Staging, BackupPlace
<1>5. OldTree'
  BY DEF IInv, Kill, At, Goto, Running, Keep, Continue,
     Phases, OldTree, Installed, Aside, Steps, BackupPlace, Forward
<1>6. NewTree'
  BY DEF IInv, Kill, At, Goto, Running, Keep, Continue,
     Phases, NewTree, Installed, Staging, Steps, Built, Own
<1>7. RolledBack'
  BY DEF IInv, Kill, At, Goto, Running, Keep, Continue,
     RolledBack, Installed, AsBefore
<1>8. ReportIsTrue'
  BY DEF IInv, Kill, At, Goto, Running, Keep, Continue,
     Phases, ReportIsTrue, RolledBackIsDurable, NothingForgotten, Steps
<1> QED
  BY <1>1, <1>2, <1>3, <1>4, <1>5, <1>6, <1>7, <1>8 DEF IInv, Basics

-----------------------------------------------------------------------------
(* The steps that sync the parent. *)
\* The old tree is away.
LEMMA BackupSyncKeeps ==
  ASSUME IInv, BackupSync, MaxCommands \in Nat
  PROVE  IInv'
<1>1. TypeOK' /\ Ahead
  BY DirTypes DEF BackupSync, At, Goto, Running, Sync, Continue, Ahead, TypeOK, Steps, Ends,
     Unbuilt, Built, Unpublished
<1>2. Basics'
  BY <1>1, SyncBasics DEF BackupSync
<1>3. Phases'
  BY DEF IInv, BackupSync, At, Goto, Running, Continue, Phases, Installed, Aside, Steps, Unbuilt,
     Verdict
<1>4. Leftovers'
  BY DEF IInv, BackupSync, At, Goto, Running, Sync, Continue, Leftovers, Installed, Aside, Steps,
     Staging, BackupPlace
<1>5. OldTree'
  BY DEF IInv, BackupSync, At, Goto, Running, Sync, Continue, OldTree, Installed, Aside, Steps,
     BackupPlace, Forward
<1>6. NewTree'
  BY DEF IInv, BackupSync, At, Goto, Running, Sync, Continue, NewTree, Phases, Installed, Staging,
     Steps, Built, Own
<1>7. RolledBack' /\ ReportIsTrue'
  BY DEF IInv, BackupSync, At, Goto, Running, Continue, Phases, RolledBack, ReportIsTrue,
     RolledBackIsDurable, NothingForgotten
<1> QED
  BY <1>1, <1>2, <1>3, <1>4, <1>5, <1>6, <1>7 DEF IInv, Basics

\* A command that has the new tree in place, has no more to name.
LEMMA DoneIsTrue ==
  ASSUME IInv, pc \in Steps, state = "Published", ~Installed \/ dir'[BackupPlace] = Nothing,
         \A p \in Places : p # BackupPlace => dir'[p] = dir[p],
         \A d \in onDisk' : Own(d[Destination]) /\ d \in [Places -> Trees],
         pc' = "done", state' = "Committed", Running,
         ~Installed => dir' = dir
  PROVE  ReportIsTrue'
<1>1. Own(dir[Destination]) /\ dir[Staging] = Nothing
  BY DEF IInv, NewTree
<1>2. /\ dir'[Destination] = dir[Destination] /\ before' = before
      /\ command' = command /\ dir'[Staging] = Nothing
  BY <1>1, OwnPlaces, DirTypes, PlaceNames DEF Running
<1>3. ASSUME NEW d \in Hidden, dir'[d] # Nothing
      PROVE  dir'[d] = before[d]
  <2>1. d \in Places /\ d # Staging
    BY <1>2, <1>3, PlaceNames
  <2>2. CASE d = BackupPlace
    BY <1>3, <2>1, <2>2, Leaves DEF Aside, Steps
  <2>3. CASE d # BackupPlace
    BY <1>3, <2>1, <2>3, Leaves DEF Steps
  <2> QED
    BY <2>2, <2>3
<1>4. IsTree(dir'[Destination], [by |-> command'.number])
  BY <1>1, <1>2 DEF IsTree, Own, Whole
<1>5. \A d \in {dir'} \cup {AfterPowerFailure(e) : e \in onDisk'} : Whole(d[Destination])
  <2>1. Whole(dir'[Destination])
    BY <1>1, <1>2 DEF Own
  <2>2. ASSUME NEW e \in onDisk' PROVE Whole(AfterPowerFailure(e)[Destination])
    BY <2>2, PlaceNames DEF AfterPowerFailure, Own, Whole
  <2> QED
    BY <2>1, <2>2
<1>6. Safe'
  BY <1>5, PlaceNames DEF Safe, Whole
<1> QED
  BY <1>2, <1>3, <1>4, <1>6 DEF ReportIsTrue, RolledBackIsDurable, NothingForgotten

\* The new tree is there to stay.
LEMMA PublishSyncKeeps ==
  ASSUME IInv, PublishSync, MaxCommands \in Nat
  PROVE  IInv'
<1>1. /\ pc = "PublishSync" /\ dir' = dir /\ onDisk' = {dir} /\ restored' = restored
      /\ previous' = previous /\ reported' = reported /\ Running
      /\ IF Installed THEN pc' = "BackupCleanup" /\ state' = state
                      ELSE pc' = "done" /\ state' = "Committed"
  BY DEF PublishSync, At, Goto, Sync, Continue, Become, Running, Installed
<1>2. TypeOK' /\ Ahead
  BY <1>1, DirTypes DEF Ahead, TypeOK, Running, Steps, Ends, Unbuilt, Built, Unpublished
<1>3. Basics'
  BY <1>2, SyncBasics DEF PublishSync
<1>4. state = "Published" /\ Own(dir[Destination]) /\ dir[Staging] = Nothing
  BY <1>1 DEF IInv, Phases, NewTree, Steps
<1>5. Phases'
  BY <1>1, <1>4 DEF Phases, Installed, Aside, Steps, Unbuilt, Verdict
<1>6. Leftovers'
  BY <1>1, <1>4 DEF IInv, Leftovers, Installed, Aside, Steps, Staging, BackupPlace, Running
<1>7. OldTree'
  BY <1>1, <1>4 DEF IInv, OldTree, Installed, Aside, Steps, BackupPlace, Forward, Running, IsTree
<1>8. NewTree'
  BY <1>1, <1>4 DEF NewTree, Installed, Staging, Steps, Built, Own, Running
<1>9. RolledBack'
  BY <1>1 DEF RolledBack
<1>10. ReportIsTrue'
  <2>1. CASE Installed
    BY <1>1, <1>4, <2>1 DEF ReportIsTrue, RolledBackIsDurable, NothingForgotten
  <2>2. CASE ~Installed
    BY <1>1, <1>4, <2>2, DirTypes, DoneIsTrue DEF Steps
  <2> QED
    BY <2>1, <2>2
<1> QED
  BY <1>2, <1>3, <1>5, <1>6, <1>7, <1>8, <1>9, <1>10 DEF IInv, Basics

\* The old tree is back to stay.
LEMMA RollbackSyncKeeps ==
  ASSUME IInv, RollbackSync, MaxCommands \in Nat
  PROVE  IInv'
<1>1. TypeOK' /\ Ahead
  BY DirTypes DEF RollbackSync, At, Goto, Running, Sync, Continue, Ahead, TypeOK, Steps, Ends,
     Unbuilt, Built, Unpublished
<1>2. Basics'
  BY <1>1, SyncBasics DEF RollbackSync
<1>3. Phases'
  BY DEF IInv, RollbackSync, At, Goto, Running, Continue, Phases, Installed, Aside, Steps,
     Unbuilt,
     Verdict
<1>4. Leftovers'
  BY DEF IInv, RollbackSync, At, Goto, Running, Sync, Continue, Leftovers, Installed, Aside,
     Steps,
     Staging, BackupPlace
<1>5. OldTree'
  BY DEF IInv, RollbackSync, At, Goto, Running, Sync, Continue, OldTree, Installed, Aside, Steps,
     BackupPlace, Forward
<1>6. NewTree'
  BY DEF IInv, RollbackSync, At, Goto, Running, Sync, Continue, NewTree, Installed, Staging,
     Steps,
     Built, Own
<1>7. RolledBack'
  BY DEF IInv, RollbackSync, At, Goto, Running, Sync, Continue, RolledBack, AsBefore, Installed
<1>8. ReportIsTrue'
  BY DEF IInv, RollbackSync, At, Goto, Running, Continue, Phases, Steps, ReportIsTrue,
     RolledBackIsDurable, NothingForgotten
<1> QED
  BY <1>1, <1>2, <1>3, <1>4, <1>5, <1>6, <1>7, <1>8 DEF IInv, Basics

-----------------------------------------------------------------------------
(* The steps in the staging directory. *)
\* What they leave alone.
LEMMA StagingOnly ==
  ASSUME IInv, NEW e, NEW t \in Trees, e = [dir EXCEPT ![Staging] = t], Change(e)
  PROVE  /\ dir' = e /\ e \in [Places -> Trees] /\ onDisk' = onDisk \cup {e} /\ e[Staging] = t
         /\ \A p \in Places : p # Staging => e[p] = dir[p]
         /\ e[Destination] = dir[Destination] /\ e[BackupPlace] = dir[BackupPlace]
         /\ \A b \in Backups : e[b] = dir[b]
BY DirTypes, OwnPlaces, PlaceNames DEF Change

\* The staging directory is made.
LEMMA CreateStagingKeeps ==
  ASSUME IInv, CreateStaging, MaxCommands \in Nat
  PROVE  IInv'
<1>1. PICK e : e = [dir EXCEPT ![Staging] = Part]
  OBVIOUS
<1>2. /\ pc = "CreateStaging" /\ pc' = "Write" /\ dir[Staging] = Nothing /\ Change(e)
      /\ previous' = previous /\ state' = state /\ restored' = restored /\ reported' = reported
      /\ command' = command /\ before' = before /\ touched' = touched
      /\ Staging' = Staging /\ BackupPlace' = BackupPlace
  BY <1>1 DEF CreateStaging, At, Goto, Continue, Running, Staging, BackupPlace
<1>3. /\ dir' = e /\ e \in [Places -> Trees] /\ onDisk' = onDisk \cup {e} /\ e[Staging] = Part
      /\ \A p \in Places : p # Staging => e[p] = dir[p]
      /\ e[Destination] = dir[Destination] /\ e[BackupPlace] = dir[BackupPlace]
  BY <1>1, <1>2, TreeNames, StagingOnly
<1>4. TypeOK' /\ Ahead
  BY <1>2, <1>3, DirTypes DEF Ahead, TypeOK, Steps, Unbuilt, Unpublished
<1>5. Basics'
  <2>1. Sound(e, pc, command.number)
    BY <1>1, DirTypes, OwnPlaces, SoundLoss
  <2> QED
    BY <1>1, <1>2, <1>4, <2>1, TreeNames, StagingBasics
<1>6. state = "Prepared"
  BY <1>2 DEF IInv, Phases, Unbuilt
<1>7. Phases'
  BY <1>2, <1>6 DEF Phases, Installed, Aside, Steps, Unbuilt, Verdict
<1>8. Leftovers'
  <2>1. before[Staging] = Nothing
    BY <1>2 DEF IInv, Leftovers
  <2>2. \A d \in Hidden : d # Staging => e[d] = dir[d]
    BY <1>3, PlaceNames
  <2> QED
    BY <1>2, <1>3, <1>6, <2>1, <2>2 DEF IInv, Leftovers, Aside
<1>9. OldTree'
  BY <1>2, <1>3, <1>6 DEF IInv, OldTree, Installed, Aside, Steps, Forward
<1>10. NewTree' /\ RolledBack' /\ ReportIsTrue'
  BY <1>2, <1>6 DEF NewTree, Built, RolledBack, ReportIsTrue, RolledBackIsDurable,
     NothingForgotten
<1> QED
  BY <1>4, <1>5, <1>7, <1>8, <1>9, <1>10 DEF IInv, Basics

\* Nothing that was found is touched by them.
LEMMA StagingLeftovers ==
  ASSUME IInv, NEW e, NEW t \in Trees, e = [dir EXCEPT ![Staging] = t], Change(e), Ahead,
         pc \in Steps \ {"Look", "CreateStaging"}, pc' \notin {"Look", "CreateStaging"},
         before' = before, previous' = previous, state' = state
  PROVE  Leftovers'
<1>1. Staging' = Staging /\ BackupPlace' = BackupPlace /\ before[Staging] = Nothing
  BY DEF IInv, Leftovers, Staging, BackupPlace, Ahead, Steps
<1>2. dir' = e /\ e[BackupPlace] = dir[BackupPlace]
      /\ \A d \in Hidden : d # Staging => e[d] = dir[d]
  BY StagingOnly, PlaceNames
<1>3. pc # "crashed" /\ Aside' = Aside
  BY DEF Steps, Aside, Installed
<1> QED
  BY <1>1, <1>2, <1>3 DEF IInv, Leftovers, Ahead

\* The old tree neither.
LEMMA StagingOldTree ==
  ASSUME IInv, NEW e, NEW t \in Trees, e = [dir EXCEPT ![Staging] = t], Change(e),
         command' = command, previous' = previous, state' = state, restored' = restored,
         pc \in Steps \ {"Look"}, pc' \notin Forward \cup {"RollbackPublished", "Restore"}
  PROVE  OldTree'
<1>1. dir' = e /\ e[BackupPlace] = dir[BackupPlace] /\ e[Destination] = dir[Destination]
  BY StagingOnly
<1>2. BackupPlace' = BackupPlace
  BY DEF BackupPlace
<1> QED
  BY <1>1, <1>2 DEF IInv, OldTree, Installed, Aside, Forward

\* The new tree is written.
LEMMA WriteKeeps ==
  ASSUME IInv, Write, MaxCommands \in Nat
  PROVE  IInv'
<1>1. PICK t : t = [is |-> "written", graph |-> command.graph, by |-> command.number]
  OBVIOUS
<1>2. PICK e : e = [dir EXCEPT ![Staging] = t]
  OBVIOUS
<1>3. /\ pc = "Write" /\ pc' = "SyncTree" /\ Change(e)
      /\ previous' = previous /\ state' = state /\ restored' = restored /\ reported' = reported
      /\ command' = command /\ before' = before /\ touched' = touched /\ Staging' = Staging
  BY <1>1, <1>2 DEF Write, At, Goto, Continue, Running, Staging
<1>4. t \in Trees /\ IsVendored(t) /\ t # Foreign /\ t.is = "written" /\ t.by = command.number
  BY <1>1, DirTypes, TreeMade, TreeNames
<1>5. /\ dir' = e /\ e \in [Places -> Trees] /\ onDisk' = onDisk \cup {e} /\ e[Staging] = t
      /\ \A p \in Places : p # Staging => e[p] = dir[p]
  BY <1>2, <1>3, <1>4, StagingOnly
<1>6. TypeOK' /\ Ahead
  BY <1>3, <1>5, DirTypes DEF Ahead, TypeOK, Steps, Unbuilt, Unpublished
<1>7. Basics'
  <2>1. \A p \in Places : p # Staging /\ IsVendored(e[p]) =>
          e[p].by \in 0 .. MaxCommands /\ e[p].by < command.number
    BY <1>3, <1>5, DirTypes, TreeKinds, TreeNames DEF Sound, Unbuilt
  <2>2. \A p \in Places : p # Staging /\ IsVendored(e[p]) => e[p].by # command.number
    BY <2>1, DirTypes
  <2>3. /\ \A p \in Kept : e[p].is # "written"
        /\ \A h \in Hidden : e[h] # Foreign
    BY <1>4, <1>5, DirTypes, OwnPlaces, PlaceNames DEF Sound
  <2>4. \A p, q \in Places : IsVendored(e[p]) /\ IsVendored(e[q]) /\ e[p].by = e[q].by => p = q
    BY <1>4, <1>5, <2>2, DirTypes DEF Sound
  <2>5. \A p \in Places : IsVendored(e[p]) =>
          e[p].by <= command.number
          /\ (p \in Kept \/ e[p].is = "edited" => e[p].by < command.number)
    BY <1>4, <1>5, <2>1, DirTypes, OwnPlaces
  <2>6. Sound(e, pc', command.number)
    BY <1>3, <2>3, <2>4, <2>5 DEF Sound, Unbuilt
  <2> QED
    BY <1>2, <1>3, <1>4, <1>6, <2>6, StagingBasics
<1>8. state = "Prepared"
  BY <1>3 DEF IInv, Phases, Unbuilt
<1>9. Phases'
  BY <1>3, <1>8 DEF Phases, Installed, Aside, Steps, Unbuilt, Verdict
<1>10. Leftovers'
  BY <1>2, <1>3, <1>4, <1>6, StagingLeftovers DEF Steps
<1>11. OldTree'
  BY <1>2, <1>3, <1>4, StagingOldTree DEF Steps, Forward
<1>12. NewTree'
  BY <1>1, <1>3, <1>5, <1>8 DEF NewTree, Built
<1>13. RolledBack' /\ ReportIsTrue'
  BY <1>3, <1>8 DEF RolledBack, ReportIsTrue, RolledBackIsDurable, NothingForgotten
<1> QED
  BY <1>6, <1>7, <1>9, <1>10, <1>11, <1>12, <1>13 DEF IInv, Basics

\* It is synced.
LEMMA SyncTreeKeeps ==
  ASSUME IInv, SyncTree, MaxCommands \in Nat
  PROVE  IInv'
<1>1. PICK t : t = [is |-> "synced", graph |-> command.graph, by |-> command.number]
  OBVIOUS
<1>2. PICK e : e = [dir EXCEPT ![Staging] = t]
  OBVIOUS
<1>3. /\ pc = "SyncTree" /\ pc' = "StagingValidation"
      /\ previous' = previous /\ state' = state /\ restored' = restored /\ reported' = reported
      /\ command' = command /\ before' = before /\ touched' = touched /\ Staging' = Staging
  BY DEF SyncTree, At, Goto, Continue, Running, Staging
<1>4. t \in Trees /\ IsVendored(t) /\ t # Foreign /\ t.is = "synced" /\ t.by = command.number
  BY <1>1, DirTypes, TreeMade, TreeNames
<1>5. dir[Staging] = [is |-> "written", graph |-> command.graph, by |-> command.number]
  BY <1>3 DEF IInv, NewTree
<1>6. Change(e)
  <2>1. [dir[Staging] EXCEPT !.is = "synced"] = t
    BY <1>1, <1>5
  <2>2. e = [dir EXCEPT ![Staging].is = "synced"]
    BY <1>2, <2>1
  <2> QED
    BY <2>2 DEF SyncTree
<1>7. /\ dir' = e /\ e \in [Places -> Trees] /\ onDisk' = onDisk \cup {e} /\ e[Staging] = t
      /\ \A p \in Places : p # Staging => e[p] = dir[p]
  BY <1>2, <1>4, <1>6, StagingOnly
<1>8. TypeOK' /\ Ahead
  BY <1>3, <1>7, DirTypes DEF Ahead, TypeOK, Steps, Unbuilt, Unpublished
<1>9. Basics'
  <2>1. IsVendored(dir[Staging]) /\ dir[Staging].by = t.by
    BY <1>4, <1>5 DEF IsVendored
  <2>2. /\ \A p \in Kept : e[p].is # "written"
        /\ \A h \in Hidden : e[h] # Foreign
    BY <1>4, <1>7, DirTypes, OwnPlaces, PlaceNames DEF Sound
  <2>3. \A p \in Places : IsVendored(e[p]) => IsVendored(dir[p]) /\ dir[p].by = e[p].by
    BY <1>7, <2>1
  <2>4. \A p, q \in Places : IsVendored(e[p]) /\ IsVendored(e[q]) /\ e[p].by = e[q].by => p = q
    BY <2>3, DirTypes DEF Sound
  <2>5. \A p \in Places : IsVendored(e[p]) =>
          e[p].by <= command.number
          /\ (p \in Kept \/ e[p].is = "edited" => e[p].by < command.number)
    BY <1>3, <1>4, <1>7, <2>3, DirTypes, OwnPlaces DEF Sound, Unpublished
  <2>6. Sound(e, pc, command.number)
    BY <1>3, <2>2, <2>4, <2>5 DEF Sound, Unbuilt
  <2> QED
    BY <1>2, <1>4, <1>6, <1>8, <2>6, StagingBasics
<1>10. state = "Prepared"
  BY <1>3 DEF IInv, Phases
<1>11. Phases'
  BY <1>3, <1>10 DEF Phases, Installed, Aside, Steps, Unbuilt, Verdict
<1>12. Leftovers'
  BY <1>2, <1>3, <1>4, <1>6, <1>8, StagingLeftovers DEF Steps
<1>13. OldTree'
  BY <1>2, <1>3, <1>4, <1>6, StagingOldTree DEF Steps, Forward
<1>14. NewTree'
  BY <1>1, <1>3, <1>7, <1>10 DEF NewTree, Built
<1>15. RolledBack' /\ ReportIsTrue'
  BY <1>3, <1>10 DEF RolledBack, ReportIsTrue, RolledBackIsDurable, NothingForgotten
<1> QED
  BY <1>8, <1>9, <1>11, <1>12, <1>13, <1>14, <1>15 DEF IInv, Basics

\* The staging directory is deleted, or loses files.
LEMMA StagingLoss ==
  ASSUME IInv, NEW e, NEW t \in {Nothing, Part}, e = [dir EXCEPT ![Staging] = t], Change(e),
         pc \in {"BuildFailure", "RollbackCleanup"}, pc' \in {"failed", "Report"},
         pc' = "Report" => pc = "RollbackCleanup" /\ restored,
         command' = command, before' = before, touched' = touched, previous' = previous,
         state' = state, restored' = restored, reported' \subseteq Hidden
  PROVE  /\ TypeOK' /\ Basics' /\ Phases' /\ Leftovers' /\ OldTree' /\ NewTree'
         /\ t \in Trees /\ dir' = e
<1>1. t \in Trees /\ t # Foreign /\ t.is # "edited" /\ t.is # "written"
  BY TreeNames
<1>2. dir' = e /\ e \in [Places -> Trees] /\ onDisk' = onDisk \cup {e}
  BY <1>1, StagingOnly
<1>3. TypeOK' /\ Ahead
  BY <1>2, DirTypes DEF Ahead, TypeOK, Steps, Ends, Unbuilt, Unpublished, Built
<1>4. Sound(e, pc, command.number)
  BY DirTypes, OwnPlaces, SoundLoss
<1>5. Basics'
  BY <1>1, <1>3, <1>4, StagingBasics
<1>6. Phases'
  BY DEF IInv, Phases, Installed, Aside, Steps, Unbuilt, Verdict
<1>7. Leftovers'
  BY <1>1, <1>3, StagingLeftovers DEF Steps
<1>8. OldTree'
  BY <1>1, StagingOldTree DEF Steps, Forward
<1>9. NewTree'
  <2>1. pc' \in Steps => state' # "Published"
    BY DEF IInv, Phases, Verdict, Steps
  <2> QED
    BY <2>1 DEF NewTree, Built
<1> QED
  BY <1>1, <1>2, <1>3, <1>5, <1>6, <1>7, <1>8, <1>9

\* The build has failed and left nothing.
LEMMA BuildFailureKeeps ==
  ASSUME IInv, BuildFailure, MaxCommands \in Nat
  PROVE  IInv'
<1>1. PICK e : e = [dir EXCEPT ![Staging] = Nothing]
  OBVIOUS
<1>2. /\ pc = "BuildFailure" /\ pc' = "failed" /\ Change(e) /\ reported' = {}
      /\ previous' = previous /\ state' = state /\ restored' = restored
      /\ command' = command /\ before' = before /\ touched' = touched
  BY <1>1 DEF BuildFailure, RemoveAll, At, Fail, Goto, Running
<1>3. /\ TypeOK' /\ Basics' /\ Phases' /\ Leftovers' /\ OldTree' /\ NewTree' /\ dir' = e
  BY <1>1, <1>2, StagingLoss
<1>4. RolledBack'
  BY <1>2 DEF RolledBack
<1>5. ReportIsTrue'
  <2>1. state = "Prepared"
    BY <1>2 DEF IInv, Phases
  <2>2. ASSUME NEW d \in Hidden PROVE e[d] = Nothing \/ e[d] = before[d]
    <3>1. d = Staging => e[d] = Nothing
      BY <1>1, DirTypes, OwnPlaces
    <3>2. d # Staging => e[d] = dir[d]
      BY <1>1, DirTypes, PlaceNames
    <3> QED
      BY <1>2, <2>1, <3>1, <3>2, Leaves DEF Aside
  <2> QED
    BY <1>2, <1>3, <2>1, <2>2 DEF ReportIsTrue, RolledBackIsDurable, NothingForgotten
<1> QED
  BY <1>3, <1>4, <1>5 DEF IInv, Basics

\* The build has failed and left a staging directory.
LEMMA BuildFailureFailsKeeps ==
  ASSUME IInv, BuildFailureFails, MaxCommands \in Nat
  PROVE  IInv'
<1>1. /\ pc = "BuildFailure" /\ pc' = "failed"
      /\ reported' = {d \in {Staging} : dir'[d] # Nothing}
      /\ previous' = previous /\ state' = state /\ restored' = restored
      /\ command' = command /\ before' = before /\ touched' = touched /\ Staging' = Staging
      /\ reported' \subseteq Hidden
  BY OwnPlaces, DirTypes DEF BuildFailureFails, At, Fail, Goto, Running, Staging
<1>2. PICK e : e = [dir EXCEPT ![Staging] = Part]
  OBVIOUS
<1>3. /\ TypeOK' /\ Basics' /\ Phases' /\ Leftovers' /\ OldTree' /\ NewTree'
      /\ \A d \in Hidden : d # Staging => dir'[d] = dir[d]
  <2>1. CASE Change(e)
    <3>1. TypeOK' /\ Basics' /\ Phases' /\ Leftovers' /\ OldTree' /\ NewTree' /\ dir' = e
      BY <1>1, <1>2, <2>1, StagingLoss
    <3> QED
      BY <1>2, <3>1, DirTypes, PlaceNames
  <2>2. CASE Keep
    <3>1. TypeOK' /\ Ahead
      BY <1>1, <2>2, DirTypes DEF Keep, Ahead, TypeOK, Steps, Ends, Unbuilt, Built, Unpublished
    <3>2. Phases' /\ Leftovers'
      BY <1>1, <2>2 DEF IInv, Keep, Phases, Leftovers, Installed, Aside, Steps, Unbuilt, Verdict,
         BackupPlace
    <3>3. OldTree' /\ NewTree'
      BY <1>1, <2>2 DEF IInv, Keep, OldTree, NewTree, Installed, Aside, Steps, Forward, Built,
         BackupPlace
    <3> QED
      BY <2>2, <3>1, <3>2, <3>3, QuietBasics DEF Keep
  <2> QED
    BY <1>2, <2>1, <2>2 DEF BuildFailureFails, RemoveFails
<1>4. RolledBack'
  BY <1>1 DEF RolledBack
<1>5. ReportIsTrue'
  <2>1. state = "Prepared"
    BY <1>1 DEF IInv, Phases
  <2>2. ASSUME NEW d \in Hidden, dir'[d] # Nothing, dir'[d] # before[d] PROVE d \in reported'
    BY <1>1, <1>3, <2>1, <2>2, Leaves DEF Aside
  <2> QED
    BY <1>1, <2>1, <2>2 DEF ReportIsTrue, RolledBackIsDurable, NothingForgotten
<1> QED
  BY <1>3, <1>4, <1>5 DEF IInv, Basics

\* The withdrawn tree is deleted once the old one is back, or not quite.
LEMMA RollbackCleanupKeeps ==
  ASSUME IInv, RollbackCleanup \/ RollbackCleanupFails, MaxCommands \in Nat
  PROVE  IInv'
<1>1. /\ pc = "RollbackCleanup" /\ pc' = "Report" /\ reported' = reported
      /\ previous' = previous /\ state' = state /\ restored' = restored
      /\ command' = command /\ before' = before /\ touched' = touched
  BY DEF RollbackCleanup, RollbackCleanupFails, At, Continue, Goto, Running
<1>2. CASE Keep
  <2>1. TypeOK' /\ Ahead
    BY <1>1, <1>2, DirTypes DEF Keep, Ahead, TypeOK, Steps, Ends, Unbuilt, Built, Unpublished
  <2>2. Basics'
    BY <1>2, <2>1, QuietBasics
  <2>3. Phases' /\ Leftovers'
    BY <1>1, <1>2 DEF IInv, Keep, Phases, Leftovers, Installed, Aside, Steps, Unbuilt, Verdict,
       BackupPlace, Staging
  <2>4. OldTree' /\ NewTree'
    BY <1>1, <1>2 DEF IInv, Keep, OldTree, NewTree, Installed, Aside, Steps, Forward, Built,
       BackupPlace, Staging, Own
  <2>5. RolledBack' /\ ReportIsTrue'
    BY <1>1, <1>2 DEF IInv, Keep, Phases, Steps, RolledBack, AsBefore, Installed, ReportIsTrue,
       RolledBackIsDurable, NothingForgotten
  <2> QED
    BY <2>1, <2>2, <2>3, <2>4, <2>5 DEF IInv, Basics
<1>3. ASSUME NEW t \in {Nothing, Part}, NEW e, e = [dir EXCEPT ![Staging] = t], Change(e),
             restored
      PROVE  IInv'
  <2>1. reported' \subseteq Hidden
    BY <1>1, DirTypes DEF TypeOK
  <2>2. /\ TypeOK' /\ Basics' /\ Phases' /\ Leftovers' /\ OldTree' /\ NewTree' /\ t \in Trees
        /\ dir' = e
    BY <1>1, <1>3, <2>1, StagingLoss
  <2>3. onDisk' = onDisk \cup {e} /\ e[Destination] = dir[Destination]
    BY <1>3, <2>2, StagingOnly
  <2>4. \A d \in onDisk : AsBefore(d)
    BY <1>1, <1>3 DEF IInv, RolledBack
  <2>5. AsBefore(e)
    BY <2>3, <2>4, DirTypes DEF AsBefore
  <2>6. RolledBack'
    BY <1>1, <2>3, <2>4, <2>5 DEF RolledBack, AsBefore, Installed
  <2>7. ReportIsTrue'
    BY <1>1 DEF IInv, Phases, Steps, ReportIsTrue, RolledBackIsDurable, NothingForgotten
  <2> QED
    BY <2>2, <2>6, <2>7 DEF IInv, Basics
<1> QED
  BY <1>2, <1>3 DEF RollbackCleanup, RollbackCleanupFails, RemoveAll, RemoveFails, Cleans

-----------------------------------------------------------------------------
(* The steps that move trees. *)
\* What a move leaves alone.
LEMMA MovedOnly ==
  ASSUME IInv, NEW from \in Places, NEW to \in Places, from # to, Rename(from, to)
  PROVE  /\ dir' \in [Places -> Trees] /\ onDisk' = onDisk \cup {dir'}
         /\ dir[from] # Nothing /\ dir[to] = Nothing
         /\ dir'[to] = dir[from] /\ dir'[from] = Nothing
         /\ \A p \in Places : p # from /\ p # to => dir'[p] = dir[p]
BY DirTypes, TreeNames DEF Rename, Change

\* The old tree is moved aside.
LEMMA BackupKeeps ==
  ASSUME IInv, Backup, MaxCommands \in Nat
  PROVE  IInv'
<1>1. /\ pc = "Backup" /\ pc' = "BackupValidation" /\ Rename(Destination, BackupPlace)
      /\ state' = "BackupReady"
      /\ previous' = previous /\ restored' = restored /\ reported' = reported
      /\ command' = command /\ before' = before /\ touched' = touched
      /\ Staging' = Staging /\ BackupPlace' = BackupPlace
  BY DEF Backup, At, Goto, Become, Running, Staging, BackupPlace
<1>2. state = "Prepared" /\ Installed /\ IsTree(dir[Destination], previous)
  BY <1>1 DEF IInv, Phases, OldTree, Steps
<1>3. /\ dir' \in [Places -> Trees] /\ onDisk' = onDisk \cup {dir'}
      /\ dir[BackupPlace] = Nothing
      /\ dir'[BackupPlace] = dir[Destination]
      /\ \A p \in Places : p # Destination /\ p # BackupPlace => dir'[p] = dir[p]
  BY <1>1, DirTypes, OwnPlaces, PlaceNames, MovedOnly
<1>4. TypeOK' /\ Ahead
  BY <1>1, <1>3, DirTypes DEF Ahead, TypeOK, Steps, Unbuilt, Built, Unpublished
<1>5. Basics'
  <2>1. dir[Destination] # Foreign
    BY <1>2, TreeNames DEF IsTree
  <2> QED
    BY <1>1, <1>4, <2>1, DirTypes, OwnPlaces, PlaceNames, MoveBasics
<1>6. Phases'
  BY <1>1, <1>2 DEF Phases, Installed, Aside, Steps, Unbuilt, Verdict
<1>7. Leftovers'
  <2>1. before[BackupPlace] = Nothing /\ before[Staging] = Nothing
    BY <1>1, <1>2, <1>3, OwnPlaces, DirTypes DEF IInv, Leftovers, Aside, Steps
  <2>2. \A d \in Hidden \ {BackupPlace} : dir'[d] = dir[d]
    BY <1>3, PlaceNames
  <2>3. /\ \A d \in Hidden : before[d] # Nothing => dir[d] = before[d]
        /\ \A d \in Hidden \ {Staging, BackupPlace} : dir[d] = before[d]
    BY <1>1 DEF IInv, Leftovers
  <2> QED
    BY <1>1, <1>2, <2>1, <2>2, <2>3 DEF Leftovers, Aside, Installed
<1>8. OldTree'
  <2>1. dir[Destination].is # "part" /\ IsTree(dir'[BackupPlace], previous)
    BY <1>2, <1>3 DEF IsTree
  <2> QED
    BY <1>1, <1>2, <1>3, <2>1 DEF IInv, OldTree, Installed, Aside, Forward
<1>9. NewTree'
  BY <1>1, <1>3, OwnPlaces, DirTypes DEF IInv, NewTree, Built
<1>10. RolledBack' /\ ReportIsTrue'
  BY <1>1 DEF RolledBack, ReportIsTrue, RolledBackIsDurable, NothingForgotten
<1> QED
  BY <1>4, <1>5, <1>6, <1>7, <1>8, <1>9, <1>10 DEF IInv, Basics

\* The new tree is published.
LEMMA PublishKeeps ==
  ASSUME IInv, Publish, MaxCommands \in Nat
  PROVE  IInv'
<1>1. /\ pc = "Publish" /\ pc' = "PublishValidation" /\ Rename(Staging, Destination)
      /\ state' = "Published"
      /\ previous' = previous /\ restored' = restored /\ reported' = reported
      /\ command' = command /\ before' = before /\ touched' = touched
      /\ Staging' = Staging /\ BackupPlace' = BackupPlace
  BY DEF Publish, At, Goto, Become, Running, Staging, BackupPlace
<1>2. state = IF Installed THEN "BackupReady" ELSE "Prepared"
  BY <1>1 DEF IInv, Phases
<1>3. /\ dir' \in [Places -> Trees] /\ onDisk' = onDisk \cup {dir'}
      /\ dir[Destination] = Nothing
      /\ dir'[Destination] = dir[Staging] /\ dir'[Staging] = Nothing
      /\ \A p \in Places : p # Destination /\ p # Staging => dir'[p] = dir[p]
  BY <1>1, DirTypes, OwnPlaces, PlaceNames, MovedOnly
<1>4. TypeOK' /\ Ahead
  BY <1>1, <1>3, DirTypes DEF Ahead, TypeOK, Steps, Unbuilt, Built, Unpublished
<1>5. Basics'
  BY <1>1, <1>4, PublishBasics
<1>6. Phases'
  BY <1>1 DEF Phases, Installed, Aside, Steps, Unbuilt, Verdict
<1>7. dir'[BackupPlace] = dir[BackupPlace] /\ \A b \in Backups : dir'[b] = dir[b]
  BY <1>3, DirTypes, OwnPlaces, PlaceNames
<1>8. Leftovers'
  <2>1. before[Staging] = Nothing
    BY <1>1 DEF IInv, Leftovers, Steps
  <2>2. \A d \in Hidden \ {Staging} : dir'[d] = dir[d]
    BY <1>3, PlaceNames
  <2>3. /\ \A d \in Hidden : before[d] # Nothing => dir[d] = before[d]
        /\ \A d \in Hidden \ {Staging, BackupPlace} : dir[d] = before[d]
        /\ IF Installed THEN before[BackupPlace] = Nothing
                        ELSE dir[BackupPlace] \in {Nothing, before[BackupPlace]}
    BY <1>1, <1>2 DEF IInv, Leftovers, Aside, Steps
  <2> QED
    BY <1>1, <1>3, <1>7, <2>1, <2>2, <2>3 DEF Leftovers, Aside, Installed
<1>9. OldTree'
  BY <1>1, <1>2, <1>7 DEF IInv, OldTree, Installed, Aside, Forward, Steps
<1>10. NewTree'
  <2>1. Own(dir[Destination])'
    BY <1>1, <1>3 DEF IInv, NewTree, Built, Own, Whole
  <2>2. \E d \in onDisk' : d[Destination] = Nothing /\ \A b \in Backups : d[b] = dir'[b]
    BY <1>3, <1>7, DirTypes
  <2> QED
    BY <1>1, <1>3, <2>1, <2>2 DEF NewTree, Built, Own
<1>11. RolledBack' /\ ReportIsTrue'
  BY <1>1 DEF RolledBack, ReportIsTrue, RolledBackIsDurable, NothingForgotten
<1> QED
  BY <1>4, <1>5, <1>6, <1>8, <1>9, <1>10, <1>11 DEF IInv, Basics

\* The new tree is withdrawn.
LEMMA RollbackPublishedKeeps ==
  ASSUME IInv, RollbackPublished, MaxCommands \in Nat
  PROVE  IInv'
<1>1. /\ pc = "RollbackPublished" /\ pc' = "Restore"
      /\ previous' = previous /\ restored' = restored /\ reported' = reported
      /\ command' = command /\ before' = before /\ touched' = touched
      /\ Staging' = Staging /\ BackupPlace' = BackupPlace
  BY DEF RollbackPublished, At, Goto, Become, Continue, Running, Staging, BackupPlace
<1>2. RolledBack' /\ ReportIsTrue'
  BY <1>1 DEF IInv, RollbackPublished, Become, Continue, Phases, Steps, RolledBack, ReportIsTrue,
     RolledBackIsDurable, NothingForgotten
<1>3. CASE Withdraws
  <2>1. Rename(Destination, Staging) /\ state' = "BackupReady" /\ state = "Published" /\ restored
    BY <1>3 DEF RollbackPublished, Become, Withdraws
  <2>2. /\ dir' \in [Places -> Trees] /\ onDisk' = onDisk \cup {dir'}
        /\ \A p \in Places : p # Destination /\ p # Staging => dir'[p] = dir[p]
    BY <2>1, DirTypes, OwnPlaces, PlaceNames, MovedOnly
  <2>3. TypeOK' /\ Ahead
    BY <1>1, <2>1, <2>2, DirTypes DEF Ahead, TypeOK, Steps, Unbuilt, Built, Unpublished
  <2>4. Basics'
    BY <1>1, <2>1, <2>3, WithdrawBasics
  <2>5. Phases'
    BY <1>1, <2>1 DEF Phases, Installed, Aside, Steps, Unbuilt, Verdict
  <2>6. dir'[BackupPlace] = dir[BackupPlace]
    BY <2>2, DirTypes, OwnPlaces, PlaceNames
  <2>7. Leftovers'
    <3>1. before[Staging] = Nothing /\ (Aside' <=> Aside)
      BY <1>1, <2>1 DEF IInv, Leftovers, Steps, Aside, Installed
    <3>2. \A d \in Hidden \ {Staging} : dir'[d] = dir[d]
      BY <2>2, PlaceNames
    <3>3. /\ \A d \in Hidden : before[d] # Nothing => dir[d] = before[d]
          /\ \A d \in Hidden \ {Staging, BackupPlace} : dir[d] = before[d]
          /\ Aside => before[BackupPlace] = Nothing
          /\ ~Aside => dir[BackupPlace] \in {Nothing, before[BackupPlace]}
      BY <1>1 DEF IInv, Leftovers, Steps
    <3> QED
      BY <1>1, <2>6, <3>1, <3>2, <3>3 DEF Leftovers
  <2>8. OldTree'
    BY <1>1, <2>1, <2>6 DEF IInv, OldTree, Installed, Aside, Forward, Steps
  <2>9. NewTree'
    BY <1>1, <2>1 DEF NewTree, Built
  <2> QED
    BY <1>2, <2>3, <2>4, <2>5, <2>7, <2>8, <2>9 DEF IInv, Basics
<1>4. CASE ~Withdraws
  <2>1. Keep /\ state' = state /\ (restored => state # "Published")
    BY <1>4 DEF RollbackPublished, Continue, Withdraws
  <2>2. TypeOK' /\ Ahead
    BY <1>1, <2>1, DirTypes DEF Keep, Ahead, TypeOK, Steps, Unbuilt, Built, Unpublished
  <2>3. Basics'
    BY <2>1, <2>2, QuietBasics
  <2>4. Phases' /\ Leftovers'
    BY <1>1, <2>1 DEF IInv, Keep, Phases, Leftovers, Installed, Aside, Steps, Unbuilt, Verdict
  <2>5. OldTree' /\ NewTree'
    BY <1>1, <2>1 DEF IInv, Keep, OldTree, NewTree, Installed, Aside, Steps, Forward, Built, Own
  <2> QED
    BY <1>2, <2>2, <2>3, <2>4, <2>5 DEF IInv, Basics
<1> QED
  BY <1>3, <1>4

\* The old tree is put back.
LEMMA RestoreKeeps ==
  ASSUME IInv, Restore, MaxCommands \in Nat
  PROVE  IInv'
<1>1. /\ pc = "Restore" /\ pc' = "RollbackValidation"
      /\ previous' = previous /\ restored' = restored /\ reported' = reported
      /\ command' = command /\ before' = before /\ touched' = touched
      /\ Staging' = Staging /\ BackupPlace' = BackupPlace
  BY DEF Restore, At, Goto, Become, Continue, Running, Staging, BackupPlace
<1>2. RolledBack' /\ ReportIsTrue'
  BY <1>1 DEF RolledBack, ReportIsTrue, RolledBackIsDurable, NothingForgotten
<1>3. CASE Restores
  <2>1. /\ Rename(BackupPlace, Destination) /\ state' = "Prepared" /\ state = "BackupReady"
        /\ restored /\ Installed
    BY <1>3 DEF Restore, Become, Restores, Installed
  <2>2. /\ dir' \in [Places -> Trees] /\ onDisk' = onDisk \cup {dir'}
        /\ dir'[Destination] = dir[BackupPlace] /\ dir'[BackupPlace] = Nothing
        /\ \A p \in Places : p # Destination /\ p # BackupPlace => dir'[p] = dir[p]
    BY <2>1, DirTypes, OwnPlaces, PlaceNames, MovedOnly
  <2>3. TypeOK' /\ Ahead
    BY <1>1, <2>1, <2>2, DirTypes DEF Ahead, TypeOK, Steps, Unbuilt, Built, Unpublished
  <2>4. Basics'
    BY <2>1, <2>3, DirTypes, OwnPlaces, PlaceNames, MoveBasics
  <2>5. Phases'
    BY <1>1, <2>1 DEF Phases, Installed, Aside, Steps, Unbuilt, Verdict
  <2>6. Aside /\ before[BackupPlace] = Nothing /\ before[Staging] = Nothing
    BY <1>1, <2>1 DEF IInv, Leftovers, Steps, Aside
  <2>7. Leftovers'
    <3>1. \A d \in Hidden \ {BackupPlace} : dir'[d] = dir[d]
      BY <2>2, PlaceNames
    <3>2. /\ \A d \in Hidden : before[d] # Nothing => dir[d] = before[d]
          /\ \A d \in Hidden \ {Staging, BackupPlace} : dir[d] = before[d]
      BY <1>1 DEF IInv, Leftovers
    <3> QED
      BY <1>1, <2>1, <2>2, <2>6, <3>1, <3>2 DEF Leftovers, Aside
  <2>8. OldTree'
    <3>1. IsTree(dir[BackupPlace], previous)
      BY <1>1, <2>1, <2>6, TreeNames DEF IInv, OldTree, Steps
    <3> QED
      BY <1>1, <2>1, <2>2, <3>1 DEF IInv, OldTree, Installed, Aside, Forward, IsTree
  <2>9. NewTree'
    BY <1>1, <2>1 DEF NewTree, Built
  <2> QED
    BY <1>2, <2>3, <2>4, <2>5, <2>7, <2>8, <2>9 DEF IInv, Basics
<1>4. CASE ~Restores
  <2>1. Keep /\ state' = state /\ (restored => state # "Published" /\ ~Aside)
    BY <1>1, <1>4 DEF IInv, Restore, Continue, Restores, Phases, Installed, Aside
  <2>2. TypeOK' /\ Ahead
    BY <1>1, <2>1, DirTypes DEF Keep, Ahead, TypeOK, Steps, Unbuilt, Built, Unpublished
  <2>3. Basics'
    BY <2>1, <2>2, QuietBasics
  <2>4. Phases' /\ Leftovers'
    BY <1>1, <2>1 DEF IInv, Keep, Phases, Leftovers, Installed, Aside, Steps, Unbuilt, Verdict
  <2>5. OldTree' /\ NewTree'
    BY <1>1, <2>1 DEF IInv, Keep, OldTree, NewTree, Installed, Aside, Steps, Forward, Built, Own
  <2> QED
    BY <1>2, <2>2, <2>3, <2>4, <2>5 DEF IInv, Basics
<1> QED
  BY <1>3, <1>4

-----------------------------------------------------------------------------
(* The backup is deleted. *)
\* What stands before it.
LEMMA AtCleanup ==
  ASSUME IInv, pc = "BackupCleanup"
  PROVE  /\ Installed /\ state = "Published" /\ Aside /\ dir[BackupPlace].is = "synced"
         /\ Own(dir[Destination]) /\ dir[Staging] = Nothing
         /\ \A d \in onDisk : Own(d[Destination])
         /\ before[BackupPlace] = Nothing /\ before[Staging] = Nothing
         /\ \A d \in Hidden : before[d] # Nothing => dir[d] = before[d]
         /\ \A d \in Hidden \ {Staging, BackupPlace} : dir[d] = before[d]
BY DEF IInv, Phases, Leftovers, OldTree, NewTree, Aside, Forward, Steps

\* It is gone: the command is done.
LEMMA BackupCleanupKeeps ==
  ASSUME IInv, BackupCleanup, MaxCommands \in Nat
  PROVE  IInv'
<1>1. PICK e : e = [dir EXCEPT ![BackupPlace] = Nothing]
  OBVIOUS
<1>2. /\ pc = "BackupCleanup" /\ pc' = "done" /\ Change(e) /\ state' = "Committed" /\ Running
      /\ previous' = previous /\ restored' = restored /\ reported' = reported
      /\ command' = command /\ before' = before /\ touched' = touched
      /\ Staging' = Staging /\ BackupPlace' = BackupPlace
  BY <1>1 DEF BackupCleanup, RemoveAll, At, Goto, Become, Running, Staging, BackupPlace
<1>3. /\ dir' = e /\ e \in [Places -> Trees] /\ onDisk' = onDisk \cup {e}
      /\ e[BackupPlace] = Nothing /\ \A p \in Places : p # BackupPlace => e[p] = dir[p]
  BY <1>1, <1>2, DirTypes, OwnPlaces, TreeNames DEF Change
<1>4. TypeOK' /\ Ahead
  BY <1>2, <1>3, DirTypes DEF Ahead, TypeOK, Steps, Ends, Unbuilt, Built, Unpublished
<1>5. Basics'
  BY <1>1, <1>2, <1>4, AtCleanup, LossBasics
<1>6. Phases' /\ OldTree' /\ NewTree' /\ RolledBack'
  BY <1>2 DEF IInv, Phases, OldTree, NewTree, RolledBack, Installed, Aside, Steps, Unbuilt, Built,
     Verdict
<1>7. Leftovers'
  <2>1. \A d \in Hidden \ {BackupPlace} : dir'[d] = dir[d]
    BY <1>3, PlaceNames
  <2> QED
    BY <1>2, <1>3, <2>1, AtCleanup DEF Leftovers, Steps, Aside
<1>8. ReportIsTrue'
  <2>1. e[Destination] = dir[Destination]
    BY <1>3, DirTypes, OwnPlaces, PlaceNames
  <2>2. \A d \in onDisk' : Own(d[Destination]) /\ d \in [Places -> Trees]
    BY <1>3, <2>1, AtCleanup, <1>2, DirTypes
  <2> QED
    BY <1>2, <1>3, <2>2, AtCleanup, DoneIsTrue DEF Steps
<1> QED
  BY <1>4, <1>5, <1>6, <1>7, <1>8 DEF IInv, Basics

\* It is not: the rollback begins.
LEMMA BackupCleanupFailsKeeps ==
  ASSUME IInv, BackupCleanupFails, MaxCommands \in Nat
  PROVE  IInv'
<1>1. /\ pc = "BackupCleanup" /\ pc' = "RestoreValidation" /\ restored' = TRUE
      /\ previous' = previous /\ state' = state /\ reported' = reported
      /\ command' = command /\ before' = before /\ touched' = touched
      /\ Staging' = Staging /\ BackupPlace' = BackupPlace
  BY AtCleanup DEF BackupCleanupFails, BeginRollback, At, Goto, Running, Installed, Staging,
     BackupPlace
<1>2. PICK e : e = [dir EXCEPT ![BackupPlace] = Part]
  OBVIOUS
<1>3. CASE Keep
  <2>1. TypeOK' /\ Ahead
    BY <1>1, <1>3, DirTypes DEF Keep, Ahead, TypeOK, Steps, Unbuilt, Built, Unpublished
  <2>2. Basics'
    BY <1>3, <2>1, QuietBasics
  <2>3. Phases'
    BY <1>1, AtCleanup DEF Phases, Installed, Aside, Steps, Unbuilt, Verdict
  <2>4. Leftovers'
    BY <1>1, <1>3, AtCleanup DEF Keep, Leftovers, Installed, Aside
  <2>5. OldTree' /\ NewTree'
    BY <1>1, <1>3, AtCleanup DEF IInv, Keep, OldTree, NewTree, Installed, Aside, Steps, Forward,
       Built, Own
  <2>6. RolledBack' /\ ReportIsTrue'
    BY <1>1, AtCleanup DEF RolledBack, ReportIsTrue, RolledBackIsDurable, NothingForgotten
  <2> QED
    BY <2>1, <2>2, <2>3, <2>4, <2>5, <2>6 DEF IInv, Basics
<1>4. CASE Change(e)
  <2>1. /\ dir' = e /\ e \in [Places -> Trees] /\ onDisk' = onDisk \cup {e}
        /\ e[BackupPlace] = Part /\ \A p \in Places : p # BackupPlace => e[p] = dir[p]
    BY <1>2, <1>4, DirTypes, OwnPlaces, TreeNames DEF Change
  <2>2. TypeOK' /\ Ahead
    BY <1>1, <2>1, DirTypes DEF Ahead, TypeOK, Steps, Unbuilt, Built, Unpublished
  <2>3. Basics'
    BY <1>1, <1>2, <1>4, <2>2, AtCleanup, LossBasics
  <2>4. Phases'
    BY <1>1, AtCleanup DEF Phases, Installed, Aside, Steps, Unbuilt, Verdict
  <2>5. Leftovers'
    <3>1. \A d \in Hidden \ {BackupPlace} : dir'[d] = dir[d]
      BY <2>1, PlaceNames
    <3> QED
      BY <1>1, <3>1, AtCleanup DEF Leftovers, Installed, Aside
  <2>6. dir'[Destination] = dir[Destination] /\ dir'[Staging] = dir[Staging]
    BY <2>1, DirTypes, OwnPlaces, PlaceNames
  <2>7. OldTree' /\ NewTree'
    BY <1>1, <2>1, <2>6, AtCleanup DEF IInv, OldTree, NewTree, Installed, Aside, Forward, Built,
       Own
  <2>8. RolledBack' /\ ReportIsTrue'
    BY <1>1, AtCleanup DEF RolledBack, ReportIsTrue, RolledBackIsDurable, NothingForgotten
  <2> QED
    BY <2>2, <2>3, <2>4, <2>5, <2>7, <2>8 DEF IInv, Basics
<1> QED
  BY <1>2, <1>3, <1>4 DEF BackupCleanupFails, RemoveFails

-----------------------------------------------------------------------------
(* The surroundings. *)
\* The next command begins.
LEMMA BeginKeeps ==
  ASSUME IInv, NEW name \in Names, NEW graph \in Graphs, Begin(name, graph), MaxCommands \in Nat
  PROVE  IInv'
<1>1. /\ pc' = "Look" /\ dir' = dir /\ onDisk' = onDisk /\ before' = dir /\ touched' = touched
      /\ previous' = Nothing /\ state' = "Prepared" /\ restored' = FALSE /\ reported' = {}
      /\ command' = [number |-> command.number + 1, name |-> name, graph |-> graph]
      /\ command.number < MaxCommands /\ pc \in Ends
  BY DEF Begin, Goto, Keep
<1>2. /\ command'.number = command.number + 1 /\ command'.name = name /\ command'.graph = graph
      /\ command.number \in Nat /\ command'.number \in 0 .. MaxCommands
  BY <1>1, DirTypes
<1>3. TypeOK'
  BY <1>1, <1>2, DirTypes, TreeNames DEF TypeOK, Steps
<1>4. World'
  <2>1. ASSUME NEW d \in onDisk PROVE Sound(d, "Look", command'.number)
    <3>1. \A p \in Places : IsVendored(d[p]) =>
            d[p].by \in 0 .. MaxCommands /\ d[p].by <= command.number
      BY DirTypes, TreeKinds, TreeNames DEF Sound
    <3>2. \A p \in Places : IsVendored(d[p]) =>
            d[p].by <= command'.number /\ d[p].by < command'.number
      BY <1>2, <3>1
    <3> QED
      BY <3>2, DirTypes DEF Sound
  <2> QED
    BY <1>1, <2>1 DEF World
<1>5. \A t \in touched : Touched(t)'
  <2> SUFFICES ASSUME NEW t \in touched PROVE Touched(t)'
    OBVIOUS
  <2>1. Touched(t) /\ t \in Trees
    BY DirTypes DEF IInv, Edits, TypeOK
  <2>2. t = Foreign \/ (t.is = "edited" /\ t.by \in 0 .. MaxCommands /\ t.by <= command.number)
    BY <2>1, TreeKinds, TreeNames DEF Touched
  <2>3. t = Foreign \/ (t.is = "edited" /\ t.by <= command'.number /\ t.by < command'.number)
    BY <1>2, <2>2
  <2> QED
    BY <1>1, <2>1, <2>3 DEF Touched
<1>6. Edits' /\ EditsStay'
  BY <1>1, <1>5 DEF IInv, Edits, Withdrawn, EditsStay
<1>7. Phases' /\ OldTree' /\ NewTree' /\ RolledBack' /\ ReportIsTrue'
  BY <1>1 DEF Phases, OldTree, NewTree, RolledBack, ReportIsTrue, RolledBackIsDurable,
     NothingForgotten, Installed, Aside, Steps, Unbuilt, Built, Verdict
<1>8. Leftovers'
  BY <1>1 DEF Leftovers, Aside, Installed
<1> QED
  BY <1>1, <1>3, <1>4, <1>6, <1>7, <1>8, DirTypes DEF IInv, Shapes

\* The machine loses power.
LEMMA PowerFailureKeeps ==
  ASSUME IInv, PowerFailure, MaxCommands \in Nat
  PROVE  IInv'
<1>1. PICK d \in onDisk : dir' = AfterPowerFailure(d)
  BY DEF PowerFailure
<1>2. /\ onDisk' = {dir'} /\ pc' = "crashed" /\ command' = command /\ before' = before
      /\ touched' = {t \in touched : \E p \in Places : dir'[p] = t}
      /\ previous' = previous /\ state' = state /\ restored' = restored /\ reported' = reported
  BY DEF PowerFailure, Goto
<1>3. PICK e : e = dir'
  OBVIOUS
<1>4. /\ e \in [Places -> Trees] /\ Sound(e, pc, command.number)
      /\ \A p \in Places : e[p] = d[p] \/ e[p] = Part
  BY <1>1, <1>3, DirTypes, SoundPower
<1>5. TypeOK'
  BY <1>2, <1>3, <1>4, DirTypes DEF TypeOK, Ends
<1>6. World'
  BY <1>2, <1>3, <1>4, SoundAgain DEF World, Unbuilt, Built, Unpublished
<1>7. Edits' /\ EditsStay'
  <2>1. Withdrawn(e, e)
    BY <1>4, Apart
  <2>2. ASSUME NEW t \in touched, NEW p \in Places, e[p] = t
        PROVE  p \in Kept /\ \A n \in Names : e[StagingOf(n)] # t
    <3>1. t # Part /\ \A n \in Names : d[StagingOf(n)] # t
      BY TreeNames DEF IInv, Edits, Touched
    <3>2. \A n \in Names : e[StagingOf(n)] # t
      BY <1>4, <3>1, PlaceNames
    <3> QED
      BY <2>2, <3>2, PlaceNames
  <2>3. \A t \in touched' : Touched(t)'
    BY <1>2, <1>3, <2>2 DEF IInv, Edits, Touched, Steps
  <2>4. \A t \in touched' : \E p \in Kept : dir'[p] = t
    BY <1>2, <1>3, <2>2
  <2>5. \A x \in onDisk' : Withdrawn(x, dir')
    BY <1>2, <1>3, <2>1
  <2> QED
    BY <2>3, <2>4, <2>5 DEF Edits, EditsStay, Withdrawn, Kept
<1>8. Phases' /\ OldTree' /\ NewTree' /\ RolledBack' /\ ReportIsTrue' /\ Leftovers'
  BY <1>2 DEF IInv, Phases, Leftovers, OldTree, NewTree, RolledBack, ReportIsTrue,
     RolledBackIsDurable, NothingForgotten, Steps, Unbuilt, Built, Forward, Verdict
<1> QED
  BY <1>2, <1>5, <1>6, <1>7, <1>8 DEF IInv, Shapes

\* The user edits what is at the destination, or makes a directory there.
LEMMA UserKeeps ==
  ASSUME IInv, User, MaxCommands \in Nat
  PROVE  IInv'
<1>1. PICK was : was = dir[Destination]
  OBVIOUS
<1>2. PICK t : t = dir'[Destination]
  OBVIOUS
<1>3. was \in Trees /\ was.is # "written"
  BY <1>1, DirTypes, PlaceNames DEF Sound
<1>4. /\ \/ /\ IsVendored(was) /\ was.is = "synced" /\ IsVendored(t) /\ t.is = "edited"
            /\ t.by = was.by /\ t.by \in 0 .. MaxCommands
         \/ was = Nothing /\ t = Foreign
      /\ t \in Trees /\ Change([dir EXCEPT ![Destination] = t])
  <2>1. CASE Complete(was) /\ Change([dir EXCEPT ![Destination].is = "edited"])
    <3>1. PICK e : e = [dir EXCEPT ![Destination].is = "edited"]
      OBVIOUS
    <3>2. /\ was = [is |-> was.is, graph |-> was.graph, by |-> was.by] /\ was.graph \in Graphs
          /\ was.by \in 0 .. MaxCommands
      BY <1>3, <2>1, TreeKinds DEF Complete
    <3>3. dir' = e /\ e[Destination] = [was EXCEPT !.is = "edited"]
      BY <1>1, <2>1, <3>1, DirTypes, PlaceNames DEF Change
    <3>4. t = [is |-> "edited", graph |-> was.graph, by |-> was.by]
      BY <1>2, <3>2, <3>3
    <3>5. e = [dir EXCEPT ![Destination] = t]
      BY <1>2, <3>1, <3>3, DirTypes
    <3>6. t \in Trees /\ IsVendored(t) /\ t.is = "edited" /\ t.by = was.by
      BY <3>2, <3>4, TreeMade
    <3>7. was.is = "synced" /\ IsVendored(was)
      BY <1>3, <2>1 DEF Complete, IsVendored
    <3> QED
      BY <2>1, <3>1, <3>2, <3>5, <3>6, <3>7
  <2>2. CASE was = Nothing /\ Change([dir EXCEPT ![Destination] = Foreign])
    <3>1. t = Foreign
      BY <1>2, <2>2, DirTypes, PlaceNames, TreeNames DEF Change
    <3> QED
      BY <2>2, <3>1, TreeNames
  <2> QED
    BY <1>1, <2>1, <2>2 DEF User
<1>5. touched' = IF pc \in Steps /\ t # Foreign /\ t.by = command.number
                  THEN touched ELSE touched \cup {t}
  BY <1>2 DEF User
<1>6. PICK e : e = [dir EXCEPT ![Destination] = t]
  OBVIOUS
<1>7. /\ e \in [Places -> Trees] /\ e[Destination] = t /\ dir' = e /\ onDisk' = onDisk \cup {e}
      /\ \A p \in Places : p # Destination => e[p] = dir[p]
  BY <1>4, <1>6, DirTypes, PlaceNames DEF Change
<1>8. /\ pc' = pc /\ previous' = previous /\ state' = state /\ restored' = restored
      /\ reported' = reported /\ command' = command /\ before' = before
      /\ Staging' = Staging /\ BackupPlace' = BackupPlace
  BY DEF User, Staging, BackupPlace
<1>9. TypeOK'
  BY <1>4, <1>7, <1>8, <1>5, DirTypes DEF TypeOK
<1>10. /\ \A h \in Hidden : e[h] = dir[h]
       /\ e[Staging] = dir[Staging] /\ e[BackupPlace] = dir[BackupPlace]
       /\ \A n \in Names : e[StagingOf(n)] = dir[StagingOf(n)]
       /\ \A b \in Backups : e[b] = dir[b]
  BY <1>7, DirTypes, OwnPlaces, PlaceNames
<1>11. World'
  <2>1. \A p \in Places : IsVendored(e[p]) => IsVendored(dir[p]) /\ e[p].by = dir[p].by
    BY <1>1, <1>4, <1>7, TreeNames
  <2>2. /\ \A p \in Kept : e[p].is # "written"
        /\ \A h \in Hidden : e[h] # Foreign
    BY <1>4, <1>7, <1>10, DirTypes, PlaceNames, TreeNames DEF Sound
  <2>3. \A p, q \in Places : IsVendored(e[p]) /\ IsVendored(e[q]) /\ e[p].by = e[q].by => p = q
    BY <2>1, DirTypes DEF Sound
  <2>4. \A p \in Places : e[p].is = "edited" => p \in Kept \/ dir[p].is = "edited"
    BY <1>7, PlaceNames
  <2>5. Sound(e, pc, command.number)
    BY <2>1, <2>2, <2>3, <2>4, DirTypes DEF Sound
  <2> QED
    BY <1>7, <1>8, <2>5, DirTypes DEF World
<1>12. \A d \in onDisk' : Withdrawn(d, e)
  <2>1. Withdrawn(e, e)
    BY <1>7, <1>8, <1>11, Apart DEF World
  <2>2. \A p \in Kept : IsVendored(e[p]) => IsVendored(dir[p]) /\ e[p].by = dir[p].by
    BY <1>1, <1>4, <1>7, PlaceNames, TreeNames
  <2>3. \A d \in onDisk : Withdrawn(d, e)
    BY <2>2 DEF IInv, Edits, Withdrawn
  <2> QED
    BY <1>7, <2>1, <2>3
<1>13. \A x \in touched' : Touched(x)'
  <2> SUFFICES ASSUME NEW x \in touched' PROVE Touched(x)'
    OBVIOUS
  <2>1. CASE x \in touched
    <3>1. Touched(x)
      BY <2>1 DEF IInv, Edits
    <3>2. \A n \in Names : e[StagingOf(n)] # x
      BY <1>10, <3>1, DirTypes DEF Touched
    <3> QED
      BY <1>7, <1>8, <3>1, <3>2 DEF Touched
  <2>2. CASE x = t /\ (pc \in Steps => t = Foreign \/ t.by # command.number)
    <3>1. \A d \in onDisk', n \in Names : d[StagingOf(n)] # t
      <4>1. CASE t = Foreign
        BY <1>7, <1>8, <1>11, <4>1, PlaceNames DEF World, Sound
      <4>2. CASE t # Foreign
        BY <1>4, <1>7, <1>12, <4>2, PlaceNames DEF Withdrawn
      <4> QED
        BY <4>1, <4>2
    <3>2. t = Foreign \/ t.by <= command.number
      BY <1>7, <1>8, <1>11, <1>4, PlaceNames DEF World, Sound
    <3>3. t = Foreign \/ (t.is = "edited" /\ (pc \in Steps => t.by < command.number))
      BY <1>4, <2>2, <3>2, DirTypes
    <3> QED
      BY <1>8, <2>2, <3>1, <3>2, <3>3 DEF Touched
  <2> QED
    BY <1>5, <2>1, <2>2
<1>14. \A x \in touched' : \E p \in Kept : e[p] = x
  <2> SUFFICES ASSUME NEW x \in touched PROVE \E p \in Kept : e[p] = x
    BY <1>7, <1>5, PlaceNames
  <2>1. PICK p \in Kept : dir[p] = x
    BY DEF IInv, EditsStay, Kept
  <2>2. p # Destination
    BY <1>1, <1>4, <2>1, TreeNames DEF IInv, Edits, Touched
  <2> QED
    BY <1>7, <2>1, <2>2, PlaceNames
<1>15. Shapes' /\ Edits' /\ EditsStay'
  BY <1>7, <1>9, <1>12, <1>13, <1>14 DEF Shapes, Edits, EditsStay, Withdrawn, Kept
<1>16. Phases'
  BY <1>8 DEF IInv, Phases, Installed, Aside
<1>17. Leftovers'
  BY <1>7, <1>8, <1>10, OwnPlaces, DirTypes DEF IInv, Leftovers, Installed, Aside
<1>18. ASSUME NEW o, IsTree(was, o) PROVE IsTree(t, o) /\ Whole(t)
  BY <1>4, <1>18, TreeNames DEF IsTree, Whole
<1>19. OldTree'
  BY <1>1, <1>7, <1>8, <1>10, <1>18 DEF IInv, OldTree, Installed, Aside
<1>20. NewTree'
  <2>1. Own(was) => Own(t)
    BY <1>4, TreeNames DEF Own, Whole
  <2>2. ASSUME NEW d \in onDisk, \A b \in Backups : d[b] = dir[b]
        PROVE  \A b \in Backups : d[b] = e[b]
    <3>1. \A b \in Backups : e[b] = dir[b]
      BY <1>10
    <3> QED
      BY <2>2, <3>1
  <2> QED
    BY <1>1, <1>7, <1>8, <1>10, <2>1, <2>2, DirTypes DEF IInv, NewTree, Installed, Own
<1>21. AsBefore(dir) => AsBefore(e)
  BY <1>1, <1>4, <1>7, <1>18, TreeNames DEF AsBefore
<1>22. RolledBack'
  BY <1>7, <1>8, <1>21, DirTypes DEF IInv, RolledBack, AsBefore, Installed
<1>23. ReportIsTrue'
  <2>1. RolledBackIsDurable'
    BY <1>7, <1>8, <1>10, <1>21, DirTypes
       DEF IInv, ReportIsTrue, RolledBackIsDurable, AsBefore, Installed
  <2>2. \A d \in Hidden : dir'[d] = dir[d] /\ before'[d] = before[d]
    BY <1>7, <1>8, <1>10
  <2>3. pc = "done" /\ command.number > 0 => IsTree(t, [by |-> command.number]) /\ Safe'
    <3> SUFFICES ASSUME pc = "done", command.number > 0
                 PROVE  IsTree(t, [by |-> command.number]) /\ Safe'
      OBVIOUS
    <3>1. IsTree(was, [by |-> command.number]) /\ Safe
      BY <1>1 DEF IInv, ReportIsTrue, NothingForgotten
    <3>2. IsTree(t, [by |-> command.number]) /\ Whole(t)
      BY <1>18, <3>1
    <3>3. AfterPowerFailure(e)[Destination] = t
      BY <1>7, <3>2, PlaceNames DEF AfterPowerFailure, Whole
    <3> QED
      BY <1>7, <3>1, <3>2, <3>3, DirTypes, PlaceNames DEF Safe, Whole
  <2>4. NothingForgotten'
    BY <1>7, <1>8, <2>2, <2>3 DEF IInv, ReportIsTrue, NothingForgotten
  <2> QED
    BY <2>1, <2>4 DEF ReportIsTrue
<1> QED
  BY <1>11, <1>15, <1>16, <1>17, <1>19, <1>20, <1>22, <1>23 DEF IInv

-----------------------------------------------------------------------------
(* The theorems. *)
\* The parts stand at the beginning.
LEMMA Starts ==
  ASSUME Init, MaxCommands \in Nat
  PROVE  IInv
<1>1. PICK t \in {Nothing} \cup [is : {"synced"}, graph : Graphs, by : {0}] :
        dir = [p \in Places |-> IF p = Destination THEN t ELSE Nothing]
  BY DEF Init
<1>2. t \in Trees /\ (t = Nothing \/ (t.is = "synced" /\ t.by = 0))
  <2>1. CASE t = Nothing
    BY <2>1, TreeNames
  <2>2. CASE t # Nothing
    <3>1. t.is = "synced" /\ t.by = 0 /\ t.graph \in Graphs
          /\ t = [is |-> "synced", graph |-> t.graph, by |-> 0]
      BY <1>1, <2>2
    <3> QED
      BY <3>1, TreeMade
  <2> QED
    BY <2>1, <2>2
<1>3. /\ dir \in [Places -> Trees] /\ onDisk = {dir} /\ before = dir /\ touched = {}
      /\ previous = Nothing /\ state = "Prepared" /\ restored = FALSE /\ reported = {}
      /\ pc = "done" /\ command \in [number : {0}, name : Names, graph : Graphs]
      /\ command.number = 0
  BY <1>1, <1>2, TreeNames DEF Init
<1>4. \A p \in Places :
        dir[p] = Nothing \/ (p = Destination /\ dir[p].is = "synced" /\ dir[p].by = 0)
  BY <1>1, <1>2
<1>5. Shapes
  <2>1. command \in [number : 0 .. MaxCommands, name : Names, graph : Graphs]
    BY <1>3
  <2> QED
    BY <1>3, <2>1, TreeNames DEF Shapes, TypeOK, Ends
<1>6. Sound(dir, pc, command.number)
  BY <1>3, <1>4, PlaceNames, TreeNames DEF Sound, Unbuilt, Built, Unpublished
<1>7. Edits /\ EditsStay
  BY <1>3, <1>6, Apart DEF Edits, EditsStay
<1>8. Phases /\ Leftovers /\ OldTree /\ NewTree /\ RolledBack
  BY <1>3 DEF Phases, Leftovers, OldTree, NewTree, RolledBack, Installed, Aside, Steps, Unbuilt,
     Built, Verdict
<1>9. ReportIsTrue
  BY <1>3 DEF ReportIsTrue, RolledBackIsDurable, NothingForgotten
<1> QED
  BY <1>3, <1>5, <1>6, <1>7, <1>8, <1>9 DEF IInv, World

\* Every step keeps them.
LEMMA EveryStepKeeps ==
  ASSUME IInv, [Next]_vars, MaxCommands \in Nat
  PROVE  IInv'
<1>1. CASE Build
  BY <1>1, BeginKeeps, LookKeeps, LookFailsKeeps, CreateStagingKeeps, CreateStagingFailsKeeps,
     WriteKeeps, SyncTreeKeeps, StagingValidationKeeps, BuildFailsKeeps, BuildFailureKeeps,
     BuildFailureFailsKeeps DEF Build
<1>2. CASE Run
  BY <1>2, BackupKeeps, BackupValidationKeeps, BackupSyncKeeps, PublishKeeps,
     PublishValidationKeeps, PublishSyncKeeps, BackupCleanupKeeps, BackupCleanupFailsKeeps,
     StepFailsKeeps DEF Run
<1>3. CASE Rollback
  BY <1>3, RestoreValidationKeeps, RestoreValidationFailsKeeps, RollbackPublishedKeeps,
     RollbackPublishedFailsKeeps, RestoreKeeps, RestoreFailsKeeps, RollbackValidationKeeps,
     RollbackValidationFailsKeeps, RollbackSyncKeeps, RollbackSyncFailsKeeps,
     RollbackCleanupKeeps, ReportKeeps DEF Rollback
<1>4. CASE Kill \/ PowerFailure \/ User
  BY <1>4, KillKeeps, PowerFailureKeeps, UserKeeps
<1>5. CASE UNCHANGED vars
  BY <1>5 DEF vars, IInv, Shapes, TypeOK, World, Edits, Withdrawn, Touched, EditsStay, Phases,
     Leftovers, OldTree, NewTree, RolledBack, AsBefore, ReportIsTrue, RolledBackIsDurable,
     NothingForgotten, Installed, Aside, Staging, BackupPlace, Own, Safe
<1> QED
  BY <1>1, <1>2, <1>3, <1>4, <1>5 DEF Next

\* The inductive invariant: where the old tree, the new one, the user's and the
\* leftovers are at every step of a command, and on whatever a power failure
\* leaves.
THEOREM Invariance == ASSUME MaxCommands \in Nat PROVE Spec => []IInv
<1>1. Init => IInv
  BY Starts
<1>2. IInv /\ [Next]_vars => IInv'
  BY EveryStepKeeps
<1> QED
  BY <1>1, <1>2, PTL DEF Spec

\* The commands keep their types.
THEOREM TypesCorrect == ASSUME MaxCommands \in Nat PROVE Spec => []TypeOK
<1>1. IInv => TypeOK
  BY DEF IInv, Shapes
<1> QED
  BY <1>1, Invariance, PTL

\* A command that says it is done, or has rolled back, is right, and one that
\* fails names what it leaves.
THEOREM ReportsAreTrue == ASSUME MaxCommands \in Nat PROVE Spec => []ReportIsTrue
<1>1. IInv => ReportIsTrue
  BY DEF IInv
<1> QED
  BY <1>1, Invariance, PTL

\* No command uses or deletes what an earlier one has left hidden, whatever
\* their names.
THEOREM LeftoversAreKept == ASSUME MaxCommands \in Nat PROVE Spec => []LeftoversStay
<1>1. IInv => LeftoversStay
  BY DEF IInv, Leftovers, LeftoversStay
<1> QED
  BY <1>1, Invariance, PTL

\* What the user has edited or made, is at the destination or in a backup.
THEOREM EditsAreKept == ASSUME MaxCommands \in Nat PROVE Spec => []EditsStay
<1>1. IInv => EditsStay
  BY DEF IInv
<1> QED
  BY <1>1, Invariance, PTL

-----------------------------------------------------------------------------
(* A vendored tree survives. *)
HasTree(d) == \E p \in Kept : Whole(d[p])
EveryState == \A d \in onDisk : HasTree(d)

\* Where trees last, a power failure takes nothing.
LEMMA SafeEverywhere ==
  ASSUME IInv
  PROVE  Safe <=> EveryState
<1>1. ASSUME NEW d \in onDisk
      PROVE  HasTree(AfterPowerFailure(d)) <=> HasTree(d)
  <2>1. PICK e : e = AfterPowerFailure(d)
    OBVIOUS
  <2>2. d \in [Places -> Trees] /\ Sound(d, pc, command.number)
    BY DirTypes
  <2>3. \A p \in Kept : e[p] = d[p]
    BY <2>1, <2>2, SoundPower, PlaceNames DEF Sound
  <2> QED
    BY <2>1, <2>3 DEF HasTree
<1>2. Safe => EveryState
  BY <1>1 DEF Safe, EveryState, HasTree, Kept, Whole
<1>3. EveryState => Safe
  <2>1. ASSUME EveryState, NEW d \in {dir} \cup {AfterPowerFailure(e) : e \in onDisk}
        PROVE  HasTree(d)
    BY <1>1, <2>1, DirTypes DEF EveryState
  <2> QED
    BY <2>1 DEF Safe, HasTree, Kept, Whole
<1> QED
  BY <1>2, <1>3

\* A change outside where trees last, takes none away.
LEMMA TreeLeft ==
  ASSUME IInv, EveryState, NEW new, Change(new),
         (\A p \in Kept : dir[p] # Nothing => new[p] = dir[p]) \/ HasTree(new)
  PROVE  EveryState'
<1>1. onDisk' = onDisk \cup {new}
  BY DEF Change
<1>2. HasTree(dir)
  BY DirTypes DEF EveryState
<1>3. HasTree(new)
  BY <1>2, TreeNames DEF HasTree, Whole
<1> QED
  BY <1>1, <1>3 DEF EveryState

\* The build of the new tree.
LEMMA BuildSpares ==
  ASSUME IInv, EveryState, Build
  PROVE  EveryState'
<1>1. CASE Keep
  BY <1>1 DEF Keep, EveryState
<1>2. CASE CreateStaging
  <2>1. PICK e : e = [dir EXCEPT ![Staging] = Part]
    OBVIOUS
  <2>2. Change(e)
    BY <1>2, <2>1 DEF CreateStaging
  <2>3. \A p \in Kept : e[p] = dir[p]
    BY <2>1, DirTypes, OwnPlaces, PlaceNames
  <2> QED
    BY <2>2, <2>3, TreeLeft
<1>3. CASE Write
  <2>1. PICK e : e = [dir EXCEPT ![Staging] =
                       [is |-> "written", graph |-> command.graph, by |-> command.number]]
    OBVIOUS
  <2>2. Change(e)
    BY <1>3, <2>1 DEF Write
  <2>3. \A p \in Kept : e[p] = dir[p]
    BY <2>1, DirTypes, OwnPlaces, PlaceNames
  <2> QED
    BY <2>2, <2>3, TreeLeft
<1>4. CASE SyncTree
  <2>1. PICK e : e = [dir EXCEPT ![Staging].is = "synced"]
    OBVIOUS
  <2>2. Change(e)
    BY <1>4, <2>1 DEF SyncTree
  <2>3. \A p \in Kept : e[p] = dir[p]
    BY <2>1, DirTypes, OwnPlaces, PlaceNames
  <2> QED
    BY <2>2, <2>3, TreeLeft
<1>5. ASSUME NEW t, Change([dir EXCEPT ![Staging] = t])
      PROVE  EveryState'
  <2>1. PICK e : e = [dir EXCEPT ![Staging] = t]
    OBVIOUS
  <2>2. \A p \in Kept : e[p] = dir[p]
    BY <2>1, DirTypes, OwnPlaces, PlaceNames
  <2> QED
    BY <1>5, <2>1, <2>2, TreeLeft
<1> QED
  BY <1>1, <1>2, <1>3, <1>4, <1>5
     DEF Build, Begin, Look, LookFails, CreateStagingFails, StagingValidation, BuildFails,
         BuildFailure, BuildFailureFails, RemoveAll, RemoveFails

\* A move within where trees last.
LEMMA MoveSpares ==
  ASSUME IInv, EveryState, NEW from \in Kept, NEW to \in Kept, Rename(from, to)
  PROVE  EveryState'
<1>1. PICK e : e = [dir EXCEPT ![to] = dir[from], ![from] = Nothing]
  OBVIOUS
<1>2. Change(e) /\ dir[from] # Nothing /\ dir[to] = Nothing
  BY <1>1 DEF Rename
<1>3. e[to] = dir[from] /\ \A p \in Kept : p # from /\ p # to => e[p] = dir[p]
  BY <1>1, <1>2, DirTypes, PlaceNames
<1>4. PICK p \in Kept : Whole(dir[p])
  BY DirTypes DEF EveryState, HasTree
<1>5. p # to
  BY <1>2, <1>4, TreeNames DEF Whole
<1>6. HasTree(e)
  <2>1. CASE p = from
    BY <1>3, <1>4, <2>1 DEF HasTree
  <2>2. CASE p # from
    BY <1>3, <1>4, <1>5, <2>2 DEF HasTree
  <2> QED
    BY <2>1, <2>2
<1> QED
  BY <1>2, <1>6, TreeLeft

\* The transaction: the backup is deleted once the new tree is there to stay.
LEMMA RunSpares ==
  ASSUME IInv, EveryState, Run
  PROVE  EveryState'
<1>1. CASE Keep
  BY <1>1 DEF Keep, EveryState
<1>2. CASE Sync
  BY <1>2, DirTypes DEF Sync, EveryState
<1>3. CASE Backup
  BY <1>3, DirTypes, OwnPlaces, PlaceNames, MoveSpares DEF Backup
<1>4. CASE Publish
  <2>1. PICK e : e = [dir EXCEPT ![Destination] = dir[Staging], ![Staging] = Nothing]
    OBVIOUS
  <2>2. Change(e) /\ dir[Destination] = Nothing
    BY <1>4, <2>1 DEF Publish, Rename
  <2>3. \A p \in Kept : p # Destination => e[p] = dir[p]
    BY <2>1, DirTypes, OwnPlaces, PlaceNames
  <2> QED
    BY <2>2, <2>3, TreeLeft
<1>5. ASSUME NEW t, Change([dir EXCEPT ![BackupPlace] = t]), pc = "BackupCleanup"
      PROVE  EveryState'
  <2>1. PICK e : e = [dir EXCEPT ![BackupPlace] = t]
    OBVIOUS
  <2>2. e[Destination] = dir[Destination]
    BY <2>1, DirTypes, OwnPlaces, PlaceNames
  <2>3. HasTree(e)
    BY <1>5, <2>2, AtCleanup, PlaceNames DEF HasTree, Own
  <2> QED
    BY <1>5, <2>1, <2>3, TreeLeft
<1> QED
  BY <1>1, <1>2, <1>3, <1>4, <1>5
     DEF Run, BackupValidation, BackupSync, PublishValidation, PublishSync, BackupCleanup,
         BackupCleanupFails, StepFails, RemoveAll, RemoveFails, At

\* The rollback: the new tree is withdrawn once the old one is known to be
\* there, or if there was none.
LEMMA RollbackSpares ==
  ASSUME IInv, EveryState, Rollback
  PROVE  EveryState'
<1>1. CASE Keep
  BY <1>1 DEF Keep, EveryState
<1>2. CASE Sync
  BY <1>2, DirTypes DEF Sync, EveryState
<1>3. CASE Rename(BackupPlace, Destination)
  BY <1>3, DirTypes, OwnPlaces, PlaceNames, MoveSpares
<1>4. CASE pc = "RollbackPublished" /\ Withdraws /\ Rename(Destination, Staging)
  <2>1. PICK e : e = [dir EXCEPT ![Staging] = dir[Destination], ![Destination] = Nothing]
    OBVIOUS
  <2>2. Change(e)
    BY <1>4, <2>1 DEF Rename
  <2>3. \A b \in Backups : e[b] = dir[b]
    BY <2>1, DirTypes, OwnPlaces, PlaceNames
  <2>4. HasTree(e)
    <3>1. CASE Installed
      <4>1. dir[BackupPlace].is = "synced"
        BY <1>4, <3>1 DEF IInv, OldTree, Withdraws, Aside, Steps
      <4> QED
        BY <2>3, <4>1, DirTypes, OwnPlaces DEF HasTree, Whole
    <3>2. CASE ~Installed
      <4>1. PICK d \in onDisk : d[Destination] = Nothing /\ \A b \in Backups : d[b] = dir[b]
        BY <1>4, <3>2 DEF IInv, NewTree, Withdraws
      <4>2. PICK p \in Kept : Whole(d[p])
        BY DEF EveryState, HasTree
      <4>3. p \in Backups
        BY <4>1, <4>2, PlaceNames, TreeNames DEF Whole
      <4> QED
        BY <2>3, <4>1, <4>2, <4>3 DEF HasTree
    <3> QED
      BY <3>1, <3>2
  <2> QED
    BY <2>2, <2>4, TreeLeft
<1>5. CASE Change([dir EXCEPT ![Staging] = Nothing]) \/ Change([dir EXCEPT ![Staging] = Part])
  <2> SUFFICES ASSUME NEW t, Change([dir EXCEPT ![Staging] = t]) PROVE EveryState'
    BY <1>5
  <2>1. PICK e : e = [dir EXCEPT ![Staging] = t]
    OBVIOUS
  <2>2. \A p \in Kept : e[p] = dir[p]
    BY <2>1, DirTypes, OwnPlaces, PlaceNames
  <2> QED
    BY <2>1, <2>2, TreeLeft
<1> QED
  BY <1>1, <1>2, <1>3, <1>4, <1>5
     DEF Rollback, RestoreValidation, RestoreValidationFails, RollbackPublished,
         RollbackPublishedFails, Restore, RestoreFails, RollbackValidation,
         RollbackValidationFails, RollbackSync, RollbackSyncFails, RollbackCleanup,
         RollbackCleanupFails, Report, RemoveAll, RemoveFails, At

\* The surroundings.
LEMMA OthersSpare ==
  ASSUME IInv, EveryState, Kill \/ PowerFailure \/ User \/ UNCHANGED vars
  PROVE  EveryState'
<1>1. CASE Keep
  BY <1>1 DEF Keep, EveryState
<1>2. CASE PowerFailure
  <2>1. PICK d \in onDisk : dir' = AfterPowerFailure(d) /\ onDisk' = {dir'}
    BY <1>2 DEF PowerFailure
  <2>2. \A p \in Kept : dir'[p] = d[p]
    BY <2>1, DirTypes, SoundPower, PlaceNames DEF Sound
  <2>3. HasTree(d)
    BY DEF EveryState
  <2>4. HasTree(dir')
    BY <2>2, <2>3 DEF HasTree
  <2> QED
    BY <2>1, <2>4 DEF EveryState
<1>3. CASE Complete(dir[Destination]) /\ Change([dir EXCEPT ![Destination].is = "edited"])
  <2>1. PICK e : e = [dir EXCEPT ![Destination].is = "edited"]
    OBVIOUS
  <2>2. PICK was \in Trees : was = dir[Destination]
    BY DirTypes, PlaceNames
  <2>3. e[Destination] = [was EXCEPT !.is = "edited"]
    BY <2>1, <2>2, DirTypes, PlaceNames
  <2>4. e[Destination].is = "edited"
    BY <1>3, <2>2, <2>3 DEF Complete, Trees, Vendored, Nothing, Part, Foreign
  <2>5. HasTree(e)
    BY <2>4, PlaceNames DEF HasTree, Whole
  <2> QED
    BY <1>3, <2>1, <2>5, TreeLeft
<1>4. CASE dir[Destination] = Nothing /\ Change([dir EXCEPT ![Destination] = Foreign])
  <2>1. PICK e : e = [dir EXCEPT ![Destination] = Foreign]
    OBVIOUS
  <2>2. \A p \in Kept : dir[p] # Nothing => e[p] = dir[p]
    BY <1>4, <2>1, DirTypes, PlaceNames
  <2> QED
    BY <1>4, <2>1, <2>2, TreeLeft
<1> QED
  BY <1>1, <1>2, <1>3, <1>4 DEF Kill, User, vars, Keep

\* Once a vendored tree is at the destination or in a backup, for the processes
\* and on whatever a power failure leaves, one always is.
THEOREM TreeSurvives == ASSUME MaxCommands \in Nat PROVE Spec => [][SomeTreeSurvives]_vars
<1>1. IInv /\ IInv' /\ [Next]_vars => SomeTreeSurvives
  <2> SUFFICES ASSUME IInv, IInv', [Next]_vars, Safe PROVE Safe'
    BY DEF SomeTreeSurvives
  <2>1. EveryState
    BY SafeEverywhere
  <2>2. EveryState'
    BY <2>1, BuildSpares, RunSpares, RollbackSpares, OthersSpare DEF Next
  <2>3. (Safe <=> EveryState)'
    BY SafeEverywhere, PTL
  <2> QED
    BY <2>2, <2>3
<1> QED
  BY <1>1, Invariance, PTL DEF Spec

=============================================================================

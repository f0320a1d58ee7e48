---------------------------- MODULE VendorInstall ----------------------------
(***************************************************************************)
(* How the package manager fills and replaces a vendor directory:          *)
(* vendor_dependencies and VendorInstallTransaction of                     *)
(* crates/yanxu-package/src/package.rs.                                    *)
(*                                                                         *)
(* Commands run one after the other, each under the project lock.  A       *)
(* command accepts what is at the destination (nothing, or a complete      *)
(* vendored tree), builds the new tree in a hidden directory staging,      *)
(* syncs and validates it, moves the old tree to a hidden directory        *)
(* backup, moves the new one into place, and deletes the backup.  Every    *)
(* step may fail; a failure of the transaction starts its rollback, whose  *)
(* steps may fail too.  The process may be killed and the machine may lose *)
(* power at any step, and the user may edit what is at the destination or  *)
(* put a directory of his own there.                                       *)
(*                                                                         *)
(* The hidden directories are named after the process id and a sequence    *)
(* number, here the command's name; a later process may have the same one. *)
(***************************************************************************)
EXTENDS FiniteSets, Integers

CONSTANTS
  Graphs,       \* the resolution graphs a command may be given
  Names,        \* what process ids and sequence numbers make of hidden names
  MaxCommands,  \* bound on the commands
  MaxTouched    \* bound on what the user edits or creates

VARIABLES
  previous,   \* the tree the command has found at the destination, or Nothing
  dir,        \* the directories as the processes see them
  onDisk,     \* the directories a power failure may leave: the states since
              \* the last successful sync of the parent, in which the file
              \* system keeps the order of the changes
  state,      \* VendorInstallState
  pc,         \* the next step of the command
  restored,   \* the rollback has met no failure that leaves the old tree away
  reported,   \* the directories the error message names
  command,    \* the command that runs: its number, its name and its graph
  before,     \* history: dir when the command began
  touched     \* history: what the user has edited or created and may expect
              \* to find again

vars == <<previous, dir, onDisk, state, pc, restored, reported, command, before, touched>>

(***************************************************************************)
(* A tree is vendored from a graph by a command, and is written, synced or *)
(* edited since.  Besides there is nothing, a directory of which files are *)
(* missing, and a directory of the user's.                                 *)
(***************************************************************************)
Nothing == [is |-> "nothing"]
Part == [is |-> "part"]
Foreign == [is |-> "foreign"]
Vendored(how) == [is : how, graph : Graphs, by : 0 .. MaxCommands]
Trees == {Nothing, Part, Foreign} \cup Vendored({"written", "synced", "edited"})

\* validate_owned_vendor_directory accepts the tree, and finds this manifest.
Complete(tree) == tree.is \in {"written", "synced"}
Matches(tree, manifest) == Complete(tree) /\ tree.graph = manifest.graph

\* The directories.
Destination == <<"destination", "">>
StagingOf(name) == <<"staging", name>>
BackupOf(name) == <<"backup", name>>
Staging == StagingOf(command.name)
Backups == {BackupOf(name) : name \in Names}
Hidden == {StagingOf(name) : name \in Names} \cup Backups
Places == Hidden \cup {Destination}
BackupPlace == BackupOf(command.name)

Steps == {"Look", "CreateStaging", "Write", "SyncTree", "StagingValidation",
          "BuildFailure", "Backup", "BackupValidation", "BackupSync", "Publish",
          "PublishValidation", "PublishSync", "BackupCleanup",
          "RestoreValidation", "RollbackPublished", "Restore",
          "RollbackValidation", "RollbackSync", "RollbackCleanup", "Report"}
Ends == {"done", "failed", "crashed"}

-----------------------------------------------------------------------------
(***************************************************************************)
(* The file system.                                                        *)
(***************************************************************************)
Keep == UNCHANGED <<dir, onDisk>>

Change(new) == dir' = new /\ onDisk' = onDisk \cup {new}

\* rename_directory: the source exists and the target does not.
Rename(from, to) ==
  /\ dir[from] # Nothing /\ dir[to] = Nothing
  /\ Change([dir EXCEPT ![to] = dir[from], ![from] = Nothing])

\* remove_dir_all succeeds, or fails having deleted nothing or some files.
RemoveAll(d) == Change([dir EXCEPT ![d] = Nothing])
RemoveFails(d) == Keep \/ Change([dir EXCEPT ![d] = Part])

\* sync_vendor_parent.
Sync == onDisk' = {dir} /\ UNCHANGED dir

\* What the disk holds of a tree that was never synced may be anything.
AfterPowerFailure(d) ==
  [p \in Places |-> IF d[p].is = "written" THEN Part ELSE d[p]]

-----------------------------------------------------------------------------
(***************************************************************************)
(* The command, up to the transaction.                                     *)
(***************************************************************************)
At(step) == pc = step
Goto(step) == pc' = step

Running == UNCHANGED <<command, before, touched>>
Continue(step) ==
  Goto(step) /\ Running /\ UNCHANGED <<previous, state, restored, reported>>
Become(new, step) ==
  state' = new /\ Goto(step) /\ Running /\ UNCHANGED <<previous, restored, reported>>
Fail(naming) ==
  /\ Goto("failed") /\ reported' = {d \in naming : dir'[d] # Nothing}
  /\ Running /\ UNCHANGED <<previous, state, restored>>

\* The next command takes the project lock.
Begin(name, graph) ==
  /\ pc \in Ends /\ command.number < MaxCommands
  /\ command' = [number |-> command.number + 1, name |-> name, graph |-> graph]
  /\ before' = dir
  /\ previous' = Nothing /\ state' = "Prepared" /\ restored' = FALSE /\ reported' = {}
  /\ Goto("Look")
  /\ Keep /\ UNCHANGED touched

\* The destination must be absent or a complete vendored tree.
Look ==
  /\ At("Look")
  /\ dir[Destination] = Nothing \/ Complete(dir[Destination])
  /\ previous' = dir[Destination]
  /\ Goto("CreateStaging")
  /\ Keep /\ Running /\ UNCHANGED <<state, restored, reported>>

LookFails == At("Look") /\ Keep /\ Fail({})

CreateStaging ==
  /\ At("CreateStaging") /\ dir[Staging] = Nothing
  /\ Change([dir EXCEPT ![Staging] = Part])
  /\ Continue("Write")

CreateStagingFails == At("CreateStaging") /\ Keep /\ Fail({Staging})

\* The packages are captured, compared with the lock and written, then the
\* manifest.
Write ==
  /\ At("Write")
  /\ Change([dir EXCEPT ![Staging] =
       [is |-> "written", graph |-> command.graph, by |-> command.number]])
  /\ Continue("SyncTree")

\* Mutant: the new tree is not synced before it is published.
MutSyncTree == At("SyncTree") /\ Keep /\ Continue("StagingValidation")

SyncTree ==
  /\ At("SyncTree")
  /\ Change([dir EXCEPT ![Staging].is = "synced"])
  /\ Continue("StagingValidation")

StagingValidation ==
  /\ At("StagingValidation") /\ Matches(dir[Staging], command)
  /\ Keep
  /\ Continue(IF previous = Nothing THEN "Publish" ELSE "Backup")

BuildFails ==
  /\ pc \in {"Write", "SyncTree", "StagingValidation"}
  /\ Keep
  /\ Continue("BuildFailure")

\* vendor_build_failure.
BuildFailure == At("BuildFailure") /\ RemoveAll(Staging) /\ Fail({})
BuildFailureFails == At("BuildFailure") /\ RemoveFails(Staging) /\ Fail({Staging})

-----------------------------------------------------------------------------
(***************************************************************************)
(* The transaction.                                                        *)
(***************************************************************************)
\* run turns to rollback, which first looks at the backup if there is one.
BeginRollback ==
  /\ Goto(IF previous # Nothing /\ state \in {"BackupReady", "Published"}
          THEN "RestoreValidation" ELSE "RollbackPublished")
  /\ restored' = TRUE
  /\ Running /\ UNCHANGED <<previous, state, reported>>

\* A step before the commit fails: its checkpoint, the operation itself or
\* the validation.
StepFails ==
  /\ pc \in {"Backup", "BackupValidation", "BackupSync", "Publish",
             "PublishValidation", "PublishSync"}
  /\ Keep
  /\ BeginRollback

\* backup_existing.
Backup ==
  /\ At("Backup")
  /\ Rename(Destination, BackupPlace)
  /\ Become("BackupReady", "BackupValidation")

BackupValidation ==
  /\ At("BackupValidation") /\ Matches(dir[BackupPlace], previous)
  /\ Keep
  /\ Continue("BackupSync")

BackupSync == At("BackupSync") /\ Sync /\ Continue("Publish")

Publish ==
  /\ At("Publish")
  /\ Rename(Staging, Destination)
  /\ Become("Published", "PublishValidation")

PublishValidation ==
  /\ At("PublishValidation") /\ Matches(dir[Destination], command)
  /\ Keep
  /\ Continue("PublishSync")

PublishSync ==
  /\ At("PublishSync")
  /\ Sync
  /\ IF previous = Nothing THEN Become("Committed", "done") ELSE Continue("BackupCleanup")

\* The backup is validated once more and deleted.
BackupCleanup ==
  /\ At("BackupCleanup") /\ Matches(dir[BackupPlace], previous)
  /\ RemoveAll(BackupPlace)
  /\ Become("Committed", "done")

BackupCleanupFails ==
  /\ At("BackupCleanup")
  /\ RemoveFails(BackupPlace)
  /\ BeginRollback

-----------------------------------------------------------------------------
(***************************************************************************)
(* The rollback.                                                           *)
(***************************************************************************)
\* A step of the rollback fails; the later ones see it in restored.
GiveUp(step) == Goto(step) /\ restored' = FALSE /\ Running /\ UNCHANGED <<previous, state, reported>>

RestoreValidation ==
  /\ At("RestoreValidation") /\ Matches(dir[BackupPlace], previous)
  /\ Keep
  /\ Continue("RollbackPublished")

RestoreValidationFails == At("RestoreValidation") /\ Keep /\ GiveUp("RollbackPublished")

\* The new tree goes back to staging, if it had been published.
Withdraws == state = "Published" /\ restored

RollbackPublished ==
  /\ At("RollbackPublished")
  /\ IF Withdraws
     THEN Rename(Destination, Staging) /\ Become("BackupReady", "Restore")
     ELSE Keep /\ Continue("Restore")

RollbackPublishedFails ==
  At("RollbackPublished") /\ Withdraws /\ Keep /\ GiveUp("Restore")

\* The old tree goes back to the destination.
Restores == previous # Nothing /\ state = "BackupReady" /\ restored

Restore ==
  /\ At("Restore")
  /\ IF Restores
     THEN Rename(BackupPlace, Destination) /\ Become("Prepared", "RollbackValidation")
     ELSE Keep /\ Continue("RollbackValidation")

RestoreFails == At("Restore") /\ Restores /\ Keep /\ GiveUp("RollbackValidation")

RollbackValidation ==
  /\ At("RollbackValidation")
  /\ restored =>
       IF previous = Nothing THEN dir[Destination] = Nothing
       ELSE Matches(dir[Destination], previous)
  /\ Keep
  /\ Continue("RollbackSync")

RollbackValidationFails ==
  At("RollbackValidation") /\ restored /\ Keep /\ GiveUp("RollbackSync")

RollbackSync == At("RollbackSync") /\ Sync /\ Continue("RollbackCleanup")

RollbackSyncFails == At("RollbackSync") /\ Keep /\ GiveUp("RollbackCleanup")

\* The withdrawn tree is deleted only if the old one is back.  A failure here
\* is reported and changes nothing else.
Cleans == restored /\ dir[Staging] # Nothing

RollbackCleanup ==
  /\ At("RollbackCleanup")
  /\ IF Cleans THEN RemoveAll(Staging) ELSE Keep
  /\ Continue("Report")

RollbackCleanupFails ==
  /\ At("RollbackCleanup") /\ Cleans
  /\ RemoveFails(Staging)
  /\ Continue("Report")

\* Mutant: the published tree counts as a path to recover from too.
MutReport ==
  /\ At("Report")
  /\ state' = IF restored THEN "RolledBack" ELSE state
  /\ reported' = {d \in {Destination, Staging, BackupPlace} : dir[d] # Nothing}
  /\ Goto("failed")
  /\ Keep /\ Running /\ UNCHANGED <<previous, restored>>

\* The end of a rollback: the error names the hidden directories that exist.
Report ==
  /\ At("Report")
  /\ state' = IF restored THEN "RolledBack" ELSE state
  /\ reported' = {d \in {Staging, BackupPlace} : dir[d] # Nothing}
  /\ Goto("failed")
  /\ Keep /\ Running /\ UNCHANGED <<previous, restored>>

-----------------------------------------------------------------------------
(***************************************************************************)
(* The surroundings.                                                       *)
(***************************************************************************)
\* The process is killed.
Kill == pc \in Steps /\ Keep /\ Continue("crashed")

\* The machine loses power.
PowerFailure ==
  /\ pc # "crashed"
  /\ \E d \in onDisk : dir' = AfterPowerFailure(d)
  /\ onDisk' = {dir'}
  /\ touched' = {t \in touched : \E p \in Places : dir'[p] = t}
  /\ Goto("crashed")
  /\ UNCHANGED <<previous, state, restored, reported, command, before>>

\* The user edits a tree, or makes a directory where there is none.  He cannot
\* expect to keep what he does to a tree while a command is installing it.
User ==
  /\ Cardinality(touched) < MaxTouched
  /\ \/ /\ Complete(dir[Destination])
        /\ Change([dir EXCEPT ![Destination].is = "edited"])
     \/ /\ dir[Destination] = Nothing
        /\ Change([dir EXCEPT ![Destination] = Foreign])
  /\ LET done == dir'[Destination] IN
     touched' = IF pc \in Steps /\ done # Foreign /\ done.by = command.number
                THEN touched ELSE touched \cup {done}
  /\ UNCHANGED <<previous, state, pc, restored, reported, command, before>>

-----------------------------------------------------------------------------
Init ==
  /\ dir \in {[p \in Places |-> IF p = Destination THEN t ELSE Nothing] :
                t \in {Nothing} \cup [is : {"synced"}, graph : Graphs, by : {0}]}
  /\ onDisk = {dir} /\ before = dir
  /\ previous = Nothing /\ state = "Prepared" /\ restored = FALSE /\ reported = {}
  /\ pc = "done"
  /\ command \in [number : {0}, name : Names, graph : Graphs]
  /\ touched = {}

Build ==
  \/ \E name \in Names, graph \in Graphs : Begin(name, graph)
  \/ Look \/ LookFails \/ CreateStaging \/ CreateStagingFails
  \/ Write \/ SyncTree \/ StagingValidation \/ BuildFails
  \/ BuildFailure \/ BuildFailureFails

Run ==
  \/ Backup \/ BackupValidation \/ BackupSync \/ Publish \/ PublishValidation
  \/ PublishSync \/ BackupCleanup \/ BackupCleanupFails \/ StepFails

Rollback ==
  \/ RestoreValidation \/ RestoreValidationFails
  \/ RollbackPublished \/ RollbackPublishedFails
  \/ Restore \/ RestoreFails
  \/ RollbackValidation \/ RollbackValidationFails
  \/ RollbackSync \/ RollbackSyncFails
  \/ RollbackCleanup \/ RollbackCleanupFails \/ Report

Next == Build \/ Run \/ Rollback \/ Kill \/ PowerFailure \/ User

Spec == Init /\ [][Next]_vars

-----------------------------------------------------------------------------
\* Type invariant of the commands.
TypeOK ==
  /\ previous \in Trees
  /\ dir \in [Places -> Trees] /\ onDisk \subseteq [Places -> Trees]
  /\ state \in {"Prepared", "BackupReady", "Published", "Committed", "RolledBack"}
  /\ pc \in Steps \cup Ends
  /\ restored \in BOOLEAN
  /\ reported \subseteq Hidden
  /\ command \in [number : 0 .. MaxCommands, name : Names, graph : Graphs]
  /\ before \in [Places -> Trees]
  /\ touched \subseteq Trees

Installed == previous # Nothing

\* The tree, with the user's edits.
IsTree(tree, original) ==
  tree.is \in {"written", "synced", "edited"} /\ tree.by = original.by

\* A tree with all its files is at the destination or in a backup, for the
\* processes and on whatever a power failure leaves.
Safe ==
  \A d \in {dir} \cup {AfterPowerFailure(e) : e \in onDisk} :
    \E p \in {Destination} \cup Backups : d[p].is \in {"synced", "edited"}

\* Once a vendored tree is safe one always is, whatever fails and whenever the
\* process or the machine stops.
SomeTreeSurvives == Safe => Safe'

\* A rollback that claims success has put the old tree back for good, even
\* against a power failure, and has kept no copy of it in its backup.
RolledBackIsDurable ==
  state = "RolledBack" /\ pc = "failed" =>
    /\ \A d \in onDisk :
         IF Installed THEN IsTree(d[Destination], previous)
         ELSE d[Destination] \in {Nothing, Foreign}
    /\ Installed /\ dir[BackupPlace] # Nothing => dir[BackupPlace] = before[BackupPlace]

\* A commit has the new tree safely in place and leaves no hidden directory behind; a
\* command that fails names every one it leaves
\* (reference/migration-1.1.18.md:26).
NothingForgotten ==
  LET left == {d \in Hidden : dir[d] # Nothing /\ dir[d] # before[d]} IN
  /\ pc = "done" /\ command.number > 0 =>
       left = {} /\ IsTree(dir[Destination], [by |-> command.number]) /\ Safe
  /\ pc = "failed" => left \subseteq reported

\* What a command says of its end is true.
ReportIsTrue == RolledBackIsDurable /\ NothingForgotten

\* What a killed command has left is nobody's to take: a later one neither
\* uses nor deletes it, even one whose hidden directories have the same names.
LeftoversStay ==
  pc # "crashed" =>
    \A d \in Hidden : before[d] # Nothing => dir[d] = before[d]

\* What the user has done to the old tree, or put where there was none, is
\* never deleted: it is at the destination or in a backup.
EditsStay == \A t \in touched : \E p \in {Destination} \cup Backups : dir[p] = t

\* CHANGELOG.md:59 says that a failed replacement restores the old tree, or
\* else keeps all that is needed to recover it.
OldTreeRecoverable ==
  pc = "failed" /\ Installed =>
    \E p \in {Destination, BackupPlace} : dir[p] # Part /\ IsTree(dir[p], previous)

=============================================================================

------------------------------- MODULE Resolution -------------------------------
(***************************************************************************)
(* What may happen while a project's dependencies are resolved:            *)
(* resolve_graph_mode, freeze_resolution_graph, the dependency edits and   *)
(* the graph cache of crates/yanxu-package/src/package.rs.                 *)
(*                                                                         *)
(* Threads of one process run the commands.  Writers hold the project lock *)
(* (a file lock that dies with its holder); readers do not, and the user   *)
(* may save the manifest or a dependency's source at any time.  Which      *)
(* packages are chosen is DependencyGraph's matter: here the lock file     *)
(* records the manifest it was written for and the content of one source   *)
(* tree.                                                                   *)
(***************************************************************************)
EXTENDS Integers, FiniteSets

CONSTANTS
  Threads,
  MaxRevisions, \* bound: revisions of the manifest up to which the user saves
  MaxTrees,     \* bound: contents of the source tree
  MaxCommands   \* bound: commands begun

VARIABLES
  text,        \* the manifest: a revision, the aliases edits added, validity
  lockFile,    \* the lock file
  tree,        \* the content of the dependency's source tree
  projectLock, \* the threads holding the project lock
  graphs,      \* the graph cache of the project: a set of at most one result
  scopes,      \* its open scopes
  jobs,        \* each thread's command and where it stands
  newest,      \* the last revision of the manifest
  begun,       \* commands begun
  together,    \* history: the combinations that were ever on disk at once
  promised     \* history: aliases whose edit reported success, since the
               \* user last saved the manifest

vars == <<text, lockFile, tree, projectLock, graphs, scopes, jobs, newest,
          begun, together, promised>>
disk == <<text, lockFile, tree>>

NoLock == [revision |-> 0, tree |-> 0]
LockFor(t, s) == [revision |-> t.revision, tree |-> s]

Writers == {"install", "update", "build", "run"}
Commands == Writers \cup {"plan", "inspect", "edit"}
Reuses(c) == c \notin {"update", "plan"}

Idle == [command |-> "none", step |-> "idle"]
Step(t) == jobs[t].step
Command(t) == jobs[t].command
Goto(t, step) == jobs' = [jobs EXCEPT ![t].step = step]

\* What the disk holds now, for the history.
Seen(x, l, s) == <<x.revision, l, s>>
Record == together' = together \cup {Seen(text', lockFile', tree')}
Quiet == UNCHANGED <<disk, together>>

-----------------------------------------------------------------------------
(***************************************************************************)
(* The project lock, the scopes and the graph cache.                       *)
(***************************************************************************)
Free(t) == projectLock' = projectLock \ {t}

\* The guard of the last scope empties the cache with it.
DropScope == /\ scopes' = scopes - 1
             /\ graphs' = IF scopes = 1 THEN {} ELSE graphs

\* Mutant: a result is cached whether a scope is open or not.
MutCacheGraph(r) == graphs' = {r}

\* cache_graph: one step, for the scopes stay locked over it.
CacheGraph(r) == graphs' = IF scopes > 0 THEN {r} ELSE graphs

Finish(t) == jobs' = [jobs EXCEPT ![t] = Idle]

\* Any failure: the guards of the command are dropped on the way out.
GiveUp(t) ==
  /\ Finish(t) /\ Free(t) /\ Quiet
  /\ IF Command(t) = "run" THEN DropScope ELSE UNCHANGED <<scopes, graphs>>
  /\ UNCHANGED <<newest, begun, promised>>

\* A step that only moves on.
Move(t, step) ==
  /\ Goto(t, step) /\ Quiet
  /\ UNCHANGED <<projectLock, graphs, scopes, newest, begun, promised>>

-----------------------------------------------------------------------------
(***************************************************************************)
(* A resolution, one read or write of the disk at a time.                  *)
(***************************************************************************)
\* The command loads the manifest; run opens its scope and asks the cache
\* first.
Begin(t) ==
  /\ Step(t) = "idle" /\ begun < MaxCommands /\ begun' = begun + 1
  /\ \E c \in Commands :
       /\ c # "edit" => text.valid
       /\ scopes' = IF c = "run" THEN scopes + 1 ELSE scopes
       /\ jobs' = [jobs EXCEPT ![t] =
            [command |-> c, step |-> IF c \in {"run", "inspect"} THEN "import" ELSE "acquire",
             text |-> text, lock |-> NoLock, tree |-> 0]]
  /\ Quiet /\ UNCHANGED <<projectLock, graphs, newest, promised>>

\* Mutant: install and update do not take the project lock.
MutAcquire(t) ==
  /\ Step(t) = "acquire"
  /\ Command(t) \in {"build", "edit"} => projectLock = {}
  /\ projectLock' = IF Command(t) \in {"build", "edit"} THEN {t} ELSE projectLock
  /\ Goto(t, IF Command(t) = "edit" THEN "read" ELSE "bind")
  /\ Quiet /\ UNCHANGED <<graphs, scopes, newest, begun, promised>>

\* acquire_project_lock, which waits; plan and inspect do without.
Acquire(t) ==
  /\ Step(t) = "acquire"
  /\ Command(t) \in Writers \cup {"edit"} => projectLock = {}
  /\ projectLock' = IF Command(t) \in Writers \cup {"edit"} THEN {t} ELSE projectLock
  /\ Goto(t, IF Command(t) = "edit" THEN "read" ELSE "bind")
  /\ Quiet /\ UNCHANGED <<graphs, scopes, newest, begun, promised>>

\* bind_resolution_manifest: the file must still be what the caller loaded.
Bind(t) ==
  /\ Step(t) = "bind"
  /\ IF text = jobs[t].text THEN Move(t, "readLock") ELSE GiveUp(t)

\* read_optional_lock.
ReadLock(t) ==
  /\ Step(t) = "readLock"
  /\ jobs' = [jobs EXCEPT ![t].step = "resolve",
                          ![t].lock = IF Reuses(Command(t)) THEN lockFile ELSE NoLock]
  /\ Quiet /\ UNCHANGED <<projectLock, graphs, scopes, newest, begun, promised>>

\* The builder reads the source tree; a lock of this manifest must name it.
ResolveTree(t) ==
  /\ Step(t) = "resolve"
  /\ IF jobs[t].lock.revision = jobs[t].text.revision /\ jobs[t].lock.tree # tree
     THEN GiveUp(t)
     ELSE /\ jobs' = [jobs EXCEPT ![t].step = "write", ![t].tree = tree]
          /\ Quiet
          /\ UNCHANGED <<projectLock, graphs, scopes, newest, begun, promised>>

\* write_lock, an atomic replacement, if there is anything new; from here on
\* the job's lock is the one the disk must show.
WriteLock(t) ==
  LET new == LockFor(jobs[t].text, jobs[t].tree)
      expected == IF Command(t) \in Writers THEN new ELSE jobs[t].lock
  IN /\ Step(t) = "write"
     /\ lockFile' = IF Command(t) \in Writers /\ jobs[t].lock # new THEN new ELSE lockFile
     /\ jobs' = [jobs EXCEPT ![t].step = "freezeText", ![t].lock = expected]
     /\ UNCHANGED <<text, tree, projectLock, graphs, scopes, newest, begun, promised>>
     /\ Record

\* Mutant: the manifest is not read again.
MutFreezeText(t) == Step(t) = "freezeText" /\ Move(t, "freezeLock")

\* freeze_resolution_graph reads the manifest again, the lock file again and
\* the source tree again.  The generation it publishes is immutable.
FreezeText(t) ==
  /\ Step(t) = "freezeText"
  /\ IF text = jobs[t].text THEN Move(t, "freezeLock") ELSE GiveUp(t)

FreezeLock(t) ==
  /\ Step(t) = "freezeLock"
  /\ IF jobs[t].lock \in {NoLock, lockFile} THEN Move(t, "freezeTree") ELSE GiveUp(t)

FreezeTree(t) ==
  /\ Step(t) = "freezeTree"
  /\ IF tree = jobs[t].tree THEN Move(t, "resolved") ELSE GiveUp(t)

Result(t) == Seen(jobs[t].text, jobs[t].lock, jobs[t].tree)

-----------------------------------------------------------------------------
(***************************************************************************)
(* What a command does with the result.                                    *)
(***************************************************************************)
\* plan_update and a read-only import return it.
Return(t) ==
  /\ Step(t) = "resolved" /\ Command(t) \in {"plan", "inspect"}
  /\ Finish(t) /\ Quiet
  /\ UNCHANGED <<projectLock, graphs, scopes, newest, begun, promised>>

\* The others let go of the project lock, and cache the result afterwards.
Release(t) ==
  /\ Step(t) = "resolved" /\ Command(t) \in {"install", "update", "run"}
  /\ Free(t) /\ Goto(t, "cache") /\ Quiet
  /\ UNCHANGED <<graphs, scopes, newest, begun, promised>>

Cache(t) ==
  /\ Step(t) = "cache"
  /\ CacheGraph(Result(t))
  /\ IF Command(t) = "run" THEN Goto(t, "running") ELSE Finish(t)
  /\ Quiet /\ UNCHANGED <<projectLock, scopes, newest, begun, promised>>

\* with_locked_resolution: the operation runs under the lock, in a scope of
\* its own.
StartOperation(t) ==
  /\ Step(t) = "resolved" /\ Command(t) = "build"
  /\ scopes' = scopes + 1 /\ graphs' = {Result(t)}
  /\ Goto(t, "operation") /\ Quiet
  /\ UNCHANGED <<projectLock, newest, begun, promised>>

EndOperation(t) ==
  /\ Step(t) = "operation"
  /\ DropScope /\ Free(t) /\ Finish(t) /\ Quiet
  /\ UNCHANGED <<newest, begun, promised>>

EndRun(t) ==
  /\ Step(t) = "running"
  /\ DropScope /\ Finish(t) /\ Quiet
  /\ UNCHANGED <<projectLock, newest, begun, promised>>

\* validate_cached_resolution.
Current(r) == r = Seen(text, IF r[2] = NoLock THEN NoLock ELSE lockFile, tree)

\* cached_or_resolve_graph_mode: a cached graph is served if it is current,
\* and is otherwise an error; without one, the manifest is loaded again.
Import(t) ==
  /\ Step(t) \in {"import", "running"}
  /\ \/ /\ \E r \in graphs : Current(r)
        /\ IF Command(t) = "inspect"
           THEN Finish(t) ELSE Goto(t, "running")
        /\ Quiet /\ UNCHANGED <<projectLock, graphs, scopes, newest, begun, promised>>
     \/ /\ \E r \in graphs : ~Current(r)
        /\ GiveUp(t)
     \/ /\ graphs = {}
        /\ IF Command(t) = "inspect" THEN Move(t, "acquire")
           ELSE IF ~text.valid THEN GiveUp(t)
           ELSE /\ jobs' = [jobs EXCEPT ![t].step = "acquire", ![t].text = text]
                /\ Quiet
                /\ UNCHANGED <<projectLock, graphs, scopes, newest, begun, promised>>

-----------------------------------------------------------------------------
(***************************************************************************)
(* edit_dependency and edit_application: thread t adds alias t.            *)
(***************************************************************************)
\* Mutant: the text loaded before the lock was taken is the one edited.
MutReadText(t) == Step(t) = "read" /\ Move(t, "save")

ReadText(t) ==
  /\ Step(t) = "read"
  /\ IF ~text.valid THEN GiveUp(t)
     ELSE /\ jobs' = [jobs EXCEPT ![t].step = "save", ![t].text = text]
          /\ Quiet
          /\ UNCHANGED <<projectLock, graphs, scopes, newest, begun, promised>>

\* The new text may turn out invalid, for instance if the path it names does
\* not exist.
SaveText(t) ==
  /\ Step(t) = "save"
  /\ newest' = newest + 1
  /\ \E v \in BOOLEAN :
       text' = [revision |-> newest', added |-> jobs[t].text.added \cup {t}, valid |-> v]
  /\ Goto(t, "check")
  /\ UNCHANGED <<lockFile, tree, projectLock, graphs, scopes, begun, promised>>
  /\ Record

\* The file is loaded again.  If that fails the original is written back,
\* which may fail too and is not reported.
CheckText(t) ==
  /\ Step(t) = "check"
  /\ IF text.valid
     THEN UNCHANGED text /\ graphs' = {} /\ promised' = promised \cup {t}
     ELSE text' \in {text, jobs[t].text} /\ UNCHANGED <<graphs, promised>>
  /\ Finish(t) /\ Free(t)
  /\ UNCHANGED <<lockFile, tree, scopes, newest, begun>>
  /\ Record

-----------------------------------------------------------------------------
(***************************************************************************)
(* The user and the operating system.                                      *)
(***************************************************************************)
\* The user's editor saves over whatever is there.
UserSaves ==
  /\ newest < MaxRevisions /\ newest' = newest + 1
  /\ \E v \in BOOLEAN : text' = [revision |-> newest', added |-> {}, valid |-> v]
  /\ promised' = {}
  /\ UNCHANGED <<lockFile, tree, projectLock, graphs, scopes, jobs, begun>>
  /\ Record

UserEditsSource ==
  /\ tree < MaxTrees /\ tree' = tree + 1
  /\ UNCHANGED <<text, lockFile, projectLock, graphs, scopes, jobs, newest, begun, promised>>
  /\ Record

UserDeletesLock ==
  /\ lockFile # NoLock /\ lockFile' = NoLock
  /\ UNCHANGED <<text, tree, projectLock, graphs, scopes, jobs, newest, begun, promised>>
  /\ Record

\* The process is killed; a new one finds the disk as it is.
Kill ==
  /\ \E t \in Threads : Step(t) # "idle"
  /\ jobs' = [t \in Threads |-> Idle]
  /\ projectLock' = {} /\ scopes' = 0 /\ graphs' = {}
  /\ Quiet /\ UNCHANGED <<newest, begun, promised>>

Init ==
  /\ text = [revision |-> 1, added |-> {}, valid |-> TRUE]
  /\ lockFile \in {NoLock, LockFor(text, 1)}
  /\ tree = 1
  /\ projectLock = {} /\ graphs = {} /\ scopes = 0
  /\ jobs = [t \in Threads |-> Idle]
  /\ newest = 1 /\ begun = 0
  /\ together = {Seen(text, lockFile, tree)}
  /\ promised = {}

Advance(t) ==
  \/ Begin(t) \/ Acquire(t) \/ Bind(t) \/ ReadLock(t) \/ ResolveTree(t)
  \/ WriteLock(t) \/ FreezeText(t) \/ FreezeLock(t) \/ FreezeTree(t)
  \/ Return(t) \/ Release(t) \/ Cache(t) \/ StartOperation(t)
  \/ EndOperation(t) \/ EndRun(t) \/ Import(t)
  \/ ReadText(t) \/ SaveText(t) \/ CheckText(t)

User == UserSaves \/ UserEditsSource \/ UserDeletesLock

Next == (\E t \in Threads : Advance(t)) \/ User \/ Kill

Spec == Init /\ [][Next]_vars

-----------------------------------------------------------------------------
Revisions == 0 .. MaxRevisions + MaxCommands
Steps == {"idle", "import", "acquire", "bind", "readLock", "resolve", "write",
          "freezeText", "freezeLock", "freezeTree", "resolved", "cache",
          "operation", "running", "read", "save", "check"}

TypeOK ==
  /\ text \in [revision : Revisions, added : SUBSET Threads, valid : BOOLEAN]
  /\ lockFile \in [revision : Revisions, tree : 0 .. MaxTrees]
  /\ tree \in 1 .. MaxTrees
  /\ projectLock \subseteq Threads /\ Cardinality(projectLock) <= 1
  /\ Cardinality(graphs) <= 1 /\ scopes \in 0 .. Cardinality(Threads)
  /\ \A t \in Threads : Step(t) \in Steps /\ Command(t) \in Commands \cup {"none"}

\* What a finished resolution returns, or leaves in the cache, is a manifest,
\* a lock file and a source content that were on disk at one and the same
\* moment, though it reads them one after the other, without a lock in the
\* read-only commands, while the user and other commands may change each.
\* (A result without a lock file stands for its manifest and source alone.)
ConsistentSnapshot ==
  LET witnessed(r) == \E s \in together : s = r \/ (r[2] = NoLock /\ s[1] = r[1] /\ s[3] = r[3])
  IN /\ \A r \in graphs : witnessed(r)
     /\ \A t \in Threads : Step(t) \in {"resolved", "cache"} => witnessed(Result(t))

\* The graph cache, with the directories it keeps open, is empty whenever no
\* scope is open: no result is cached after the last scope was closed.
CacheScoped == scopes = 0 => graphs = {}

\* While a build's operation runs, nobody but the user changes the manifest or
\* the lock file: installs, updates and edits wait for the project lock.
Undisturbed ==
  (\E t \in Threads : Step(t) = "operation") =>
    UNCHANGED <<text, lockFile>> \/ UserSaves \/ UserDeletesLock
BuildUndisturbed == [][Undisturbed]_vars

\* An edit that reported success is in the manifest until the user saves over
\* it, whatever other edits, failures, rollbacks or kills come after.
NoLostEdit == promised \subseteq text.added

=============================================================================

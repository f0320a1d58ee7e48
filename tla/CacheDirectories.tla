--------------------------- MODULE CacheDirectories ---------------------------
(***************************************************************************)
(* How a request comes to the directory of its key in the cache of         *)
(* resolutions, Git sources or registry packages, and to the lock of the   *)
(* key (crates/yanxu-package/src/package.rs).  Every component is made if  *)
(* it is not there, and must be a directory and no link; processes that    *)
(* come together make the same components.                                 *)
(*                                                                         *)
(* One key.  A step is one system call, or the few of which only one       *)
(* matters.  A process may be killed, the machine may lose power, and      *)
(* something outside may put anything in the place of a component.         *)
(***************************************************************************)
EXTENDS Integers, Sequences, FiniteSets

CONSTANTS
  Procs,
  MaxHarm    \* bound: replacements from outside and power failures

VARIABLES
  kind,      \* which of the three caches
  node,      \* what each name is now
  unsynced,  \* names made whose directory was not synced since
  ident,     \* the harm that replaced a name or one above it last
  holders,   \* <<process, lock file>>: who holds which
  at,        \* the step of each process, 0 when idle, -1 when refused
  made,      \* the process has just made the component
  entered,   \* the directory of the lock a process has open, by its ident
  clean,     \* nothing was replaced since the request began
  harm,      \* replacements and power failures so far
  outside    \* history: what went wrong though nobody interfered

vars == <<kind, node, unsynced, ident, holders, at, made, entered, clean, harm, outside>>
fixed == <<kind, ident, harm>>

Above == [cache |-> <<>>, store |-> <<"cache">>, layout |-> <<"cache", "store">>,
          locks |-> <<"cache", "store", "layout">>,
          lock |-> <<"cache", "store", "layout", "locks">>,
          state |-> <<"cache", "store", "layout", "locks", "lock">>,
          name |-> <<"cache", "store", "layout">>,
          key |-> <<"cache", "store", "layout", "name">>]
Names == {"cache", "store", "layout", "locks", "lock", "state", "name", "key"}
LockNames == {"locks", "lock", "state"}
Parent(d) == Above[d][Len(Above[d])]
Over(d) == {Above[d][i] : i \in 1 .. Len(Above[d])}
Below(d) == {e \in Names : d \in Over(e)}

\* Mutant: a component that is there already is not looked at.
MutChecked(d) == <<<<"make", d>>, <<"sync", d>>>>
\* create_checked_cache_directory.
Checked(d) == <<<<"make", d>>, <<"check", d>>, <<"sync", d>>, <<"inside", d>>>>

\* resolution_generation_cache_root, git_cache_layout_root, and the beginning
\* of acquire_registry_package_lock, whose cache is made by its caller.
ResolutionRoot ==
  <<<<"ensure", "cache">>, <<"check", "cache">>,
    <<"make", "store">>, <<"sync", "store">>, <<"check", "store">>,
    <<"make", "layout">>, <<"sync", "layout">>, <<"check", "layout">>, <<"inside", "layout">>>>
GitRoot ==
  <<<<"ensure", "cache">>, <<"check", "cache">>>> \o Checked("store") \o Checked("layout")
RegistryRoot == <<<<"ensure", "layout">>, <<"check", "layout">>, <<"inside", "layout">>>>

\* ProjectLock::acquire_under.
Acquire ==
  <<<<"enter", "locks">>, <<"enter", "lock">>, <<"enter", "state">>, <<"take", "state">>>>
ResolutionLock ==
  <<<<"make", "locks">>, <<"sync", "locks">>, <<"check", "locks">>,
    <<"look", "lock">>, <<"look", "state">>>>
  \o Acquire
  \o <<<<"inside", "lock">>, <<"check", "lock">>, <<"check", "state">>>>
\* acquire_git_cache_lock and the rest of acquire_registry_package_lock.
GitLock ==
  <<<<"look", "locks">>, <<"look", "lock">>, <<"look", "state">>>>
  \o Acquire
  \o <<<<"check", "locks">>, <<"check", "lock">>, <<"check", "state">>, <<"inside", "lock">>>>
RegistryLock == GitLock

\* create_resolution_checksum_root.
ResolutionKey == <<<<"make", "name">>, <<"sync", "name">>, <<"check", "name">>, <<"inside", "name">>>>
\* existing_registry_snapshot_checksum_root only looks.
RegistryLookup == <<<<"look", "name">>, <<"look", "key">>>>
\* create_registry_snapshot_checksum_root.
RegistryKey == Checked("name") \o Checked("key")

Program ==
  CASE kind = "resolution" -> ResolutionRoot \o ResolutionLock \o ResolutionKey
    [] kind = "git" -> GitRoot \o GitLock \o Checked("name")
    [] OTHER -> RegistryRoot \o RegistryLock \o RegistryLookup \o RegistryKey

Proceed(p) == at' = [at EXCEPT ![p] = @ + 1]
Fail(p) ==
  /\ at' = [at EXCEPT ![p] = -1]
  /\ holders' = {h \in holders : h[1] # p}
  /\ UNCHANGED <<node, unsynced, made, entered, clean, outside, fixed>>
Pass(p) == Proceed(p) /\ UNCHANGED <<node, unsynced, holders, made, entered, clean, outside, fixed>>

\* The path leads through a link, or ends before the name.
Led(d) == LET above == Above[d] IN \E i \in DOMAIN above : node[above[i]] = "link"
Cut(d) ==
  /\ ~Led(d)
  /\ LET above == Above[d] IN \E i \in DOMAIN above : node[above[i]] \in {"absent", "other"}

-----------------------------------------------------------------------------
\* create_dir; that something is there already is no error.
Make(p, d) ==
  /\ \/ Cut(d) /\ Fail(p)
     \/ /\ ~Cut(d)
        /\ Proceed(p)
        /\ LET new == node[d] = "absent" /\ ~Led(d)
           IN /\ node' = IF new THEN [node EXCEPT ![d] = "directory"] ELSE node
              /\ unsynced' = IF new THEN unsynced \cup {d} ELSE unsynced
              /\ made' = [made EXCEPT ![p] = new]
        /\ outside' = (outside \/ (Led(d) /\ clean[p]))
        /\ UNCHANGED <<holders, entered, clean, fixed>>

\* create_dir_all.
Ensure(p, d) ==
  /\ LET chain == Over(d) \cup {d}
         new == {e \in chain : node[e] = "absent"}
     IN \/ (\E e \in chain : node[e] = "other") /\ Fail(p)
        \/ /\ \A e \in chain : node[e] # "other"
           /\ Proceed(p)
           /\ IF \E e \in chain : node[e] = "link" THEN UNCHANGED <<node, unsynced>>
              ELSE /\ node' = [e \in Names |-> IF e \in new THEN "directory" ELSE node[e]]
                   /\ unsynced' = unsynced \cup (new \ {"cache"})
           /\ UNCHANGED <<holders, made, entered, clean, outside, fixed>>

\* The metadata of the name itself: a directory and nothing else.
Check(p, d) ==
  /\ IF Led(d) \/ (~Cut(d) /\ node[d] = "directory") THEN Pass(p) ELSE Fail(p)

\* reject_invalid_existing_cache_directory: it may also be absent.
Look(p, d) ==
  /\ IF Led(d) \/ node[d] \in {"absent", "directory"} THEN Pass(p) ELSE Fail(p)

\* canonicalize: without links, and under its parent.
Inside(p, d) ==
  /\ IF ~Cut(d) /\ node[d] = "directory" THEN Pass(p) ELSE Fail(p)

\* sync_registry_directory_parent by the one who made the name.
Sync(p, d) ==
  /\ Proceed(p)
  /\ made' = [made EXCEPT ![p] = FALSE]
  /\ unsynced' = IF made[p] /\ ~Cut(d) /\ ~Led(d)
                 THEN {e \in unsynced : Parent(e) # Parent(d)} ELSE unsynced
  /\ UNCHANGED <<node, holders, entered, clean, outside, fixed>>

\* acquire_under_once goes from one open directory to the next, links not
\* followed.  What was entered may have been replaced at its path: then there
\* is nothing in it any more, and it begins again, or another has moved it,
\* and it goes on in there.
Enter(p, d) ==
  /\ UNCHANGED <<made, clean, outside, fixed>>
  /\ LET first == d = "locks"
         current == first \/ entered[p] = ident[Parent(d)]
     IN IF first /\ (Cut(d) \/ Led(d)) THEN
             /\ at' = [at EXCEPT ![p] = -1]
             /\ UNCHANGED <<node, unsynced, holders, entered>>
        ELSE IF ~current THEN
             /\ \/ Proceed(p)
                \/ \E i \in 1 .. Len(Program) :
                     Program[i] = <<"enter", "locks">> /\ at' = [at EXCEPT ![p] = i]
             /\ UNCHANGED <<node, unsynced, holders, entered>>
        ELSE IF node[d] \in {"link", "other"} THEN
             /\ at' = [at EXCEPT ![p] = -1]
             /\ UNCHANGED <<node, unsynced, holders, entered>>
        ELSE /\ Proceed(p)
             /\ node' = [node EXCEPT ![d] = "directory"]
             /\ unsynced' = IF node[d] = "absent" THEN unsynced \cup {d} ELSE unsynced
             /\ entered' = [entered EXCEPT ![p] = ident[d]]
             /\ UNCHANGED holders

\* The lock file of the directory that was entered, made if it is not there.
Take(p) ==
  /\ \A h \in holders : h[2] # entered[p]
  /\ holders' = holders \cup {<<p, entered[p]>>}
  /\ Proceed(p)
  /\ UNCHANGED <<node, unsynced, made, entered, clean, outside, fixed>>

-----------------------------------------------------------------------------
Begin(p) ==
  /\ at[p] <= 0
  /\ at' = [at EXCEPT ![p] = 1]
  /\ clean' = [clean EXCEPT ![p] = TRUE]
  /\ made' = [made EXCEPT ![p] = FALSE] /\ entered' = [entered EXCEPT ![p] = 0]
  /\ UNCHANGED <<node, unsynced, holders, outside, fixed>>

\* The request has its directory; what it does there GenerationStore says.
End(p) ==
  /\ at[p] = Len(Program) + 1
  /\ at' = [at EXCEPT ![p] = 0]
  /\ holders' = {h \in holders : h[1] # p}
  /\ UNCHANGED <<node, unsynced, made, entered, clean, outside, fixed>>

\* A killed process loses its locks; the next power failure counts as harm
\* done by it, for a name it has made may not be synced.
Kill(p) ==
  /\ at[p] > 0 /\ harm < MaxHarm
  /\ harm' = harm + 1
  /\ at' = [at EXCEPT ![p] = 0]
  /\ holders' = {h \in holders : h[1] # p}
  /\ UNCHANGED <<kind, node, unsynced, ident, made, entered, clean, outside>>

\* Names that were not synced may be gone, and what is below them.
PowerFails ==
  /\ harm < MaxHarm /\ harm' = harm + 1
  /\ \E lost \in SUBSET unsynced :
       LET gone == lost \cup UNION {Below(d) : d \in lost}
       IN node' = [d \in Names |-> IF d \in gone THEN "absent" ELSE node[d]]
  /\ unsynced' = {} /\ holders' = {}
  /\ at' = [p \in Procs |-> 0]
  /\ UNCHANGED <<kind, ident, made, entered, clean, outside>>

Replace(d, what) ==
  /\ harm < MaxHarm /\ harm' = harm + 1
  /\ ~Cut(d) /\ node[d] # what
  /\ LET gone == Below(d)
     IN /\ node' = [e \in Names |-> IF e = d THEN what ELSE IF e \in gone THEN "absent" ELSE node[e]]
        /\ ident' = [e \in Names |-> IF e = d \/ e \in gone THEN harm + 1 ELSE ident[e]]
        /\ unsynced' = unsynced \ ({d} \cup gone)
  /\ clean' = [p \in Procs |-> FALSE]
  /\ UNCHANGED <<kind, holders, at, made, entered, outside>>

Init ==
  /\ kind \in {"resolution", "git", "registry"}
  /\ node = [d \in Names |-> "absent"] /\ unsynced = {}
  /\ ident = [d \in Names |-> 0] /\ holders = {}
  /\ at = [p \in Procs |-> 0] /\ made = [p \in Procs |-> FALSE]
  /\ entered = [p \in Procs |-> 0] /\ clean = [p \in Procs |-> FALSE]
  /\ harm = 0 /\ outside = FALSE

Step(p) ==
  /\ at[p] > 0
  /\ LET program == Program
         op == program[at[p]][1]
         d == program[at[p]][2]
     IN /\ at[p] <= Len(program)
        /\ \/ op = "make" /\ Make(p, d)
           \/ op = "ensure" /\ Ensure(p, d)
           \/ op = "check" /\ Check(p, d)
           \/ op = "look" /\ Look(p, d)
           \/ op = "inside" /\ Inside(p, d)
           \/ op = "sync" /\ Sync(p, d)
           \/ op = "enter" /\ Enter(p, d)
           \/ op = "take" /\ Take(p)

Next ==
  \/ \E p \in Procs : Begin(p) \/ Step(p) \/ End(p) \/ Kill(p)
  \/ PowerFails
  \/ \E d \in Names, what \in {"absent", "link", "other"} : Replace(d, what)

Spec == Init /\ [][Next]_vars

-----------------------------------------------------------------------------
TypeOK ==
  /\ kind \in {"resolution", "git", "registry"}
  /\ node \in [Names -> {"absent", "directory", "link", "other"}]
  /\ unsynced \subseteq Names
  /\ holders \subseteq Procs \X (0 .. MaxHarm)
  /\ \A p \in Procs : at[p] >= -1

Untouched == \A d \in Names : ident[d] = 0

\* Requests that come together, or after one that was killed or cut off by a
\* power failure, never make each other fail: only what is no directory, or
\* was taken away meanwhile, refuses one.
RacersSucceed == Untouched => \A p \in Procs : at[p] # -1

\* A link that stood in the way before a request began is never followed.
StaysInside == ~outside

\* The lock of a key has one holder as long as nobody replaces its directories.
OneHolder == (\A d \in LockNames : ident[d] = 0) => Cardinality(holders) <= 1

\* When the requests are over and none was cut off, the names of the store and
\* of the key have reached the disk, so what is published in them stands.
QuietIsDurable ==
  harm = 0 /\ (\A p \in Procs : at[p] = 0) =>
    unsynced \subseteq LockNames \cup IF kind = "registry" THEN {"store", "layout"} ELSE {}

\* The four together.
DirectoriesHold == RacersSucceed /\ StaysInside /\ OneHolder /\ QuietIsDurable
==============================================================================

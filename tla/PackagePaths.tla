----------------------------- MODULE PackagePaths -----------------------------
(***************************************************************************)
(* Trusted package roots: a session holds opened directories and resolves  *)
(* every module, listing and snapshot from them, one component at a time,  *)
(* while others rename and replace entries of the same file system between *)
(* any two of its system calls.                                            *)
(*                                                                         *)
(* A directory, a file and a link are objects; an opened handle is the     *)
(* object itself.  One operation of the session is under way at a time and *)
(* call is its stack frame.                                                *)
(***************************************************************************)
EXTENDS PathPolicy

CONSTANTS
  Dirs, Files, Links, \* the objects
  Target,             \* [Links -> paths without links]
  Top,                \* the directory every absolute path starts from
  Start,              \* [Dirs -> [Components -> objects and Nothing]] at first
  Changes,            \* what others may do: <<directory, component, object>>
  Packages,           \* the directories that hold a manifest
  RootPaths,          \* paths the session is given as roots
  ModulePaths,        \* paths it is asked to import, snapshot or list
  Bases,              \* the directories importing modules live in
  Sets,               \* root sets of the session
  MaxChanges, MaxCalls,
  MaxDepth,           \* TOOLING_TREE_MAX_DEPTH
  Nothing

VARIABLES
  entry,    \* entry[d][c]: the object named c in d, or Nothing
  roots,    \* roots[s]: a sequence of [canonical, aliases, dir]
  call,     \* the operation under way
  snapshot, \* the latest ResolvedPackageFileSnapshot
  answer,   \* what the last operation returned
  ever,     \* history: every entry there has been
  calls, changes

pathVars == <<entry, roots, call, snapshot, answer, ever, calls, changes>>

NoRoot == [identity |-> <<>>, prefix |-> <<>>, dir |-> Nothing]
NoSnapshot == [set |-> <<>>, path |-> <<>>, object |-> Nothing]
NoAnswer == [job |-> "none"]
NoCall == [job |-> "none", step |-> "idle", set |-> Nothing, path |-> <<>>, base |-> <<>>,
           cross |-> FALSE, root |-> NoRoot, left |-> <<>>, made |-> <<>>, at |-> Nothing,
           pick |-> Nothing, todo |-> <<>>, named |-> {}, found |-> {}, dir |-> Nothing,
           canonical |-> <<>>, expected |-> {}, then |-> "idle"]

-----------------------------------------------------------------------------
(* The file system as path names see it. *)
In(o, c) == IF o \in Dirs THEN entry[o][c] ELSE Nothing
Names(d) == {c \in Components : entry[d][c] # Nothing}
Plain(path) == FoldLeft(In, Top, path)

\* canonicalize and open: links are followed wherever they stand.
Follow(path) ==
  LET Step(at, c) ==
        LET o == In(at.object, c)
        IN IF o \in Links THEN [path |-> Target[o], object |-> Plain(Target[o])]
                          ELSE [path |-> Append(at.path, c), object |-> o]
  IN FoldLeft(Step, [path |-> <<>>, object |-> Top], path)
Exists(path) == Follow(path).object # Nothing

Longest(paths) == CHOOSE p \in paths : \A q \in paths : Len(q) <= Len(p)
Shortest(paths) == CHOOSE p \in paths : \A q \in paths : Len(p) <= Len(q)
Below(path, prefix) == SubSeq(path, Len(prefix) + 1, Len(path))

\* discovery_manifest_candidates: the directories over path with a manifest.
Candidates(path) ==
  {p \in Prefixes(path) : /\ Follow(p).object \in Packages
                          /\ p = path => Follow(path).object \in Dirs}

\* resolve_existing_portable_relative_path: from the canonical root down,
\* by names alone, without links.
AmbientResolve(root, relative) ==
  LET start == Follow(root)
      Step(at, c) ==
        IF at.verdict # "found" THEN at
        ELSE IF at.object \notin Dirs \/ ~Portable(c) THEN [at EXCEPT !.verdict = "refused"]
        ELSE IF ~SoundListing(Names(at.object)) THEN [at EXCEPT !.verdict = "refused"]
        ELSE IF Selected(Names(at.object), c) = {}
             THEN [at EXCEPT !.verdict =
                     IF \E n \in Names(at.object) : Folded[n] = Folded[c] THEN "refused" ELSE "missing"]
        ELSE LET n == CHOOSE x \in Selected(Names(at.object), c) : TRUE
                 o == In(at.object, n)
             IN [verdict |-> IF o \in Links THEN "refused" ELSE "found",
                 path |-> Append(at.path, n), object |-> o]
  IN FoldLeft(Step, [verdict |-> IF start.object \in Dirs THEN "found" ELSE "refused",
                     path |-> start.path, object |-> start.object], relative)

\* resolve_discovery_start_within_root: give up one component at a time
\* until what is left exists.
DeepestExisting(root, relative) ==
  LET tried == {p \in Prefixes(relative) : AmbientResolve(root, p).verdict # "missing"}
  IN AmbientResolve(root, Longest(tried))

\* discover: the root of the package path is in.
Discover(path) ==
  IF Candidates(path) = {} THEN [verdict |-> "missing", path |-> path]
  ELSE LET outer == Shortest(Candidates(path))
           within == DeepestExisting(outer, Below(path, outer))
       IN [within EXCEPT !.path =
             IF Candidates(within.path) = {} THEN Longest(Candidates(path))
             ELSE Longest(Candidates(within.path))]

\* resolve_existing_discovered_path.
Discovered(path) ==
  IF Candidates(path) = {} THEN [verdict |-> "missing", path |-> path]
  ELSE LET outer == Shortest(Candidates(path)) IN AmbientResolve(outer, Below(path, outer))

-----------------------------------------------------------------------------
(* The root set. *)
Claims(s, path) ==
  {<<i, p>> \in (DOMAIN roots[s]) \X Prefixes(path) :
     p = roots[s][i].canonical \/ p \in roots[s][i].aliases}

\* matching: the longest prefix, and of equal ones the root that comes last.
Matching(s, path) ==
  IF Claims(s, path) = {} THEN NoRoot
  ELSE LET c == CHOOSE x \in Claims(s, path) :
                  \A y \in Claims(s, path) :
                    Len(y[2]) < Len(x[2]) \/ (Len(y[2]) = Len(x[2]) /\ y[1] <= x[1])
       IN [identity |-> roots[s][c[1]].canonical, prefix |-> c[2], dir |-> roots[s][c[1]].dir]
Identity(s, path) == Matching(s, path).identity

MutRecorded(set, lexical, canonical, dir) ==
  LET same == {i \in DOMAIN set : set[i].canonical = canonical}
      alias == {lexical} \ {canonical}
  IN IF same = {} THEN Append(set, [canonical |-> canonical, aliases |-> alias, dir |-> dir])
     ELSE [i \in DOMAIN set |->
             IF i \in same THEN [set[i] EXCEPT !.aliases = @ \cup alias, !.dir = dir] ELSE set[i]]

\* The root set after a directory opened as lexical turned out to be
\* canonical; empty when that name already stands for another directory.
Recorded(set, lexical, canonical, dir) ==
  LET same == {i \in DOMAIN set : set[i].canonical = canonical}
      alias == {lexical} \ {canonical}
  IN IF same = {} THEN Append(set, [canonical |-> canonical, aliases |-> alias, dir |-> dir])
     ELSE IF \E i \in same : set[i].dir # dir THEN <<>>
     ELSE [i \in DOMAIN set |-> IF i \in same THEN [set[i] EXCEPT !.aliases = @ \cup alias] ELSE set[i]]

\* What a call decides from names alone, before it touches the file system.
MutSameHome(s, base, path) == TRUE
SameHome(s, base, path) == Identity(s, base) = Identity(s, path)

LexicallyFine(s, path, purpose) ==
  Matching(s, path) # NoRoot =>
    Decision(Below(path, Matching(s, path).prefix), purpose) # "reject"

ValidateRequestedImport(s, base, path, cross) ==
  roots[s] # <<>> => LexicallyFine(s, path, "ModuleSource") /\ (cross \/ SameHome(s, base, path))

AuthorizeModule(s, requested, canonical) ==
  roots[s] # <<>> =>
    /\ LexicallyFine(s, requested, "ModuleSource") /\ LexicallyFine(s, canonical, "ModuleSource")
    /\ Matching(s, requested) # NoRoot => SameHome(s, requested, canonical)

-----------------------------------------------------------------------------
Init ==
  /\ entry = Start
  /\ roots = [s \in Sets |-> <<>>]
  /\ call = NoCall /\ snapshot = NoSnapshot /\ answer = NoAnswer
  /\ ever = {<<d, c, Start[d][c]>> : d \in Dirs, c \in Components}
  /\ calls = 0 /\ changes = 0

\* Others rename, replace, remove or create an entry.
Change ==
  /\ changes < MaxChanges
  /\ \E x \in Changes :
       /\ entry[x[1]][x[2]] # x[3]
       /\ entry' = [entry EXCEPT ![x[1]][x[2]] = x[3]]
       /\ ever' = ever \cup {x}
  /\ changes' = changes + 1
  /\ UNCHANGED <<roots, call, snapshot, answer, calls>>

Idle == call = NoCall /\ calls < MaxCalls
Begin(frame) ==
  /\ Idle
  /\ call' = frame /\ calls' = calls + 1 /\ answer' = NoAnswer
  /\ UNCHANGED <<entry, roots, snapshot, ever, changes>>

Return(value) ==
  /\ call' = NoCall /\ answer' = value
Refuse == Return([job |-> "refused"]) /\ UNCHANGED <<roots, snapshot>>

Continue(frame) ==
  /\ call' = frame /\ UNCHANGED <<roots, snapshot, answer>>

Quiet == UNCHANGED <<entry, ever, calls, changes>>

-----------------------------------------------------------------------------
(* insert and insert_alias: open, canonicalize, open again and compare. *)
Insert(s, path) == Begin([NoCall EXCEPT !.job = "insert", !.step = "open", !.set = s, !.path = path,
                                        !.base = path])

InsertAlias(s, alias, expected) ==
  /\ Idle
  /\ Exists(expected)
  /\ Begin([NoCall EXCEPT !.job = "insert", !.step = "open", !.set = s, !.path = alias,
                          !.base = alias, !.expected = {Follow(expected).path}])

\* revalidate_exact_root: insert into a copy and see whether it is refused.
Revalidate(s, path) ==
  /\ Idle
  /\ \E i \in DOMAIN roots[s] : path = roots[s][i].canonical \/ path \in roots[s][i].aliases
  /\ Begin([NoCall EXCEPT !.job = "revalidate", !.step = "open", !.set = s, !.path = path,
                          !.base = path])

InsertOpen ==
  /\ call.step = "open" /\ Quiet
  /\ IF Follow(call.base).object \in Dirs
     THEN Continue([call EXCEPT !.dir = Follow(call.base).object, !.step = "canonicalize"])
     ELSE Refuse

InsertCanonicalize ==
  /\ call.step = "canonicalize" /\ Quiet
  /\ IF Exists(call.base)
     THEN Continue([call EXCEPT !.canonical = Follow(call.base).path, !.step = "record"])
     ELSE Refuse

\* An alias is recorded only with the root it is meant for; after the root
\* of a discovered package comes the alias it was discovered through.
AfterInsert(done) ==
  IF done.job # "import" THEN NoCall
  ELSE LET through == {p \in Candidates(done.path) :
                         Follow(p).path = Follow(done.canonical).path}
       IN IF done.expected = {} /\ through # {}
          THEN [done EXCEPT !.base = Longest(through), !.expected = {done.canonical}, !.step = "open"]
          ELSE [done EXCEPT !.expected = {}, !.step = done.then]

InsertRecord ==
  /\ call.step = "record" /\ Quiet /\ UNCHANGED snapshot
  /\ LET set == roots[call.set]
         stable == Follow(call.canonical).object = call.dir
         meant == call.expected = {}
                    \/ (call.canonical \in call.expected
                          /\ \E i \in DOMAIN set : set[i].canonical \in call.expected)
         recorded == Recorded(set, call.base, call.canonical, call.dir)
     IN IF ~stable \/ ~meant \/ recorded = <<>>
        THEN UNCHANGED roots /\ Return([job |-> "refused"])
        ELSE /\ IF call.job = "revalidate" THEN UNCHANGED roots
                ELSE roots' = [roots EXCEPT ![call.set] = recorded]
             /\ call' = AfterInsert(call)
             /\ UNCHANGED answer

\* extend_opened: merge a set of handles another operation opened; the
\* first name that stands for two directories ends it half way.
Extend(s, t) ==
  /\ Idle /\ s # t
  /\ LET Merge(acc, r) ==
           LET same == {i \in DOMAIN acc.set : acc.set[i].canonical = r.canonical}
           IN IF ~acc.whole THEN acc
              ELSE IF same = {} THEN [acc EXCEPT !.set = Append(@, r)]
              ELSE IF \E i \in same : acc.set[i].dir # r.dir THEN [acc EXCEPT !.whole = FALSE]
              ELSE [acc EXCEPT !.set =
                      [i \in DOMAIN acc.set |->
                         IF i \in same THEN [acc.set[i] EXCEPT !.aliases = @ \cup r.aliases]
                         ELSE acc.set[i]]]
         merged == FoldLeft(Merge, [set |-> roots[s], whole |-> TRUE], roots[t])
         Deeper(a, b) == Len(a.canonical) > Len(b.canonical)
     IN roots' = [roots EXCEPT ![s] =
                    IF merged.whole THEN SortSeq(merged.set, Deeper) ELSE merged.set]
  /\ calls' = calls + 1
  /\ UNCHANGED <<entry, call, snapshot, answer, ever, changes>>

-----------------------------------------------------------------------------
(* From a root handle down: select reads a directory through its handle,   *)
(* enter opens what was selected, without following a link.                *)
Descend(frame, path, purpose) ==
  LET root == Matching(frame.set, path)
  IN IF root = NoRoot \/ ~RequireIncluded(Below(path, root.prefix), purpose) THEN NoCall
     ELSE [frame EXCEPT !.step = "select", !.root = root, !.at = root.dir, !.made = <<>>,
                        !.left = Below(path, root.prefix)]

SelectComponent ==
  /\ call.step = "select" /\ Quiet
  /\ LET names == Names(call.at)
         chosen == Selected(names, Head(call.left))
     IN IF SoundListing(names) /\ chosen # {}
        THEN LET c == CHOOSE x \in chosen : TRUE
             IN Continue([call EXCEPT !.step = "enter", !.made = Append(@, c),
                                      !.pick = In(call.at, c)])
        ELSE Refuse

\* The listing said what kind of object it is; the open must still find one
\* of that kind under that name in the same directory, though not
\* necessarily the same one.
Bound(frame) == In(frame.at, Last(frame.made))

EnterDirectory ==
  /\ call.step = "enter" /\ Quiet
  /\ Len(call.left) > 1 \/ call.job \in {"tree", "list"}
  /\ IF call.pick \in Dirs /\ Bound(call) \in Dirs
     THEN LET child == [call EXCEPT !.at = Bound(call), !.left = Tail(@)]
          IN Continue([child EXCEPT !.step = IF child.left = <<>> THEN "enumerate" ELSE "select"])
     ELSE Refuse

Opened(o) == [job |-> call.job, identity |-> call.root.identity, dir |-> call.root.dir,
              below |-> call.made, object |-> o, wanted |-> Nothing, home |-> NoRoot]

\* The last component of a file.
EnterFile ==
  /\ call.step = "enter" /\ Quiet
  /\ Len(call.left) = 1 /\ call.job \notin {"tree", "list"}
  /\ LET o == Bound(call)
         path == call.root.identity \o call.made
     IN IF call.pick \notin Files \/ o \notin Files THEN Refuse
        ELSE CASE call.job = "snapshot" ->
                    /\ snapshot' = [set |-> roots[call.set], path |-> path, object |-> o]
                    /\ Return(Opened(o)) /\ UNCHANGED roots
               [] call.job = "reopen" ->
                    /\ IF o = snapshot.object THEN Return([Opened(o) EXCEPT !.wanted = snapshot.object])
                                              ELSE Return([job |-> "refused"])
                    /\ UNCHANGED <<roots, snapshot>>
               [] call.job = "import" ->
                    Continue([call EXCEPT !.step = "discover", !.then = "authorize", !.pick = o,
                                          !.path = path])
               [] OTHER ->
                    IF AuthorizeModule(call.set, call.path, path)
                    THEN /\ Return([Opened(o) EXCEPT !.home =
                                      IF call.cross THEN NoRoot ELSE Matching(call.set, call.base)])
                         /\ UNCHANGED <<roots, snapshot>>
                    ELSE Refuse

-----------------------------------------------------------------------------
(* snapshot_existing_module_file and ResolvedPackageFileSnapshot::open. *)
Snapshot(s, path) ==
  /\ Idle
  /\ Descend([NoCall EXCEPT !.job = "snapshot", !.set = s, !.path = path], path, "ModuleSource") # NoCall
  /\ Begin(Descend([NoCall EXCEPT !.job = "snapshot", !.set = s, !.path = path], path, "ModuleSource"))

\* The snapshot brings the root set it was taken with.
Reopen(s) ==
  /\ Idle
  /\ snapshot # NoSnapshot /\ roots[s] = snapshot.set
  /\ LET frame == Descend([NoCall EXCEPT !.job = "reopen", !.set = s, !.path = snapshot.path],
                          snapshot.path, "ModuleSource")
     IN frame # NoCall /\ Begin(frame)

\* resolve_import_file_from_opened_roots.
ImportOpened(s, base, path, cross) ==
  /\ Idle
  /\ ValidateRequestedImport(s, base, path, cross)
  /\ LET frame == Descend([NoCall EXCEPT !.job = "opened", !.set = s, !.path = path,
                                         !.base = base, !.cross = cross], path, "ModuleSource")
     IN frame # NoCall /\ Begin(frame)

\* resolve_import_file: discover the package of what is asked for, decide by
\* names, resolve, discover again for what was found, decide once more.
Import(s, base, path, cross) ==
  /\ Idle
  /\ LexicallyFine(s, path, "YxpEntry")
  /\ Begin([NoCall EXCEPT !.job = "import", !.step = "discover", !.then = "validate", !.set = s,
                          !.path = path, !.found = <<base, path>>, !.cross = cross])

ImportDiscover ==
  /\ call.job = "import" /\ call.step = "discover" /\ Quiet
  /\ LET package == Discover(call.path)
     IN CASE package.verdict = "refused" -> Refuse
          [] package.verdict = "missing" -> Continue([call EXCEPT !.step = call.then])
          [] OTHER -> Continue([call EXCEPT !.step = "open", !.base = package.path])

ImportValidate ==
  /\ call.job = "import" /\ call.step = "validate" /\ Quiet
  /\ LET seen == Discovered(call.path)
         path == IF seen.verdict = "found" THEN seen.path ELSE call.path
         frame == Descend(call, path, "ModuleSource")
     IN IF /\ ValidateRequestedImport(call.set, call.found[1], call.path, call.cross)
           /\ seen.verdict # "refused" /\ frame # NoCall
        THEN Continue([frame EXCEPT !.found = <<call.found[1], path>>])
        ELSE Refuse

\* authorize_import on the file that is already open.
ImportAuthorize ==
  /\ call.job = "import" /\ call.step = "authorize" /\ Quiet
  /\ LET seen == Discovered(call.found[1])
         base == IF seen.verdict = "found" THEN seen.path ELSE call.found[1]
         current == Follow(base)
     IN IF /\ seen.verdict # "refused"
           /\ ValidateRequestedImport(call.set, base, call.found[2], call.cross)
           /\ AuthorizeModule(call.set, call.found[2], call.path)
           /\ call.cross \/ (current.object # Nothing /\ SameHome(call.set, current.path, call.path))
        THEN /\ Return([Opened(call.pick) EXCEPT !.home =
                          IF call.cross THEN NoRoot ELSE Matching(call.set, base)])
             /\ UNCHANGED <<roots, snapshot>>
        ELSE Refuse

-----------------------------------------------------------------------------
(* snapshot_module_directory and list_existing_directory: descend to the   *)
(* directory, read it, open every entry that counts.                       *)
Walk(job, s, path) ==
  LET root == Matching(s, path)
      purpose == IF job = "tree" THEN "YxpEntry" ELSE "TreeChecksum"
      frame == [NoCall EXCEPT !.job = job, !.set = s, !.path = path]
  IN /\ Idle /\ root # NoRoot
     /\ IF path = root.prefix
        THEN Begin([frame EXCEPT !.root = root, !.at = root.dir, !.step = "enumerate"])
        ELSE Descend(frame, path, purpose) # NoCall /\ Begin(Descend(frame, path, purpose))

\* Reads the directory at: every entry is judged, named and queued in order.
Enumerate ==
  /\ call.step = "enumerate" /\ Quiet
  /\ LET purpose == IF call.job = "tree" THEN "YxpEntry" ELSE "TreeChecksum"
         Path(c) == Append(call.made, c)
         all == Names(call.at)
         counted == {c \in all : Decision(Path(c), purpose) = "include"}
         queue == SetToSeq({[dir |-> call.at, below |-> Path(c), pick |-> In(call.at, c)] : c \in counted})
         Add(acc, e) == IF ~acc.fine \/ ~CanName(acc.table, e.below, e.pick \in Dirs)
                        THEN [acc EXCEPT !.fine = FALSE]
                        ELSE [acc EXCEPT !.table = Name(@, e.below, e.pick \in Dirs)]
         named == FoldLeft(Add, [table |-> call.named, fine |-> TRUE], queue)
     IN IF /\ Len(call.made) <= MaxDepth
           /\ \A c \in all : Decision(Path(c), purpose) # "reject"
           /\ \A c \in counted : In(call.at, c) \notin Links
           /\ named.fine
        THEN Continue([call EXCEPT !.step = "visit", !.todo = queue \o @, !.named = named.table])
        ELSE Refuse

Rest == [call EXCEPT !.todo = Tail(@)]
NowAt(e) == In(e.dir, Last(e.below))

\* A tree goes into its directories before it goes on.
VisitDirectory ==
  /\ call.step = "visit" /\ call.job = "tree" /\ call.todo # <<>> /\ Quiet
  /\ LET e == Head(call.todo)
     IN /\ e.pick \in Dirs
        /\ IF NowAt(e) \in Dirs
           THEN Continue([Rest EXCEPT !.at = NowAt(e), !.made = e.below, !.step = "enumerate"])
           ELSE Refuse

VisitFile ==
  /\ call.step = "visit" /\ call.job = "tree" /\ call.todo # <<>> /\ Quiet
  /\ LET e == Head(call.todo)
     IN /\ e.pick \in Files
        /\ IF NowAt(e) \in Files
           THEN Continue([Rest EXCEPT !.found = @ \cup {[below |-> e.below, object |-> NowAt(e)]}])
           ELSE Refuse

\* A listing opens an entry only to see that it is what it was listed as.
VisitListed ==
  /\ call.step = "visit" /\ call.job = "list" /\ call.todo # <<>> /\ Quiet
  /\ LET e == Head(call.todo)
     IN CASE e.pick \in Dirs /\ NowAt(e) \in Dirs -> Continue(Rest)
          [] e.pick \in Files /\ NowAt(e) \in Files ->
               Continue([Rest EXCEPT !.found = @ \cup {[below |-> e.below, object |-> NowAt(e)]}])
          [] OTHER -> Refuse

\* finish: of the files found, later runs open one of the snapshots.
WalkDone ==
  /\ call.step = "visit" /\ call.todo = <<>> /\ Quiet /\ UNCHANGED roots
  /\ \/ call.found = {} /\ Return([job |-> "empty"]) /\ UNCHANGED snapshot
     \/ \E f \in call.found :
          /\ Return([Opened(f.object) EXCEPT !.below = f.below])
          /\ IF call.job = "tree"
             THEN snapshot' = [set |-> roots[call.set], path |-> call.root.identity \o f.below,
                               object |-> f.object]
             ELSE UNCHANGED snapshot

-----------------------------------------------------------------------------
Next ==
  \/ Change
  \/ \E s \in Sets :
       \/ \E p \in RootPaths : Insert(s, p) \/ Revalidate(s, p)
                                 \/ \E q \in RootPaths : InsertAlias(s, p, q)
       \/ \E t \in Sets : Extend(s, t)
       \/ Reopen(s)
       \/ \E p \in ModulePaths : Snapshot(s, p) \/ \E job \in {"tree", "list"} : Walk(job, s, p)
       \/ \E b \in Bases, p \in ModulePaths, cross \in BOOLEAN :
            ImportOpened(s, b, p, cross) \/ Import(s, b, p, cross)
  \/ InsertOpen \/ InsertCanonicalize \/ InsertRecord
  \/ SelectComponent \/ EnterDirectory \/ EnterFile
  \/ ImportDiscover \/ ImportValidate \/ ImportAuthorize
  \/ Enumerate \/ VisitDirectory \/ VisitFile \/ VisitListed \/ WalkDone

Spec == Init /\ [][Next]_pathVars

-----------------------------------------------------------------------------
TypeOK ==
  /\ entry \in [Dirs -> [Components -> Dirs \cup Files \cup Links \cup {Nothing}]]
  /\ \A s \in Sets : \A i \in DOMAIN roots[s] : roots[s][i].dir \in Dirs
  /\ calls \in 0 .. MaxCalls /\ changes \in 0 .. MaxChanges
  /\ call.dir \in Dirs \cup {Nothing}

\* The objects that ever stood at path below the opened directory dir.
EverAt(dir, path) ==
  LET Children(set, c) == {x[3] : x \in {y \in ever : y[1] \in set /\ y[2] = c}}
  IN FoldLeft(Children, {dir}, path)

Answered == answer.job \notin {"none", "refused", "empty"}

\* Whatever others did to the file system meanwhile, a file a call returns was
\* reached from the directory that was opened as the root, through entries and
\* never through a link, at a place the package policy includes
\* (path_policy.rs resolve_existing_file_from_root, the snapshot walker); a
\* file opened from a snapshot is the one that was discovered
\* (ResolvedPackageFileSnapshot::open).
OnlyHeldObjects ==
  Answered =>
    /\ answer.object \in EverAt(answer.dir, answer.below) \cap Files
    /\ Decision(answer.below, "YxpEntry") = "include"
    /\ answer.job = "reopen" => answer.object = answer.wanted

\* A relative import never leaves the package of the module that imports:
\* the file comes from the same opened root (authorize_import,
\* validate_requested_import).
ImportStaysHome ==
  Answered /\ answer.home # NoRoot =>
    /\ answer.home.identity = answer.identity
    /\ answer.home.dir = answer.dir

\* While a session lasts the name of a root stands for one directory: no
\* second record for it and no other object under it (TrustedPackageRoots::
\* insert, insert_alias and extend_opened).
NamesStand ==
  \A s \in Sets :
    /\ \A i \in DOMAIN roots[s] : \E j \in DOMAIN roots'[s] :
         /\ roots'[s][j].canonical = roots[s][i].canonical
         /\ roots'[s][j].dir = roots[s][i].dir
         /\ roots[s][i].aliases \subseteq roots'[s][j].aliases
    /\ \A i, j \in DOMAIN roots'[s] : roots'[s][i].canonical = roots'[s][j].canonical => i = j
RootsStand == [][NamesStand]_pathVars
=============================================================================

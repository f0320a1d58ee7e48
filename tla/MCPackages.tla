------------------------------ MODULE MCPackages ------------------------------
(***************************************************************************)
(* The components of the package manager on small instances.  They meet    *)
(* only through the file system and are explored one at a time: part names *)
(* the component that moves, x1, x2, ... stand for its variables.          *)
(***************************************************************************)
EXTENDS Integers, Sequences

VARIABLES part, \* the component that moves
  x1, x2, x3, x4, x5, x6, x7, x8, x9, x10, x11, x12 \* its variables

state == <<x1, x2, x3, x4, x5, x6, x7, x8, x9, x10, x11, x12>>

Idle12 == x12 = 0
Idle11 == x11 = 0 /\ Idle12
Idle10 == x10 = 0 /\ Idle11
Idle9 == x9 = 0 /\ Idle10
Idle8 == x8 = 0 /\ Idle9

-----------------------------------------------------------------------------
Dep(n, versions) == [name |-> n, accepts |-> versions]
GraphRoots ==
  {[table |-> <<Dep("a", {1, 2})>>, native |-> FALSE],
   [table |-> <<Dep("a", {1, 2}), Dep("a", {1})>>, native |-> TRUE],
   [table |-> <<Dep("p", {1}), Dep("b", {1, 2})>>, native |-> TRUE]}
GraphPackage(id) ==
  [table |-> CASE id.name = "a" /\ id.version = 2 -> <<Dep("b", {1, 2})>>
               [] id.name = "b" /\ id.version = 1 -> <<Dep("a", {1, 2})>>
               [] id.name = "b" /\ id.version = 2 -> <<Dep("a", {1})>>
               [] id.name = "p" -> <<Dep("a", {1 + id.content, 2})>>
               [] OTHER -> <<>>,
   native |-> id.name = "b" /\ id.version = 2]

\* Spellings: SRC and MAIN differ from src and main only in case.
PathNames == {"app", "alias", "src", "SRC", "vendor", "m"}
Spellings == {"app", "alias", "src", "SRC", "vendor", "m", "lock", "manifest", "main",
              "MAIN", "lib", "res", "a", "out", "pkg", "long", "x"}
Same == [c \in Spellings |-> c]
Lower == [c \in Spellings |-> CASE c = "SRC" -> "src" [] c = "MAIN" -> "main" [] OTHER -> c]

PathDirs == {"top", "app1", "app2", "src1", "src2", "vendor1"}
PathLinks == {"toApp", "toVendor"}
LinkTarget == [l \in PathLinks |-> IF l = "toApp" THEN <<"app">> ELSE <<"app", "vendor">>]
World == [d \in PathDirs |-> [c \in PathNames |->
  CASE d = "top" /\ c = "app" -> "app1"
    [] d = "top" /\ c = "alias" -> "toApp"
    [] d = "app1" /\ c = "src" -> "src1"
    [] d = "app1" /\ c = "vendor" -> "vendor1"
    [] d = "app2" /\ c = "src" -> "src2"
    [] d = "vendor1" /\ c = "m" -> "file3"
    [] d = "src1" /\ c = "m" -> "file1"
    [] d = "src2" /\ c = "m" -> "file2"
    [] OTHER -> "nothing"]]

PackDeclares == [m \in {"m1", "m2", "m3"} |->
  [entry |-> <<"main">>,
   exports |-> IF m = "m2" THEN {<<"out">>} ELSE {},
   natives |-> {<<<<"lib">>, IF m = "m1" THEN "t1" ELSE "t2">>},
   resources |-> IF m = "m1" THEN {<<"res">>} ELSE {},
   local |-> m = "m3"]]

Graph == INSTANCE DependencyGraph WITH
  manifest <- x1, lock <- x2, published <- x3, yanked <- x4, cached <- x5,
  content <- x6, outcome <- x7, Names <- {"a", "b", "p"}, PathNames <- {"p"},
  Versions <- 1 .. 2, RootManifests <- GraphRoots,
  PackageManifest <- GraphPackage
Resolve == INSTANCE Resolution WITH
  text <- x1, lockFile <- x2, tree <- x3, projectLock <- x4, graphs <- x5,
  scopes <- x6, jobs <- x7, newest <- x8, begun <- x9, together <- x10,
  promised <- x11, Threads <- {"t1", "t2"}, MaxRevisions <- 2, MaxTrees <- 2,
  MaxCommands <- 2
Store == INSTANCE GenerationStore WITH
  kind <- x1, places <- x2, sealed <- x3, pending <- x4, keyLock <- x5,
  step <- x6, target <- x7, offline <- x8, hidden <- x9, legacy <- x10,
  harm <- x11, requests <- x12, Procs <- {"p1", "p2"}, Places <- 1 .. 3,
  MaxHarm <- 2, MaxRequests <- 3
Git == INSTANCE GitObjects WITH
  stores <- x1, branch <- x2, serves <- x3, owner <- x4, request <- x5,
  generations <- x6, intact <- x7, seen <- x8, blame <- x9, harm <- x10,
  requests <- x11, Procs <- {"p1", "p2"}, Commits <- {"c1", "c2"},
  Tags <- {"t1"}, Tagged <- [t \in {"t1"} |-> "c1"], Branch <- "main",
  Places <- 1 .. 3, MaxHarm <- 1, MaxRequests <- 2, Nothing <- "nothing"
Vendor == INSTANCE VendorInstall WITH
  previous <- x1, dir <- x2, onDisk <- x3, state <- x4, pc <- x5,
  restored <- x6, reported <- x7, command <- x8, before <- x9,
  touched <- x10, Graphs <- {"g1", "g2"}, Names <- {"n1", "n2"},
  MaxCommands <- 2, MaxTouched <- 1
Session == INSTANCE PackagePaths WITH
  entry <- x1, roots <- x2, call <- x3, snapshot <- x4, answer <- x5,
  ever <- x6, calls <- x7, changes <- x8, Components <- PathNames,
  Reserved <- {"vendor"}, LockName <- "lock", Illegal <- {}, Nfc <- Same,
  Folded <- Lower, Dirs <- PathDirs, Files <- {"file1", "file2", "file3"},
  Links <- PathLinks, Target <- LinkTarget, Top <- "top", Start <- World,
  Changes <- {<<"top", "app", "app2">>, <<"app1", "src", "toVendor">>, <<"src1", "m", "file2">>},
  Packages <- {"app1", "app2", "vendor1"},
  RootPaths <- {<<"app">>, <<"alias">>, <<"app", "vendor">>},
  ModulePaths <- {<<"app", "src", "m">>, <<"app", "src">>, <<"app", "vendor", "m">>},
  Bases <- {<<"app", "src">>, <<"app", "vendor">>}, Sets <- 1 .. 2,
  MaxChanges <- 2, MaxCalls <- 3, MaxDepth <- 2, Nothing <- "nothing"
Snapshot == INSTANCE FileSnapshot WITH
  data <- x1, stamp <- x2, coarse <- x3, named <- x4, reader <- x5,
  since <- x6, repeats <- x7, writes <- x8, Objects <- {"o1", "o2"},
  MaxChunks <- 3, MaxBytes <- 2, MaxWrites <- 3, Old <- {0},
  NoObject <- "none"
Pack == INSTANCE Packing WITH
  tree <- x1, outside <- x2, lockHolder <- x3, pack <- x4, packed <- x5,
  edits <- x6, packs <- x7, Components <- Spellings, Reserved <- {"vendor"},
  LockName <- "lock", Illegal <- {}, Nfc <- Same, Folded <- Lower,
  Paths <- {<<"manifest">>, <<"lock">>, <<"main">>, <<"lib">>, <<"res", "a">>, <<"out">>, <<"vendor", "out">>},
  Texts <- {"t1", "t2"}, Manifests <- {"m1", "m2", "m3"},
  Declares <- PackDeclares,
  Outputs <- {<<>>, <<"out">>, <<"res", "a">>, <<"vendor", "out">>},
  MaxFiles <- 7, MaxDirectories <- 2, MaxDepth <- 2, MaxScanned <- 9,
  MaxEdits <- 2, MaxPacks <- 2, Nothing <- "nothing"
Archive == INSTANCE PackageArchives WITH
  maker <- x1, captured <- x2, wrote <- x3, registry <- x4, git <- x5,
  existing <- x6, headers <- x7, ended <- x8, result <- x9,
  Components <- Spellings, Reserved <- {"vendor"}, LockName <- "lock",
  Illegal <- {}, Nfc <- Same, Folded <- Lower,
  Paths <- {<<"manifest">>, <<"main">>, <<"lib", "main">>, <<"long">>, <<"vendor">>, <<"pkg", "manifest">>, <<"pkg", "main">>, <<"pkg", "lib">>, <<"pkg", "lib", "main">>, <<"pkg", "MAIN">>, <<"pkg", "long">>, <<"pkg", "lib", "manifest">>, <<"x">>},
  Long <- {<<"pkg", "long">>}, Oversized <- {}, Escaping <- {<<"x">>},
  Root <- "pkg", Manifest <- "manifest", Declared <- <<"main">>,
  Sizes <- 0 .. 2, FileBytes <- 1, ExpandedBytes <- 2, Entries <- 3,
  Block <- 2, PathBytes <- 3, Overhead <- 1, TarRecord <- 6, MaxHeaders <- 3
Directories == INSTANCE CacheDirectories WITH
  kind <- x1, node <- x2, unsynced <- x3, ident <- x4, holders <- x5,
  at <- x6, made <- x7, entered <- x8, clean <- x9, harm <- x10,
  outside <- x11, Procs <- {"p1", "p2"}, MaxHarm <- 1
Storage == INSTANCE ProjectStorage WITH
  lockFile <- x1, holders <- x2, dest <- x3, past <- x4, temporary <- x5,
  proc <- x6, acknowledged <- x7, edits <- x8, harm <- x9, deleted <- x10,
  Procs <- {"p1", "p2"}, Attempts <- 2, MaxEdits <- 3, MaxHarm <- 1

-----------------------------------------------------------------------------
Init ==
  \/ part = "graph" /\ Graph!Init /\ Idle8
  \/ part = "resolution" /\ Resolve!Init /\ Idle12
  \/ part = "generations" /\ Store!Init
  \/ part = "git" /\ Git!Init /\ Idle12
  \/ part = "vendor" /\ Vendor!Init /\ Idle11
  \/ part = "paths" /\ Session!Init /\ Idle9
  \/ part = "snapshot" /\ Snapshot!Init /\ Idle9
  \/ part = "packing" /\ Pack!Init /\ Idle8
  \/ part = "archives" /\ Archive!Init /\ Idle10
  \/ part = "directories" /\ Directories!Init /\ Idle12
  \/ part = "storage" /\ Storage!Init /\ Idle11

Next ==
  /\ UNCHANGED part
  /\ \/ part = "graph" /\ Graph!Next /\ UNCHANGED <<x8, x9, x10, x11, x12>>
     \/ part = "resolution" /\ Resolve!Next /\ UNCHANGED x12
     \/ part = "generations" /\ Store!Next
     \/ part = "git" /\ Git!Next /\ UNCHANGED x12
     \/ part = "vendor" /\ Vendor!Next /\ UNCHANGED <<x11, x12>>
     \/ part = "paths" /\ Session!Next /\ UNCHANGED <<x9, x10, x11, x12>>
     \/ part = "snapshot" /\ Snapshot!Next /\ UNCHANGED <<x9, x10, x11, x12>>
     \/ part = "packing" /\ Pack!Next /\ UNCHANGED <<x8, x9, x10, x11, x12>>
     \/ part = "archives" /\ Archive!Next /\ UNCHANGED <<x10, x11, x12>>
     \/ part = "directories" /\ Directories!Next /\ UNCHANGED x12
     \/ part = "storage" /\ Storage!Next /\ UNCHANGED <<x11, x12>>

Spec == Init /\ [][Next]_<<part, state>>

-----------------------------------------------------------------------------
TypeOK ==
  CASE part = "graph" -> Graph!TypeOK
    [] part = "resolution" -> Resolve!TypeOK
    [] part = "generations" -> Store!TypeOK
    [] part = "git" -> Git!TypeOK
    [] part = "vendor" -> Vendor!TypeOK
    [] part = "paths" -> Session!TypeOK
    [] part = "snapshot" -> Snapshot!TypeOK
    [] part = "packing" -> Pack!TypeOK
    [] part = "archives" -> Archive!TypeOK
    [] part = "directories" -> Directories!TypeOK
    [] part = "storage" -> Storage!TypeOK

\* The properties of the components, each while its component moves.
GraphIsWhole == part = "graph" => Graph!GraphIsWhole /\ Graph!OfflineSuffices
InstallStaysLocked == [][part = "graph" => Graph!StaysLocked]_state
CommandsIsolated ==
  part = "resolution" =>
    Resolve!ConsistentSnapshot /\ Resolve!CacheScoped /\ Resolve!NoLostEdit
StandsWhileUsed ==
  [][/\ part = "resolution" => Resolve!Undisturbed
     /\ part = "generations" => Store!Final
     /\ part = "paths" => Session!NamesStand
     /\ part = "vendor" => Vendor!SomeTreeSurvives]_state
CachesAnswer ==
  /\ part = "generations" => Store!OneGeneration
  /\ part = "git" => Git!GitAnswers
  /\ part = "directories" => Directories!DirectoriesHold
VendorRecovers ==
  part = "vendor" => Vendor!ReportIsTrue /\ Vendor!LeftoversStay /\ Vendor!EditsStay
FilesHeld ==
  /\ part = "paths" => Session!OnlyHeldObjects /\ Session!ImportStaysHome
  /\ part = "snapshot" => Snapshot!SnapshotIsReal
ArchivesAreSound ==
  /\ part = "packing" => Pack!ArchiveIsWhole
  /\ part = "archives" => Archive!ArchivesAreSound
WrittenIsKept == part = "storage" => Storage!WrittenIsKept
RunsTheLockedGraph == part = "graph" => Graph!RunsTheLockedGraph
LongPathsAreReadable == part = "archives" => Archive!LongPathsAreReadable
=============================================================================

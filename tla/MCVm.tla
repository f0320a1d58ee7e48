------------------------------ MODULE MCVm ------------------------------
(***************************************************************************)
(* The parts of the engines on small instances: the resource registry, the *)
(* activations with their budgets, the instructions compared with the tree *)
(* interpreter, containers and members of classes in both, narrowed types, *)
(* the loading of modules, the permissions of applications, the sessions   *)
(* of hosts, the debugger, the collectors, the network, native extensions, *)
(* two callback tables, and the tasks.  They are explored one at a time:   *)
(* part names the one that moves, x1, x2, ... stand for its variables.     *)
(***************************************************************************)
EXTENDS VmTasks

CONSTANTS
  MaxCallDepth,
  None   \* a model value: no parent, no class

VARIABLES part, \* the component that moves
  x1, x2, x3, x4, x5, x6, x7, x8, x9, x10, x11 \* its variables

others == <<x1, x2, x3, x4, x5, x6, x7, x8, x9, x10, x11>>

Idle11 == x11 = 0
Idle10 == x10 = 0 /\ Idle11
Idle9 == x9 = 0 /\ Idle10
Idle8 == x8 = 0 /\ Idle9
Idle7 == x7 = 0 /\ Idle8
Idle6 == x6 = 0 /\ Idle7
Idle5 == x5 = 0 /\ Idle6
Idle4 == x4 = 0 /\ Idle5
Idle3 == x3 = 0 /\ Idle4
Idle2 == x2 = 0 /\ Idle3
Idle1 == x1 = 0 /\ Idle2

-----------------------------------------------------------------------------
\* Modules that import, raise and call each other in the ways that matter.
St(do, of) == [do |-> do, of |-> of]
ModuleTexts == {"start", "second", "a1", "a2", "b1", "b2", "empty", "bad", "loop", "missing", "broken"}
ModuleBody == [t \in ModuleTexts |->
  CASE t = "start" -> <<St("try", "a"), St("import", "b"), St("call", "b")>>
    [] t = "second" -> <<St("import", "b"), St("import", "a"), St("call", "b")>>
    [] t = "a1" -> <<St("import", "b"), St("raise", "a")>>
    [] t = "a2" -> <<St("import", "b")>>
    [] t = "b1" -> <<St("try", "c")>>
    [] t = "b2" -> <<St("import", "a")>>
    [] t = "bad" -> <<St("raise", "a")>>
    [] t = "loop" -> <<St("import", "main")>>
    [] OTHER -> <<>>]
ModuleLazy == [t \in ModuleTexts |->
  CASE t = "b1" -> <<St("try", "a"), St("import", "c")>>
    [] t = "b2" -> <<St("import", "c")>>
    [] OTHER -> <<>>]
ModuleSize == [t \in ModuleTexts |-> IF t \in {"start", "second", "loop"} THEN 2 ELSE 1]
ModuleStarts ==
  {[main |-> x, a |-> y, b |-> z, c |-> w] : x \in {"start", "second"}, y \in {"a1", "missing"},
                                             z \in {"b1", "b2"}, w \in {"bad", "loop"}}
ModuleEdits ==
  {<<"a", "a2">>, <<"a", "broken">>, <<"c", "empty">>, <<"b", "missing">>}

\* Sets of permissions: up to two words for hosts, or up to two directories.
Grant(f, h, p) == [form |-> f, host |-> h, port |-> p]
GrantWords ==
  {Grant("any", 0, 0), Grant("name", 0, 0), Grant("name", 0, 1), Grant("ip", 2, 0), Grant("ip", 2, 1),
   Grant("ip", 1, 0), Grant("net", 2, 1), Grant("net", 0, 0), Grant("net", 1, 2)}
FewOf(S) == {s \in SUBSET S : Cardinality(s) <= 2}
Permits(f, n, b, o) == [allow_all |-> FALSE, files |-> f, network |-> n, binds |-> b, on |-> o]
PermitSets ==
  {Permits({}, n, n, o) : n \in FewOf(GrantWords), o \in SUBSET {"local_network"}}
  \cup {Permits(f, {}, {}, {"process"}) :
          f \in FewOf({<<>>, <<"p">>, <<"p", "a">>, <<"q">>, <<"q", "a">>, <<"q", "b">>})}
  \cup {[Permits({}, {}, {}, {"process", "local_network"}) EXCEPT !.allow_all = TRUE]}
PermitResources ==
  {<<Grant("name", 0, 1), i, 1>> : i \in 0 .. 3} \cup {<<Grant("ip", i, 1), i, 1>> : i \in 0 .. 3}
  \cup {<<Grant("name", 0, 0), 2, 1>>}
PermitDirs == {<<>>, <<"p">>, <<"p", "a">>, <<"q">>, <<"q", "a">>}
PermitLink == [l \in {<<"q", "l">>, <<"p", "l">>} |-> IF l = <<"q", "l">> THEN <<"p", "a">> ELSE <<"q">>]
PermitPaths ==
  {<<"p">>, <<"q", "a">>, <<"q", "b">>, <<"q", "b", "a">>, <<"q", "l">>, <<"q", "l", "b">>,
   <<"p", "l", "a">>, <<"q", "l", "..", "a">>, <<"q", "b", "..", "a">>,
   <<"q", "b", "..", "..", "p">>, <<"p", "l", "b", "..", "a">>}

\* Programs of a session, and courses of a program that is debugged.
Piece(needs, defines, imports, ends) ==
  [text |-> "good", needs |-> needs, defines |-> defines, imports |-> imports, ends |-> ends]
Nothing == [n \in {} |-> "none"]
Pieces ==
  {Piece(Nothing, <<<<"x", k>>, <<"y", "number">>>>, "none", e) : k \in {"number", "text"}, e \in {"ok", "error", "panic"}}
  \cup {Piece([n \in {"x"} |-> k], <<<<"y", k>>>>, "none", e) : k \in {"number", "text"}, e \in {"ok", "error"}}
  \cup {Piece([n \in {"m"} |-> k], <<<<"x", k>>>>, "m", "ok") : k \in {"number", "text"}}
  \cup {[Piece(Nothing, <<>>, "none", "ok") EXCEPT !.text = t] : t \in {"bad", "uncompiled"}}
Line(l, d, c) == [line |-> l, depth |-> d, catch |-> c]
DebugCourses ==
  {<<Line(1, 1, 0), Line(2, 1, 0), Line(4, 2, 0), Line(5, 2, 0), Line(3, 1, 0)>>,
   <<Line(1, 1, 0), Line(2, 1, 5), Line(4, 2, 5), Line(4, 3, 5), Line(3, 1, 0), Line(2, 1, 0)>>}

\* Heaps of a call that has made a function, or besides a global list of it, or
\* a class with a method and an instance, and the function in a field of it or
\* in a static one.
HeapObject(k, o, c, s) == [kind |-> k, owner |-> o, contents |-> c, static |-> s]
SweepFunctions == [o \in 0 .. 2 |->
  IF o = 2 THEN HeapObject("closure", 1, {}, {}) ELSE HeapObject("environment", o - 1, {}, {})]
SweepClass(field, static) == [o \in 0 .. 6 |->
  CASE o = 3 -> HeapObject("environment", 0, {}, {})
    [] o = 4 -> HeapObject("closure", 3, {}, {})
    [] o = 5 -> HeapObject("class", -1, {4}, static)
    [] o = 6 -> HeapObject("instance", 5, field, {})
    [] OTHER -> SweepFunctions[o]]
SweepList == [o \in 0 .. 3 |->
  CASE o = 0 -> HeapObject("environment", -1, {3}, {})
    [] o = 3 -> HeapObject("box", -1, {2}, {})
    [] OTHER -> SweepFunctions[o]]
SweepStarts ==
  {[heap |-> SweepFunctions, hand |-> {1, 2}], [heap |-> SweepList, hand |-> {2, 3}],
   [heap |-> SweepClass({2}, {}), hand |-> {2, 5, 6}], [heap |-> SweepClass({}, {2}), hand |-> {5, 6}]}

\* Hosts for requests, and what a name resolves to.
Site(h, p, n, r) == [host |-> h, port |-> p, named |-> n, resolved |-> r]
NetSites ==
  {Site("a", 1, TRUE, TRUE), Site("a", 2, TRUE, TRUE), Site("b", 1, FALSE, TRUE), Site("c", 1, TRUE, FALSE)}
Address(a, u) == [allowed |-> a, up |-> u]
NetLookups ==
  {<<Address(TRUE, TRUE)>>, <<Address(FALSE, TRUE)>>, <<Address(FALSE, TRUE), Address(TRUE, TRUE)>>,
   <<Address(TRUE, FALSE), Address(TRUE, TRUE)>>}

\* Values on their way through a checked program, and the types it writes.
Data(kind, items) == [v |-> kind, of |-> items, class |-> ""]
Thing(class) == [v |-> "instance", of |-> <<>>, class |-> class]
Plain(kind) == Data(kind, <<>>)
TypingValues ==
  {Plain(k) : k \in {"number", "text", "nil", "function", "class", "task", "bytes", "list"}}
  \cup {Thing("A"), Thing("B"), Data("list", <<Plain("number"), Plain("nil")>>),
        Data("tuple", <<Plain("number"), Plain("text")>>), Data("map", <<Plain("text"), Thing("B")>>)}
Written(k, n, of) == [k |-> k, name |-> n, of |-> of]
Simple(n) == Written("named", n, <<>>)
TypingTypes ==
  {Simple(n) : n \in {"any", "number", "A", "B", "P", "list", "function", "object", "task"}}
  \cup {Written("nullable", "", <<Simple(n)>>) : n \in {"number", "A"}}
  \cup {Written("union", "", <<Simple("text"), Simple("B")>>),
        Written("function", "", <<Simple("number"), Simple("number")>>),
        Written("generic", "list", <<Simple("number")>>),
        Written("generic", "list", <<Written("nullable", "", <<Simple("number")>>)>>),
        Written("generic", "tuple", <<Simple("number"), Simple("text")>>),
        Written("generic", "map", <<Simple("text"), Simple("A")>>),
        Written("generic", "task", <<Simple("number")>>)}

\* Declarations of m and of the initializer in a class and its child.
Member(f, s, p, r, i, t) ==
  [form |-> f, static |-> s, private |-> p, readonly |-> r, initial |-> i, type |-> t]
Absent == Member("none", FALSE, FALSE, FALSE, FALSE, "n")
Public(form) == Member(form, FALSE, FALSE, FALSE, FALSE, "n")
MemberFields == {Member("field", s, p, r, i, "n") : s, p, r, i \in BOOLEAN}
MemberMethods == {Member("method", s, p, FALSE, FALSE, t) : s, p \in BOOLEAN, t \in {"n", "t"}}
InBoth(a, b) == [c \in {"A", "B"} |-> IF c = "A" THEN a ELSE b]
Declares(a, b, claims, p) == [m |-> InBoth(a, b), init |-> InBoth("none", "none"), claims |-> claims, P |-> p]
ObjectPrograms ==
  {Declares(a, Absent, "none", Absent) : a \in MemberFields \cup MemberMethods}
  \cup {Declares(Absent, b, "none", Absent) : b \in MemberFields \cup MemberMethods}
  \cup {Declares(a, b, "none", Absent) : a \in {m \in MemberMethods : m.type = "n"}, b \in MemberMethods}
  \cup {[Declares(Absent, Absent, "none", Absent) EXCEPT !.init = InBoth(i, j)] : i, j \in {"none", "0", "1"}}
  \cup {Declares(a, b, c, p) :
          c \in {"A", "B"}, p \in {Public("method"), Public("field")},
          a \in {Public("method"), Public("field"), Member("field", TRUE, FALSE, FALSE, TRUE, "n")},
          b \in {Absent, Member("method", FALSE, TRUE, FALSE, FALSE, "n")}}

\* Texts of a few statements that declare, use and shadow the names a and b.
TextStatement(k, n, p, v, b) == [kind |-> k, name |-> n, params |-> p, value |-> v, blocks |-> b]
TextName(n) == <<[name |-> n, via |-> "none"]>>
TextThis(n) == <<[name |-> n, via |-> "this"]>>
TextPath(n, m) == TextName(n) \o <<[name |-> m, via |-> "chain"]>>
TextLet(n, v) == TextStatement("let", n, <<>>, v, <<>>)
TextShow(v) == TextStatement("show", "", <<>>, v, <<>>)
TextFunction(f, p, b) == TextStatement("function", f, <<p>>, <<>>, <<b>>)
TextClass(c, f, methods) == TextStatement("class", c, <<f>>, <<>>, <<methods>>)
TextIf(x, y) == TextStatement("if", "", <<>>, TextName("a"), <<x, y>>)
TextImport == TextStatement("import", "a", <<>>, <<>>, <<>>)
TextBlocks == {<<>>, <<TextShow(TextName("a"))>>, <<TextShow(TextName("a")), TextLet("a", TextName("b"))>>}
TextStarts ==
  {<<TextLet("b", <<>>), TextLet("a", TextName("b"))>>, <<TextImport>>, <<TextClass("b", "a", <<>>)>>,
   <<TextClass("a", "m", <<TextFunction("f", "b", <<TextShow(TextThis("m"))>>)>>)>>,
   <<TextImport, TextClass("b", "m", <<TextFunction("f", "a", <<TextStatement("return", "", <<>>, TextName("a"), <<>>)>>)>>)>>}
TextMiddles ==
  UNION {{TextFunction(f, p, x), TextStatement("for", f, <<>>, TextName(p), <<x>>),
          TextStatement("try", f, <<>>, <<>>, <<x, y>>), TextStatement("try", f, <<>>, <<>>, <<y, x>>), TextIf(x, <<TextLet(f, TextName(p))>> \o y),
          TextIf(<<TextFunction("c", p, x), TextLet("a", <<>>)>>, y)} :
         f, p \in {"a", "b"}, x \in TextBlocks, y \in {<<TextShow(TextName("a")), TextLet("a", TextName("b"))>>}}
TextEnds == {TextShow(TextName("a")), TextShow(TextPath("a", "m"))}
IndexTexts == {x \o <<y, z>> : x \in TextStarts, y \in TextMiddles, z \in TextEnds}

\* Libraries, and artifacts that lock them rightly or not.
ExtFunction == [name |-> "f", callable |-> TRUE]
ExtDescriptor(abi) ==
  [null |-> FALSE, abi |-> abi, struct |-> 0, name |-> "p", frees |-> TRUE, functions |-> <<ExtFunction>>,
   constants |-> <<>>, types |-> <<"file">>]
ExtValue(kind, n) == [kind |-> kind, n |-> n, items |-> <<>>]
ExtItems(kind, items) == [kind |-> kind, n |-> 0, items |-> items]
\* The forms of a library, one flaw each, and of a script.
ExtElf == [format |-> "elf", shared |-> TRUE, machine |-> "this", dynamic |-> TRUE, tags |-> {}, resolved |-> TRUE, needed |-> <<"bare">>]
ExtMach ==
  [format |-> "mach", slices |-> <<>>, type |-> "dylib", machine |-> "this", commands |-> {"load"}, resolved |-> TRUE,
   identifiers |-> 1, tags |-> {}, needed |-> <<"system">>]
ExtPe == [format |-> "pe", shared |-> TRUE, machine |-> "this", header |-> TRUE, delayed |-> FALSE, tags |-> {}, needed |-> <<"bare">>]
ExtForms(format) ==
  CASE format = "elf" ->
         {ExtElf} \cup {[ExtElf EXCEPT !.tags = {t}] : t \in {"runpath", "audit"}}
         \cup {[ExtElf EXCEPT !.needed = n] : n \in {<<>>, <<"bare", "path">>, <<"bare", "bare", "bare">>}}
         \cup {[ExtElf EXCEPT !.machine = "other"], [ExtElf EXCEPT !.dynamic = FALSE], [ExtElf EXCEPT !.resolved = FALSE],
               [ExtElf EXCEPT !.shared = FALSE], ExtPe}
    [] format = "mach" ->
         {ExtMach, [ExtMach EXCEPT !.type = "bundle", !.identifiers = 0], [ExtMach EXCEPT !.type = "bundle"], [ExtMach EXCEPT !.type = "program"],
          [ExtMach EXCEPT !.tags = {"rpath"}], [ExtMach EXCEPT !.commands = {"load", "environment"}], [ExtMach EXCEPT !.machine = "other"]}
         \cup {[ExtMach EXCEPT !.needed = n] : n \in {<<"system", "path">>, <<"bare">>}}
         \cup {[ExtMach EXCEPT !.slices = <<[ExtMach EXCEPT !.machine = m], [ExtMach EXCEPT !.tags = t]>>] :
               m \in {"this", "other"}, t \in {{}, {"rpath"}}}
    [] OTHER ->
         {ExtPe, [ExtPe EXCEPT !.delayed = TRUE], [ExtPe EXCEPT !.header = FALSE], [ExtPe EXCEPT !.shared = FALSE],
          [ExtPe EXCEPT !.machine = "other"], [ExtPe EXCEPT !.needed = <<"bare", "path">>], ExtElf}
ExtFormImages(format) ==
  [f \in ExtForms(format) |-> [size |-> 1, form |-> f, descriptor |-> ExtDescriptor(2)]]
ExtFormLocks(format) ==
  {[abi |-> 2, checksum |-> f, size |-> 1, target |-> "here"] : f \in ExtForms(format)}
ExtImage(c) ==
  LET image(size, form, d) == [size |-> size, form |-> form, descriptor |-> d] IN
  CASE c = "good" -> image(1, ExtElf, [ExtDescriptor(2) EXCEPT !.struct = 1])
    [] c = "twice" -> image(1, ExtElf, [ExtDescriptor(2) EXCEPT !.functions = <<ExtFunction, ExtFunction>>])
    [] c = "grown" -> image(2, ExtElf, ExtDescriptor(2))
    [] c = "foreign" -> image(1, [ExtElf EXCEPT !.tags = {"runpath"}], ExtDescriptor(2))
    [] c = "first" -> image(1, [ExtElf EXCEPT !.shared = FALSE], ExtDescriptor(1))
    [] c = "renamed" -> image(1, ExtElf, [ExtDescriptor(1) EXCEPT !.name = "q"])
    [] c = "constant" -> image(1, ExtElf, [ExtDescriptor(2) EXCEPT !.constants =
         <<[name |-> "c", value |-> ExtValue("callback", 1)], [name |-> "d", value |-> ExtValue("not finite", 0)]>>])
ExtImages(names) == [c \in names |-> ExtImage(c)]
ExtLocks(names) ==
  LET lock(abi, c, size, target) == [abi |-> abi, checksum |-> c, size |-> size, target |-> target]
  IN  {CASE c \in {"first", "renamed"} -> lock(1, c, 1, "here")
         [] c = "elsewhere" -> lock(2, "good", 1, "elsewhere")
         [] c = "malformed" -> lock(2, "short", 1, "here")
         [] c = "huge" -> lock(2, "good", 9, "here")
         [] OTHER -> lock(2, c, 1, "here") : c \in names}
ExtNumber(halves) == ExtValue("number", halves)
ExtText(n) == ExtValue("text", n)
ExtList(items) == ExtItems("list", items)
ExtArray(items) == ExtItems("array", items)
ExtNil == ExtValue("nil", 0)
\* Numbers at the edges of what is exact, and values at the limits of depth, of
\* size and of kind.
ExtValues ==
  {ExtNumber(n) : n \in {0, 1, 6, 8, 12}} \cup {ExtText(n) : n \in {2, 3}}
  \cup {ExtNil, ExtValue("-0", 0), ExtValue("nan", 0), ExtValue("bytes", 3), ExtValue("resource", 1),
        ExtList(<<ExtNumber(2), ExtItems("tuple", <<ExtText(1), ExtValue("bool", 1)>>)>>),
        ExtList(<<ExtList(<<ExtList(<<ExtNumber(2)>>)>>)>>),
        ExtItems("map", <<ExtText(1), ExtNumber(4), ExtText(2), ExtNil>>),
        ExtItems("tuple", [k \in 1..5 |-> ExtNumber(2)]), ExtItems("tuple", <<ExtText(2), ExtValue("bytes", 2)>>),
        ExtList(<<ExtValue("function", 1)>>), ExtList(<<ExtValue("class", 1)>>)}
ExtReplies ==
  {ExtValue("integer", 5), ExtValue("integer", -7), ExtValue("not finite", 0), ExtValue("unknown", 0), ExtText(3), ExtText(-1),
   ExtArray(<<ExtArray(<<ExtArray(<<>>)>>)>>), ExtArray(<<ExtValue("resource", 1)>>), ExtArray([k \in 1..6 |-> ExtNil]),
   ExtArray(<<ExtText(2), ExtValue("bytes", 2)>>), ExtItems("map", <<ExtText(1), ExtValue("callback", 1)>>),
   ExtItems("error", <<ExtText(1), ExtText(1), ExtArray(<<ExtNil>>)>>), ExtItems("error", <<ExtText(1), ExtNil, ExtNil>>),
   ExtArray(<<ExtArray(<<ExtItems("error", <<ExtText(1), ExtText(1), ExtNil>>)>>)>>)}

Registry == INSTANCE ResourceRegistry WITH
  slots <- x1, free <- x2, count <- x3, closing <- x4, roots <- x5,
  closeAll <- x6, issued <- x7, lineage <- x8, destroyed <- x9,
  MaxGeneration <- 3, NoParent <- None, MaxCreates <- 5
Machine == INSTANCE VmExec WITH
  rust <- x1, frames <- x2, operands <- x3, steps <- x4, depth <- x5,
  raised <- x6, executions <- x7, pumps <- x8, charged <- x9, leaks <- x10,
  MaxSteps <- 4, Classes <- {"book"}, NoClass <- None, MaxOperands <- 2,
  MaxHandlers <- 2, MaxExecutions <- 2, MaxPumps <- 1
Engines == INSTANCE TwoEngines WITH
  program <- x1, heap <- x2, stack <- x3, frames <- x4, raised <- x5,
  ended <- x6
Load == INSTANCE ModuleLoading WITH
  files <- x1, engine <- x2, runs <- x3, frames <- x4, loading <- x5,
  found <- x6, cache <- x7, codes <- x8, archive <- x9, outcome <- x10,
  book <- x11, Modules <- {"main", "a", "b", "c"}, Main <- "main",
  Texts <- ModuleTexts, AtTop <- ModuleBody, InFunction <- ModuleLazy,
  Size <- ModuleSize, Starts <- ModuleStarts, Edits <- ModuleEdits,
  MaxEdits <- 1, MaxRuns <- 2
Apply == INSTANCE Permissions WITH
  given <- x1, asked <- x2, step <- x3, permissions <- x4, shared <- x5,
  Width <- 2, Sensitive <- {2, 3}, Local <- {2},
  Switches <- {"process", "local_network"}, Dirs <- PermitDirs,
  Link <- PermitLink, Package <- <<"p">>, Place <- <<"q">>,
  Hosts <- PermitSets, Requests <- PermitSets, Resources <- PermitResources,
  Paths <- PermitPaths
Session == INSTANCE EngineSession WITH
  static_check <- x1, files <- x2, runtime <- x3, cached <- x4, output <- x5,
  type_history <- x6, run <- x7, answer <- x8, panicked <- x9, left <- x10,
  edited <- x11, Programs <- Pieces, Kinds <- {"number", "text"},
  Modules <- {"m"}, Names <- {"x", "y", "m"}, Start <- "number", MaxRuns <- 4
Debug == INSTANCE Debugger WITH
  course <- x1, program <- x2, breakpoints <- x3, stop_on_entry <- x4,
  step_depth <- x5, step_into <- x6, disconnected <- x7, at <- x8,
  next <- x9, requests <- x10, asked <- x11, Courses <- DebugCourses,
  BreakLines <- {{}, {2}, {4}, {3, 4}}, MaxRequests <- 7
Sweep == INSTANCE Collector WITH
  engine <- x1, heap <- x2, hand <- x3, kept <- x4, emptied <- x5,
  swept <- x6, work <- x7, Starts <- SweepStarts, MaxMade <- 1,
  MaxStores <- 1, MaxKept <- 1
Streams == INSTANCE Networking WITH
  kind <- x1, resources <- x2, listeners <- x3, wire <- x4, ended <- x5,
  read_buffer <- x6, op <- x7, answer <- x8, sent <- x9, seen <- x10,
  contacted <- x11, Handles <- {1}, MaxResources <- 1, MaxListeners <- 1,
  Capacities <- {1, 2}, Sites <- {}, Lookups <- NetLookups,
  MaxRedirects <- 0, MaxBody <- 0, MaxSent <- 4
Quota == INSTANCE Networking WITH
  kind <- x1, resources <- x2, listeners <- x3, wire <- x4, ended <- x5,
  read_buffer <- x6, op <- x7, answer <- x8, sent <- x9, seen <- x10,
  contacted <- x11, Handles <- {1, 2, 3}, MaxResources <- 2,
  MaxListeners <- 1, Capacities <- {1}, Sites <- {}, Lookups <- NetLookups,
  MaxRedirects <- 0, MaxBody <- 0, MaxSent <- 1
Http == INSTANCE Networking WITH
  kind <- x1, resources <- x2, listeners <- x3, wire <- x4, ended <- x5,
  read_buffer <- x6, op <- x7, answer <- x8, sent <- x9, seen <- x10,
  contacted <- x11, Handles <- {}, MaxResources <- 1, MaxListeners <- 1,
  Capacities <- {1, 2}, Sites <- NetSites, Lookups <- {}, MaxRedirects <- 2,
  MaxBody <- 1, MaxSent <- 0
Members == INSTANCE Objects WITH
  decl <- x1, stack <- x2, heap <- x3, statics <- x4, diverged <- x5,
  Programs <- ObjectPrograms, MaxDepth <- 2
Collections == INSTANCE Containers WITH
  lists <- x1, map <- x2, last <- x3, iters <- x4, calls <- x5, answer <- x6,
  steps <- x7, status <- x8, Elements <- {"one", "method"}, MaxElements <- 2,
  MaxIters <- 3, MaxSteps <- 4
Typing == INSTANCE StaticTypes WITH
  x <- x1, belief <- x2, honest <- x3, taken <- x4, test <- x5,
  Values <- TypingValues, Types <- TypingTypes, MaxSteps <- 3
Extend == INSTANCE NativeExtensions WITH
  disk <- x1, lock <- x2, frames <- x3, loading <- x4, libraries <- x5,
  call <- x6, resources <- x7, answer <- x8, edits <- x9, MaxSize <- 3,
  MaxDescriptors <- 2, MaxDependencies <- 2, MaxSlices <- 2, MaxDepth <- 2,
  MaxElements <- 5, MaxString <- 2, MaxTotal <- 3, Exact <- 3,
  Format <- "elf",
  Images <- ExtImages({"good", "twice", "grown", "foreign", "first"}),
  Artifacts <- ExtLocks({"good", "twice", "foreign", "first", "elsewhere"}),
  Values <- {}, Replies <- {}, MaxLibraries <- 2, MaxResources <- 0,
  MaxEdits <- 1
Elf == INSTANCE NativeExtensions WITH
  disk <- x1, lock <- x2, frames <- x3, loading <- x4, libraries <- x5,
  call <- x6, resources <- x7, answer <- x8, edits <- x9, MaxSize <- 3,
  MaxDescriptors <- 2, MaxDependencies <- 2, MaxSlices <- 2, MaxDepth <- 2,
  MaxElements <- 5, MaxString <- 2, MaxTotal <- 3, Exact <- 3,
  Format <- "elf", Images <- ExtFormImages("elf"),
  Artifacts <- ExtFormLocks("elf"), Values <- {}, Replies <- {},
  MaxLibraries <- 1, MaxResources <- 0, MaxEdits <- 0
Mach == INSTANCE NativeExtensions WITH
  disk <- x1, lock <- x2, frames <- x3, loading <- x4, libraries <- x5,
  call <- x6, resources <- x7, answer <- x8, edits <- x9, MaxSize <- 3,
  MaxDescriptors <- 2, MaxDependencies <- 2, MaxSlices <- 2, MaxDepth <- 2,
  MaxElements <- 5, MaxString <- 2, MaxTotal <- 3, Exact <- 3,
  Format <- "mach", Images <- ExtFormImages("mach"),
  Artifacts <- ExtFormLocks("mach"), Values <- {}, Replies <- {},
  MaxLibraries <- 1, MaxResources <- 0, MaxEdits <- 0
Pe == INSTANCE NativeExtensions WITH
  disk <- x1, lock <- x2, frames <- x3, loading <- x4, libraries <- x5,
  call <- x6, resources <- x7, answer <- x8, edits <- x9, MaxSize <- 3,
  MaxDescriptors <- 2, MaxDependencies <- 2, MaxSlices <- 2, MaxDepth <- 2,
  MaxElements <- 5, MaxString <- 2, MaxTotal <- 3, Exact <- 3,
  Format <- "pe", Images <- ExtFormImages("pe"),
  Artifacts <- ExtFormLocks("pe"), Values <- {}, Replies <- {},
  MaxLibraries <- 1, MaxResources <- 0, MaxEdits <- 0
Convert == INSTANCE NativeExtensions WITH
  disk <- x1, lock <- x2, frames <- x3, loading <- x4, libraries <- x5,
  call <- x6, resources <- x7, answer <- x8, edits <- x9, MaxSize <- 3,
  MaxDescriptors <- 2, MaxDependencies <- 2, MaxSlices <- 2, MaxDepth <- 2,
  MaxElements <- 5, MaxString <- 2, MaxTotal <- 3, Exact <- 3,
  Format <- "elf",
  Images <- ExtImages({"good", "first", "constant", "renamed"}),
  Artifacts <- ExtLocks({"good", "first", "constant", "renamed", "malformed", "huge"}),
  Values <- ExtValues, Replies <- ExtReplies, MaxLibraries <- 1,
  MaxResources <- 2, MaxEdits <- 0
Index == INSTANCE LanguageServer WITH
  buffer <- x1, inbox <- x2, sent <- x3, disk <- x4, documents <- x5,
  published <- x6, answer <- x7, alive <- x8, Texts <- IndexTexts,
  Retyped <- {<<TextLet("a", <<>>)>>}, Exports <- {{"m"}}, Fresh <- "fresh",
  MaxSent <- 2
First == INSTANCE CallbackRegistry WITH
  slots <- x1, free <- x2, live <- x3, closed <- x4, issued <- x5,
  MaxGeneration <- 3, MaxReferences <- 2, MaxCreates <- 2
Second == INSTANCE CallbackRegistry WITH
  slots <- x6, free <- x7, live <- x8, closed <- x9, issued <- x10,
  MaxGeneration <- 3, MaxReferences <- 2, MaxCreates <- 2

-----------------------------------------------------------------------------
MCInit ==
  /\ Init
  /\ \/ part = "tasks" /\ Idle1
     \/ part = "registry" /\ Registry!Init /\ Idle10
     \/ part = "machine" /\ Machine!Init /\ Idle11
     \/ part = "engine" /\ Engines!Init /\ Idle7
     \/ part = "loading" /\ Load!Init
     \/ part = "application" /\ Apply!Init /\ Idle6
     \/ part = "session" /\ Session!Init
     \/ part = "debugger" /\ Debug!Init
     \/ part = "sweep" /\ Sweep!Init /\ Idle8
     \/ part = "streams" /\ Streams!Init
     \/ part = "quota" /\ Quota!Init
     \/ part = "http" /\ Http!Init
     \/ part = "objects" /\ Members!Init /\ Idle6
     \/ part = "containers" /\ Collections!Init /\ Idle9
     \/ part = "types" /\ Typing!Init /\ Idle6
     \/ part = "extensions" /\ Extend!Init /\ Idle10
     \/ part = "elf" /\ Elf!Init /\ Idle10
     \/ part = "mach" /\ Mach!Init /\ Idle10
     \/ part = "pe" /\ Pe!Init /\ Idle10
     \/ part = "native values" /\ Convert!Init /\ Idle10
     \/ part = "index" /\ Index!Init /\ Idle9
     \/ part = "vms" /\ First!Init /\ Second!Init /\ Idle11

MCNext ==
  /\ UNCHANGED part
  /\ \/ part = "tasks" /\ Next /\ UNCHANGED others
     \/ part = "registry" /\ Registry!Next /\ UNCHANGED <<vars, x10, x11>>
     \/ part = "machine" /\ Machine!Next /\ UNCHANGED <<vars, x11>>
     \/ part = "engine" /\ Engines!Next /\ UNCHANGED <<vars, x7, x8, x9, x10, x11>>
     \/ part = "loading" /\ Load!Next /\ UNCHANGED vars
     \/ part = "application" /\ Apply!Next /\ UNCHANGED <<vars, x6, x7, x8, x9, x10, x11>>
     \/ part = "session" /\ Session!Next /\ UNCHANGED vars
     \/ part = "debugger" /\ Debug!Next /\ UNCHANGED vars
     \/ part = "sweep" /\ Sweep!Next /\ UNCHANGED <<vars, x8, x9, x10, x11>>
     \/ part = "streams" /\ Streams!Next /\ UNCHANGED vars
     \/ part = "quota" /\ Quota!Next /\ UNCHANGED vars
     \/ part = "http" /\ Http!Next /\ UNCHANGED vars
     \/ part = "objects" /\ Members!Next /\ UNCHANGED <<vars, x6, x7, x8, x9, x10, x11>>
     \/ part = "containers" /\ Collections!Next /\ UNCHANGED <<vars, x9, x10, x11>>
     \/ part = "types" /\ Typing!Next /\ UNCHANGED <<vars, x6, x7, x8, x9, x10, x11>>
     \/ part = "extensions" /\ Extend!Next /\ UNCHANGED <<vars, x10, x11>>
     \/ part = "elf" /\ Elf!Next /\ UNCHANGED <<vars, x10, x11>>
     \/ part = "mach" /\ Mach!Next /\ UNCHANGED <<vars, x10, x11>>
     \/ part = "pe" /\ Pe!Next /\ UNCHANGED <<vars, x10, x11>>
     \/ part = "native values" /\ Convert!Next /\ UNCHANGED <<vars, x10, x11>>
     \/ part = "index" /\ Index!Next /\ UNCHANGED <<vars, x9, x10, x11>>
     \/ part = "vms" /\ First!Next /\ UNCHANGED <<vars, x6, x7, x8, x9, x10, x11>>
     \/ part = "vms" /\ Second!Next /\ UNCHANGED <<vars, x1, x2, x3, x4, x5, x11>>
     \/ part \notin {"tasks"} /\ UNCHANGED <<vars, others>>

MCSpec == MCInit /\ [][MCNext]_<<part, vars, others>>

-----------------------------------------------------------------------------

\* The properties of the parts, each while its part moves.
RegistrySound ==
  part = "registry" => Registry!TypeOK /\ Registry!RegistrySound /\ Registry!ChildrenFirst
CloseAllClears == [][part = "registry" => Registry!Cleared]_<<part, others>>
ActivationsIsolated ==
  part = "machine" => Machine!TypeOK /\ Machine!WindowsIsolated /\ Machine!UnwindingRestores
PortableProgramsAgree ==
  /\ part = "engine" => Engines!PortableProgramsAgree /\ Engines!StatementsBalanced
  /\ part = "containers" => Collections!ContainersHold
EnginesAgree == part = "engine" => Engines!EnginesAgree
ModulesLoad ==
  /\ part = "loading" => Load!TypeOK /\ Load!ModulesLoad
  /\ part = "extensions" => Extend!TypeOK /\ Extend!ExtensionsHold
  /\ part = "native values" => Convert!TypeOK /\ Convert!ExtensionsHold
  /\ part = "elf" => Elf!ExtensionsHold
  /\ part = "mach" => Mach!ExtensionsHold
  /\ part = "pe" => Pe!ExtensionsHold
CollectionIsExact == part = "sweep" => Sweep!TypeOK /\ Sweep!CollectionIsExact
ApplicationConfined == part = "application" => Apply!TypeOK /\ Apply!ApplicationConfined
HostsServed ==
  /\ part = "session" => Session!TypeOK /\ Session!SessionsConsistent
  /\ part = "debugger" => Debug!TypeOK /\ Debug!DebuggingIsFaithful
  /\ part = "index" => Index!AnswersHold
NetworkIsOrderly ==
  /\ part = "streams" => Streams!TypeOK /\ Streams!StreamsInOrder /\ Streams!AnswersFit
  /\ part = "quota" => Quota!TypeOK /\ Quota!QuotaIsExact /\ Quota!ContactsLawful
  /\ part = "http" => Http!TypeOK /\ Http!ContactsLawful
CheckedProgramsHold ==
  /\ part = "types" => Typing!TypeOK /\ Typing!BeliefsHold /\ Typing!AcceptedRuns
  /\ part = "objects" => Members!TypeOK /\ Members!ObjectsAreSound

\* Handles of the first VM are refused by the second, as
\* reference/native-abi-v2.md:26 says of callback_retain, callback_release and
\* callback_post.
ForeignHandlesRefused ==
  part = "vms" => \A id \in 1..Len(x5) : ~Second!Resolves(x5[id])
=============================================================================

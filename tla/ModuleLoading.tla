---------------------------- MODULE ModuleLoading ----------------------------
(***************************************************************************)
(* How a program and the modules it imports are loaded: by the tree        *)
(* interpreter, by the virtual machine from sources and from an            *)
(* application archive, by the type checker, and by the compiler of        *)
(* archives (src/interpreter.rs, vm.rs, type_checker.rs, application.rs).  *)
(*                                                                         *)
(* One engine is alive at a time.  The files are the same for all, and     *)
(* others may edit them.  A text is a sequence of statements and the body  *)
(* of one function its importers may call.  Where a path leads, and who    *)
(* may read it, is the concern of PackagePaths.                            *)
(***************************************************************************)
EXTENDS Integers, Sequences, FiniteSets, SequencesExt

CONSTANTS
  Modules,   \* canonical paths of the modules
  Main,      \* the one whose text is the program
  Texts,     \* what a file may hold; "missing" and "broken" hold no program
  AtTop,     \* the statements of a text: [do, of] with do one of import,
  InFunction,\*   try (an import whose error is caught), raise, call; and
             \*   the statements of its function
  Size,      \* the length of a text in bytes
  Starts,    \* the texts the files may have at first
  Edits,     \* <<module, text>>: what others may write to the files
  MaxEdits,  \* bound: how often they do
  MaxRuns    \* bound: runs in the life of one engine

VARIABLES
  files,    \* text and time of change of each file
  engine,   \* the engine alive, "none" between two
  runs,     \* programs it has begun to run
  frames,   \* the texts under way, the innermost at the end
  loading,  \* loading_modules: modules being loaded
  found,    \* the file opened, and its metadata, before it is read
  cache,    \* module_cache: the text each loaded module has
  codes,    \* bytecode_cache: compiled texts with length and time
  archive,  \* the modules compiled into an archive
  outcome,  \* of the run under way or of the last
  book      \* history: order of initialisation, first verdict of each engine,
            \* edits, earlier contents of files, stale text run

vars == <<files, engine, runs, frames, loading, found, cache, codes, archive, outcome, book>>

Engines == {"check", "tree", "machine", "compile", "application"}
Runners == {"tree", "machine", "application"}
Runs(text) == text \notin {"missing", "broken"}
Program == "program"
Nothing == [module |-> "nothing"]
NoModule == [x \in {} |-> "none"]

Metadata(m) == <<Size[files[m].text], files[m].time>>
Top == frames[Len(frames)]
\* The compiler of archives looks at the imports of every function as well.
Statements(f) == IF engine = "compile" THEN AtTop[f.text] \o InFunction[f.text]
                 ELSE IF f.part = "lazy" THEN InFunction[f.text] ELSE AtTop[f.text]
More == Top.at <= Len(Statements(Top))
Statement == Statements(Top)[Top.at]
Frame(m, text, part) == [module |-> m, text |-> text, part |-> part, at |-> 1]
Advanced == [frames EXCEPT ![Len(frames)].at = @ + 1]
Without(m) == SelectSeq(loading, LAMBDA x : x # m)

Busy == engine # "none" /\ outcome = "running"
Rests == engine # "none" /\ frames = <<>>

-----------------------------------------------------------------------------
\* Checker::check_module loads the imports at the top level of a module and
\* those of the modules they lead to.
Imports(text) ==
  IF Runs(text) THEN {AtTop[text][i].of : i \in {j \in 1 .. Len(AtTop[text]) : AtTop[text][j].do = "import"}}
  ELSE {}
After(S) == S \cup UNION {Imports(files[m].text) : m \in S}
Reached(S) ==
  LET f[n \in 0 .. Cardinality(Modules)] == IF n = 0 THEN S ELSE After(f[n - 1])
  IN f[Cardinality(Modules)]
\* check_in_directory accepts the module.
Checks(m) ==
  \A x \in Reached({m}) :
    Runs(files[x].text) /\ x \notin Reached(Imports(files[x].text))

-----------------------------------------------------------------------------
\* A new engine: Interpreter, Vm, Checker or ApplicationCompiler; one of each.
Open(e) ==
  /\ engine = "none" /\ e \notin book.opened
  /\ e = "application" => archive # NoModule
  /\ engine' = e
  /\ runs' = 0
  /\ frames' = <<>> /\ loading' = <<>> /\ cache' = NoModule /\ codes' = NoModule
  /\ outcome' = "idle"
  /\ archive' = IF e = "compile" THEN NoModule ELSE archive
  /\ book' = [book EXCEPT !.order = <<>>, !.opened = @ \cup {e}]
  /\ UNCHANGED <<files, found>>

Close ==
  /\ Rests /\ runs > 0
  /\ engine' = "none"
  /\ UNCHANGED <<files, runs, frames, loading, found, cache, codes, archive, outcome, book>>

\* The checker and the compiler count the program among the modules being
\* loaded, the engines do not.
Counted == IF engine \in {"check", "compile"} THEN <<Main>> ELSE loading

\* execute_application: the program is in the archive, and the cache of
\* application modules is a new one for each run.
ProgramText == IF engine = "application" THEN archive[Main] ELSE files[Main].text
CacheAtStart == IF engine = "application" THEN NoModule ELSE cache

\* execute_in_directory, check_root_module, compile_application.  An engine is
\* used again for the next program with the modules it has.
Run ==
  /\ Rests /\ runs < MaxRuns
  /\ engine \in {"check", "compile"} => runs = 0
  /\ runs' = runs + 1
  /\ frames' = <<Frame(IF engine = "compile" THEN Main ELSE Program, ProgramText, "body")>>
  /\ loading' = Counted
  /\ cache' = CacheAtStart
  /\ outcome' = IF engine = "compile" /\ ~Checks(Main) THEN "failing" ELSE "running"
  /\ book' = [book EXCEPT !.order = <<>>]
  /\ UNCHANGED <<files, engine, found, codes, archive>>

-----------------------------------------------------------------------------
\* Imports.

Wants(m) == Busy /\ found = Nothing /\ More
            /\ Statement.do \in {"import", "try"} /\ Statement.of = m
\* Imports inside of blocks are left alone by the checker.
Seen(m) == Wants(m) /\ (engine = "check" => Statement.do = "import")

\* The module is there already.
Known(m) ==
  /\ Seen(m)
  /\ m \in DOMAIN cache
  /\ frames' = Advanced
  /\ UNCHANGED <<files, engine, runs, loading, found, cache, codes, archive, outcome, book>>

\* An error of an import: the checker notes it and goes on; a run or a
\* compilation ends, unless it is caught.
CheckerNotes == frames' = Advanced /\ book' = [book EXCEPT !.errors = TRUE] /\ UNCHANGED outcome
Refuse ==
  /\ IF engine = "check" THEN CheckerNotes
     ELSE outcome' = "failing" /\ UNCHANGED <<frames, book>>
  /\ UNCHANGED <<files, engine, runs, loading, found, cache, codes, archive>>

Circular(m) ==
  /\ Seen(m)
  /\ m \notin DOMAIN cache /\ Contains(loading, m)
  /\ Refuse

Fresh(m) == Seen(m) /\ m \notin DOMAIN cache /\ ~Contains(loading, m)

\* No such file, or no such module in the archive.
Absent(m) ==
  /\ Fresh(m)
  /\ IF engine = "application" THEN m \notin DOMAIN archive ELSE files[m].text = "missing"
  /\ Refuse

\* The checker reads and parses the text before it counts the module in.
Unreadable(m) ==
  /\ Fresh(m) /\ engine = "check"
  /\ files[m].text = "broken"
  /\ Refuse

\* resolved.open() and the metadata of the open file; the module counts as
\* being loaded from here on.
Find(m) ==
  /\ Fresh(m)
  /\ IF engine = "application" THEN m \in DOMAIN archive ELSE files[m].text # "missing"
  /\ engine = "check" => files[m].text # "broken"
  /\ found' = [module |-> m, metadata |-> Metadata(m), text |-> files[m].text]
  /\ loading' = Append(loading, m)
  /\ UNCHANGED <<files, engine, runs, frames, cache, codes, archive, outcome, book>>

\* Mutant: a compiled text is used whenever the length is right.
MutCompiled(m) ==
  m \in DOMAIN codes /\ codes[m].metadata[1] = found.metadata[1]
\* The compiled text of an earlier load whose metadata the file still has.
Compiled(m) == m \in DOMAIN codes /\ codes[m].metadata = found.metadata

\* The open file is read: what it holds now, also after it was deleted.
Snapshot(m) == IF files[m].text = "missing" THEN found.text ELSE files[m].text
Archived(m) == archive[m]
\* The text a load runs.
Source(m) ==
  CASE engine = "application" -> Archived(m)
    [] engine = "machine" /\ Compiled(m) -> codes[m].text
    [] OTHER -> Snapshot(m)

\* The file is read, parsed, for an archive checked, and its statements begin.
Begin ==
  /\ Busy /\ found # Nothing
  /\ LET m == found.module
         text == Source(m)
     IN /\ Runs(text)
        /\ engine = "compile" => Checks(m)
        /\ frames' = Append(frames, Frame(m, text, "body"))
        /\ codes' = IF engine # "machine" \/ Compiled(m) THEN codes
                    ELSE [x \in DOMAIN codes \cup {m} |->
                            IF x = m THEN [metadata |-> found.metadata, text |-> text] ELSE codes[x]]
        /\ book' = [book EXCEPT !.stale =
             @ \/ (engine = "machine" /\ text \notin {found.text, files[m].text}
                     /\ \A a, b \in book.had[m] \cup {files[m]} :
                          Size[a.text] = Size[b.text] /\ a.time = b.time => a = b)]
  /\ found' = Nothing
  /\ UNCHANGED <<files, engine, runs, loading, cache, archive, outcome>>

\* Mutant: a module that cannot be parsed goes on being loaded.
MutReject ==
  /\ Busy /\ found # Nothing
  /\ LET m == found.module
     IN ~Runs(Source(m)) \/ (engine = "compile" /\ ~Checks(m))
  /\ found' = Nothing
  /\ outcome' = "failing"
  /\ UNCHANGED <<files, engine, runs, frames, loading, cache, codes, archive, book>>
\* It cannot be parsed, or the checker refuses it.
Reject ==
  /\ Busy /\ found # Nothing
  /\ LET m == found.module
     IN ~Runs(Source(m)) \/ (engine = "compile" /\ ~Checks(m))
  /\ found' = Nothing
  /\ loading' = Front(loading)
  /\ outcome' = "failing"
  /\ UNCHANGED <<files, engine, runs, frames, cache, codes, archive, book>>

-----------------------------------------------------------------------------
\* The other statements.

Skip ==
  /\ Busy /\ found = Nothing /\ More
  /\ \/ engine \in {"check", "compile"} /\ Statement.do \in {"raise", "call"}
     \/ engine = "check" /\ Statement.do = "try"
  /\ frames' = Advanced
  /\ UNCHANGED <<files, engine, runs, loading, found, cache, codes, archive, outcome, book>>

\* The function of a module that was imported.
Call ==
  /\ Busy /\ found = Nothing /\ More /\ engine \in Runners
  /\ Statement.do = "call"
  /\ Statement.of \in DOMAIN cache
  /\ Len(frames) < 6   \* bound: such calls nest
  /\ frames' = Append(frames, Frame(Statement.of, cache[Statement.of], "lazy"))
  /\ UNCHANGED <<files, engine, runs, loading, found, cache, codes, archive, outcome, book>>

Raise ==
  /\ Busy /\ found = Nothing /\ More /\ engine \in Runners
  /\ \/ Statement.do = "raise"
     \/ Statement.do = "call" /\ (Statement.of \notin DOMAIN cache \/ Len(frames) = 6)
  /\ outcome' = "failing"
  /\ UNCHANGED <<files, engine, runs, frames, loading, found, cache, codes, archive, book>>

\* The first verdict of each engine, for the comparison.
Judged(result) ==
  [book EXCEPT !.verdicts[engine] = IF runs = 1 /\ book.edits = 0
                                      THEN <<result, book.order>> ELSE @]

\* Mutant: a module is not remembered.
MutRemembered(m, text) == cache
\* module_cache.insert once the statements have run.
Remembered(m, text) ==
  [x \in DOMAIN cache \cup {m} |-> IF x = m THEN text ELSE cache[x]]

\* The statements of a module have run: it is initialised and its importer
\* goes on.
Finish ==
  /\ Busy /\ found = Nothing /\ ~More /\ Len(frames) > 1
  /\ IF Top.part = "lazy" THEN UNCHANGED <<loading, cache, book>>
     ELSE /\ loading' = Front(loading)
          /\ cache' = Remembered(Top.module, Top.text)
          /\ book' = [book EXCEPT !.order = Append(@, Top.module)]
  /\ LET rest == Front(frames) IN frames' = [rest EXCEPT ![Len(rest)].at = @ + 1]
  /\ UNCHANGED <<files, engine, runs, found, codes, archive, outcome>>

\* The program itself has run.
Conclude ==
  /\ Busy /\ found = Nothing /\ ~More /\ Len(frames) = 1
  /\ frames' = <<>>
  /\ loading' = IF engine \in {"check", "compile"} THEN Front(loading) ELSE loading
  /\ archive' = IF engine = "compile" THEN Remembered(Main, Top.text) ELSE archive
  /\ outcome' = IF engine = "check" /\ book.errors THEN "error" ELSE "fine"
  /\ book' = [Judged(outcome') EXCEPT !.errors = FALSE]
  /\ UNCHANGED <<files, engine, runs, found, cache, codes>>

\* An error leaves the innermost text; an import that is caught stops it.
Unwind ==
  /\ outcome = "failing"
  /\ IF More /\ Statement.do = "try" /\ engine \in Runners
       THEN /\ frames' = Advanced
            /\ outcome' = "running"
            /\ UNCHANGED <<loading, book>>
       ELSE /\ frames' = Front(frames)
            /\ loading' = IF Top.module # Program /\ Top.part = "body" THEN Front(loading) ELSE loading
            /\ outcome' = IF Len(frames) = 1 THEN "error" ELSE "failing"
            /\ book' = IF Len(frames) = 1 THEN Judged("error") ELSE book
  /\ UNCHANGED <<files, engine, runs, found, cache, codes, archive>>

-----------------------------------------------------------------------------
\* Someone edits a file, at once after the last edit or a while later.  The
\* checker and the compiler are taken to work between two edits.
Edit(m, text, later) ==
  /\ book.edits < MaxEdits
  /\ engine \notin {"check", "compile"}
  /\ text # files[m].text
  /\ files' = [files EXCEPT ![m] = [text |-> text, time |-> @.time + later]]
  /\ book' = [book EXCEPT !.edits = @ + 1, !.had[m] = @ \cup {files[m]}]
  /\ UNCHANGED <<engine, runs, frames, loading, found, cache, codes, archive, outcome>>

Init ==
  /\ \E start \in Starts : files = [m \in Modules |-> [text |-> start[m], time |-> 0]]
  /\ engine = "none" /\ runs = 0
  /\ frames = <<>> /\ loading = <<>> /\ found = Nothing
  /\ cache = NoModule /\ codes = NoModule /\ archive = NoModule
  /\ outcome = "idle"
  /\ book = [order |-> <<>>, opened |-> {}, verdicts |-> [e \in Engines |-> <<>>], edits |-> 0,
             had |-> [m \in Modules |-> {}], errors |-> FALSE, stale |-> FALSE]

Import(m) == Known(m) \/ Circular(m) \/ Absent(m) \/ Unreadable(m) \/ Find(m)
Next ==
  \/ \E e \in Engines : Open(e)
  \/ Close \/ Run
  \/ \E m \in Modules : Import(m)
  \/ Begin \/ Reject \/ Skip \/ Call \/ Raise \/ Finish \/ Conclude \/ Unwind
  \/ \E e \in Edits, later \in 0 .. 1 : Edit(e[1], e[2], later)

Spec == Init /\ [][Next]_vars

-----------------------------------------------------------------------------
\* Types.
TypeOK ==
  /\ files \in [Modules -> [text : Texts, time : 0 .. MaxEdits]]
  /\ engine \in Engines \cup {"none"} /\ runs \in 0 .. MaxRuns
  /\ \A i \in 1 .. Len(frames) :
       frames[i].module \in Modules \cup {Program} /\ Runs(frames[i].text)
  /\ loading \in Seq(Modules) /\ Len(loading) <= Cardinality(Modules)
  /\ DOMAIN cache \subseteq Modules /\ DOMAIN codes \subseteq Modules
  /\ outcome \in {"idle", "running", "failing", "fine", "error"}

\* The modules that count as being loaded are those whose statements are under
\* way, each once, whatever has failed before: a cycle is reported only where
\* there is one, and an engine that has failed can load the module again.
LoadingIsReal ==
  LET begun == SelectSeq(frames, LAMBDA f : f.part = "body" /\ f.module # Program)
      root == IF engine = "check" /\ frames # <<>> THEN <<Main>> ELSE <<>>
      next == IF found # Nothing THEN <<found.module>> ELSE <<>>
  IN /\ loading = root \o [i \in 1 .. Len(begun) |-> begun[i].module] \o next
     /\ IsInjective(loading)

\* Whoever has passed an import finds the module initialised, and no engine
\* initialises a module twice in one run.
ImportsAreInitialised ==
  /\ IsInjective(book.order)
  /\ \A i \in 1 .. Len(frames) :
       LET f == frames[i] IN
         \A j \in 1 .. f.at - 1 :
           engine # "check" /\ Statements(f)[j].do = "import" => Statements(f)[j].of \in DOMAIN cache

\* On the same files the engines agree: the interpreter and the virtual machine
\* initialise the same modules in the same order with the same result, an
\* application does what its sources do, and a program the checker accepts
\* never fails to find or parse what it imports at the top.
LoadersAgree ==
  LET v == book.verdicts IN
    /\ v["tree"] # <<>> /\ v["machine"] # <<>> => v["tree"] = v["machine"]
    /\ v["application"] # <<>> /\ v["machine"] # <<>> => v["application"] = v["machine"]
    /\ v["check"] # <<>> /\ book.edits = 0 => (v["check"][1] = "fine" <=> Checks(Main))
    /\ v["compile"] # <<>> /\ v["compile"][1] = "fine" /\ v["check"] # <<>> => v["check"][1] = "fine"

\* A module runs what its file holds, or held when it was opened, as long as
\* its length or time tells two contents of the file apart.
RunsWhatIsThere == ~book.stale

\* Loading is sound: the four together.
ModulesLoad == LoadingIsReal /\ ImportsAreInitialised /\ LoadersAgree /\ RunsWhatIsThere
==============================================================================

------------------------------ MODULE MCProcesses ------------------------------
(***************************************************************************)
(* The parts of the system that run processes and threads, or write what   *)
(* is started later, on small instances, explored one at a time: part names*)
(* the one that moves, x1, x2, ... stand for its variables.                *)
(***************************************************************************)
EXTENDS Integers, Sequences

VARIABLES part, \* the component that moves
  x1, x2, x3, x4, x5, x6, x7, x8, x9, x10, x11, x12 \* its variables

state == <<x1, x2, x3, x4, x5, x6, x7, x8, x9, x10, x11, x12>>

Idle12 == x12 = 0
Idle11 == x11 = 0 /\ Idle12
Idle10 == x10 = 0 /\ Idle11
Idle9 == x9 = 0 /\ Idle10

-----------------------------------------------------------------------------
OutputOf == [s \in {"stdout", "stderr"} |-> IF s = "stdout" THEN 2 ELSE 1]
BudgetOf == [s \in {"stdout", "stderr"} |-> IF s = "stdout" THEN 1 ELSE 0]
\* A package with two names that differ in case, a directory in a directory, an
\* empty one and a file of the version control.
AppOrder == <<<<"assets", ".git">>, <<"assets", "A">>, <<"assets", "a">>, <<"assets", "sub", "b">>, <<"icon">>>>
AppDirs == {<<"assets">>, <<"assets", "sub">>, <<"assets", "empty">>}
AppTrees ==
  {[f \in {AppOrder[k] : k \in DOMAIN AppOrder} |->
      CASE f = <<"assets", "a">> -> a [] f = <<"assets", "A">> -> u [] f = <<"assets", "sub", "b">> -> b [] OTHER -> "text"] :
     a \in {"absent", "text", "bytes", "huge"}, u \in {"absent", "text"}, b \in {"absent", "text"}}
\* Archives for each target: one with two packages that hold the same library,
\* one with a broken icon, one that is not graphical.
BundleOf(n, t, r, i, l) ==
  [name |-> n, target |-> t, runtime |-> "linux", gui |-> n # "tool", icon |-> i, resources |-> r, natives |-> l]
BundleArchives ==
  {BundleOf("plain", "linux", <<<<"icon">>>>, "good", <<>>),
   BundleOf("twice", "linux", <<>>, "default", <<<<"sum", "lib">>, <<"sum", "lib">>>>),
   BundleOf("broken", "linux", <<<<"icon">>>>, "broken", <<>>),
   BundleOf("tool", "linux", <<>>, "default", <<>>),
   BundleOf("mac", "macos", <<>>, "default", <<>>),
   [BundleOf("mac", "macos", <<<<"application.yxb">>>>, "default", <<<<"sum", "lib">>, <<"other", "lib">>>>) EXCEPT !.runtime = "macos"],
   [BundleOf("win", "windows", <<<<"bundle-manifest.json">>>>, "default", <<<<"sum", "lib">>>>) EXCEPT !.runtime = "windows"]}
AppNative(n, c, l) == [name |-> n, content |-> c, locked |-> l]
AppManifests ==
  {[declared |-> d, icon |-> FALSE, kind |-> "cli", permits |-> {}, natives |-> {}] :
     d \in {{<<>>}, {<<"assets">>}, {<<"assets", "sub">>, <<"assets", "empty">>}, {<<"assets", "a">>}}}
  \cup {[declared |-> {<<"assets">>}, icon |-> TRUE, kind |-> "gui", permits |-> p, natives |-> {}] :
     p \in {{}, {"gui"}}}
  \cup {[declared |-> {<<"assets", "sub">>}, icon |-> FALSE, kind |-> "cli", permits |-> p, natives |-> n] :
     p \in {{}, {"native"}},
     n \in {{AppNative("m", "bytes", "bytes"), AppNative("n", "bytes", "bytes")}, {AppNative("m", "other", "text")}, {AppNative("m", "huge", "huge")},
            {AppNative("m", "text", "text"), AppNative("n", "text", "text"), AppNative("o", "text", "text")}}}
\* Texts that declare, use and shadow the names a and b, and one that is too large.
TextStatement(k, n, p, v, b) == [kind |-> k, name |-> n, params |-> p, value |-> v, blocks |-> b]
TextName(n) == <<[name |-> n, via |-> "none"]>>
TextThis(n) == <<[name |-> n, via |-> "this"]>>
TextPath(n, m) == TextName(n) \o <<[name |-> m, via |-> "chain"]>>
TextLet(n, v) == TextStatement("let", n, <<>>, v, <<>>)
TextShow(v) == TextStatement("show", "", <<>>, v, <<>>)
TextFunction(f, p, b) == TextStatement("function", f, <<p>>, <<>>, <<b>>)
TextClass(c, f, methods) == TextStatement("class", c, <<f>>, <<>>, <<methods>>)
TextImport == TextStatement("import", "a", <<>>, <<>>, <<>>)
TextStarts ==
  {<<TextLet("b", <<>>), TextLet("a", TextName("b"))>>, <<TextImport>>, <<TextClass("b", "a", <<>>)>>,
   <<TextClass("a", "m", <<TextFunction("f", "b", <<TextShow(TextThis("m"))>>)>>)>>,
   <<TextImport, TextClass("b", "m", <<TextFunction("f", "a", <<TextStatement("return", "", <<>>, TextName("a"), <<>>)>>)>>)>>}
EditorTexts ==
  {x \o <<y, z>> : x \in TextStarts, z \in {TextShow(TextName("a")), TextShow(TextPath("a", "m"))},
                   y \in {TextFunction("a", "b", <<TextShow(TextName("a")), TextLet("a", TextName("b"))>>),
                          TextStatement("try", "b", <<>>, <<>>, <<<<TextShow(TextName("a"))>>, <<TextShow(TextName("b"))>>>>)}}
TooLarge == <<TextStatement("large", "", <<>>, <<>>, <<>>)>>

Command == INSTANCE Supervisor WITH
  life <- x1, group <- x2, holds <- x3, pipe <- x4, written <- x5,
  reader <- x6, disk <- x7, caller <- x8, outcome <- x9, result <- x10,
  watchdog <- x11, stop <- x12, Processes <- 1 .. 2, Leader <- 1,
  MaxOutput <- OutputOf, Budget <- BudgetOf, MaxDisk <- 0
Host == INSTANCE Natives WITH
  files <- x1, granted <- x2, call <- x3, ended <- x4, calls <- x5,
  runs <- x6, holds <- x7, stream <- x8, waiter <- x9, late <- x10,
  MaxOutput <- 1, MaxWritten <- 2, MaxCalls <- 2
Tests == INSTANCE TestRunner WITH
  marks <- x1, queue <- x2, worker <- x3, inside <- x4, channel <- x5,
  got <- x6, failure <- x7, main <- x8, ran <- x9, MaxFiles <- 2,
  MaxJobs <- 2
Apps == INSTANCE Applications WITH
  tree <- x1, manifest <- x2, build <- x3, output <- x4, reported <- x5,
  edits <- x6, builds <- x7, seen <- x8, Order <- AppOrder, Dirs <- AppDirs,
  Trees <- AppTrees, Manifests <- AppManifests,
  Edited <- {<<"assets", "a">>, <<"icon">>}, MaxEntries <- 2, MaxTotal <- 2,
  MaxNatives <- 2, MaxFile <- 1, MaxDecoded <- 3, MaxEdits <- 1,
  MaxBuilds <- 2
Editor == INSTANCE LanguageServer WITH
  buffer <- x1, inbox <- x2, sent <- x3, disk <- x4, documents <- x5,
  published <- x6, answer <- x7, alive <- x8, Texts <- EditorTexts,
  Retyped <- {<<TextLet("a", <<>>)>>, TooLarge}, Exports <- {{"m"}},
  Fresh <- "fresh", MaxSent <- 3
Bundle == INSTANCE Bundles WITH
  dirs <- x1, builder <- x2, result <- x3, installed <- x4, broken <- x5,
  builds <- x6, signed <- x7, runner <- x8, Archives <- BundleArchives,
  Builders <- 1 .. 2, Pids <- 1 .. 2, MaxBuilds <- 2, MaxSigned <- 1

-----------------------------------------------------------------------------
Init ==
  \/ part = "command" /\ Command!Init
  \/ part = "natives" /\ Host!Init /\ Idle11
  \/ part = "tests" /\ Tests!Init /\ Idle10
  \/ part = "applications" /\ Apps!Init /\ Idle9
  \/ part = "editor" /\ Editor!Init /\ Idle9
  \/ part = "bundles" /\ Bundle!Init /\ Idle9

Next ==
  /\ UNCHANGED part
  /\ \/ part = "command" /\ Command!Next
     \/ part = "natives" /\ Host!Next /\ UNCHANGED <<x11, x12>>
     \/ part = "tests" /\ Tests!Next /\ UNCHANGED <<x10, x11, x12>>
     \/ part = "applications" /\ Apps!Next /\ UNCHANGED <<x9, x10, x11, x12>>
     \/ part = "editor" /\ Editor!Next /\ UNCHANGED <<x9, x10, x11, x12>>
     \/ part = "bundles" /\ Bundle!Next /\ UNCHANGED <<x9, x10, x11, x12>>

\* What the scheduling of the system justifies.
Fairness ==
  /\ WF_state(part = "command" /\ Command!CallerStep)
  /\ WF_state(part = "command" /\ Command!Watch)
  /\ WF_state(part = "command" /\ Command!Expire)
  /\ WF_state(part = "command" /\ Command!Read("stdout"))
  /\ WF_state(part = "command" /\ Command!Read("stderr"))
  /\ WF_state(part = "natives" /\ Host!Deadline /\ UNCHANGED <<x11, x12>>)
  /\ WF_state(part = "natives" /\ Host!process_run /\ UNCHANGED <<x11, x12>>)
  /\ WF_state(part = "natives" /\ Host!read_process_output("stdout") /\ UNCHANGED <<x11, x12>>)
  /\ WF_state(part = "natives" /\ Host!read_process_output("stderr") /\ UNCHANGED <<x11, x12>>)
  /\ \A w \in 1 .. 2 : WF_state(part = "tests" /\ Tests!Work(w) /\ UNCHANGED <<x10, x11, x12>>)
  /\ WF_state(part = "tests" /\ Tests!Collect /\ UNCHANGED <<x10, x11, x12>>)

Spec == Init /\ [][Next]_<<part, state>> /\ Fairness

-----------------------------------------------------------------------------
TypeOK ==
  CASE part = "command" -> Command!TypeOK
    [] part = "natives" -> TRUE
    [] part = "tests" -> Tests!TypeOK
    [] part = "applications" -> TRUE
    [] part = "editor" -> TRUE
    [] part = "bundles" -> TRUE

\* The properties of the parts, each while its part moves.
ReturnIsClean ==
  /\ part = "command" => Command!ReturnIsClean
  /\ part = "tests" => Tests!ReportIsWhole
  /\ part = "natives" => Host!NativesHold
  /\ part = "applications" => Apps!ApplicationsHold
  /\ part = "bundles" => Bundle!BundlesHold
  /\ part = "editor" => Editor!AnswersHold
RunReturns ==
  /\ (part = "command" /\ Command!Here("spawn")) ~>
       (part = "command" /\ (Command!Here("returned") \/ Command!Here("dead") \/ Command!Outsider))
  /\ part = "tests" ~> ((part = "tests" /\ Tests!Returned) \/ [](part = "tests" /\ Tests!Hangs))
  /\ (part = "natives" /\ Host!Running) ~> ((part = "natives" /\ ~Host!Running) \/ [](part = "natives" /\ Host!Held))
OrphansEnd ==
  (part = "command" /\ Command!Here("dead") /\ Command!Guarded) ~> (part = "command" /\ Command!Members = {})
=============================================================================

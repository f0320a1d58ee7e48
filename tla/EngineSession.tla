----------------------------- MODULE EngineSession -----------------------------
(***************************************************************************)
(* An engine that a host keeps and feeds one program after the other       *)
(* (src/embed.rs), from Rust or through the C interface (src/ffi.rs).  The *)
(* runtime remembers what programs defined; the type checker is given all  *)
(* programs so far, and checks them again with what their imports say now. *)
(*                                                                         *)
(* A program is what it asks of the checker and of the runtime: names it   *)
(* needs, names it defines one after the other with the type they have, a  *)
(* module it imports, and how it ends.                                     *)
(***************************************************************************)
EXTENDS Integers, Sequences, FiniteSets

CONSTANTS
  Programs,   \* records: text, needs, defines, imports, ends
  Kinds,      \* the types names may have
  Modules, Names,
  Start,      \* the type the module's name has in its file at first
  MaxRuns     \* bound: programs run

VARIABLES
  static_check,
  files,        \* the type each module gives its name now
  runtime,      \* the names the runtime knows, with their types
  cached,       \* modules the runtime has loaded, with the type they gave
  output,       \* what was printed and not taken yet, by run
  type_history, \* the programs the checker starts from
  run,          \* programs run so far
  answer,       \* what the last run gave its host
  panicked,     \* history: the runs a panic has ended since the last reset
  left,         \* history: the names such runs have left, and no run since has given anew
  edited        \* history: a module was edited since the last reset

vars == <<static_check, files, runtime, cached, output, type_history, run, answer, panicked, left, edited>>

Absent == "none"
Unknown == [n \in Names |-> Absent]

\* What a program leaves behind when its first k statements were executed.
Defines(names, program, from, k) ==
  LET imported == IF program.imports = Absent THEN names
                  ELSE [names EXCEPT ![program.imports] = from]
  IN [n \in Names |->
       LET at == {i \in 1 .. k : program.defines[i][1] = n}
       IN IF at = {} THEN imported[n]
          ELSE program.defines[CHOOSE i \in at : \A j \in at : j <= i][2]]

Touched(program, k) == {program.defines[i][1] : i \in 1 .. k} \cup ({program.imports} \ {Absent})

\* The checker goes through all programs with the modules as they are now.
Learned(programs) ==
  LET L[i \in 0 .. Len(programs)] ==
        IF i = 0 THEN [ok |-> TRUE, names |-> Unknown]
        ELSE LET before == L[i - 1]
                 p == programs[i]
                 base == Defines(before.names, p, IF p.imports = Absent THEN Absent ELSE files[p.imports], 0)
             IN [ok |-> before.ok /\ \A n \in DOMAIN p.needs : base[n] = p.needs[n],
                 names |-> Defines(base, [p EXCEPT !.imports = Absent], Absent, Len(p.defines))]
  IN L[Len(programs)]

\* The type the runtime has for the module of a program: the one it loaded.
Loaded(p) == IF p.imports = Absent THEN Absent
             ELSE IF cached[p.imports] # Absent THEN cached[p.imports] ELSE files[p.imports]

Fresh ==
  /\ runtime' = Unknown /\ cached' = [m \in Modules |-> Absent] /\ output' = {}
  /\ type_history' = <<>>
  /\ panicked' = {} /\ left' = {} /\ edited' = FALSE

\* Mutant: a failed run keeps the runtime it has failed in.
MutReset(p) ==
  /\ \E k \in 0 .. Len(p.defines) : runtime' = Defines(runtime, p, Loaded(p), k)
  /\ UNCHANGED <<cached, output, type_history, panicked, left, edited>>
\* After an error of the runtime everything is built anew (Engine::reset).
ResetAfter(p) == Fresh

Answer(kind, names, printed) == [kind |-> kind, names |-> names, output |-> printed]
Unchanged == UNCHANGED <<runtime, cached, output, type_history, panicked, left, edited>>

-----------------------------------------------------------------------------
\* The text is too long or cannot be parsed, the checker refuses it, or the
\* compiler does: nothing was executed.
Refuse(p) ==
  /\ \/ p.text = "bad" /\ answer' = Answer("frontend", Unknown, {})
     \/ /\ p.text # "bad" /\ static_check /\ ~Learned(Append(type_history, p)).ok
        /\ answer' = Answer("type", Unknown, {})
     \/ /\ p.text = "uncompiled" /\ (static_check => Learned(Append(type_history, p)).ok)
        /\ answer' = Answer("compile", Unknown, {})
  /\ Unchanged

\* The statements are executed in order, each of them prints.  One that needs
\* what the runtime does not have fails there.
Accepted(p) ==
  /\ p.text = "good"
  /\ static_check => Learned(Append(type_history, p)).ok
Suits(p) ==
  LET names == Defines(runtime, p, Loaded(p), 0)
  IN \A n \in DOMAIN p.needs : names[n] = p.needs[n]

Succeed(p) ==
  /\ Accepted(p) /\ Suits(p) /\ p.ends = "ok"
  /\ runtime' = Defines(runtime, p, Loaded(p), Len(p.defines))
  /\ cached' = [m \in Modules |-> IF m = p.imports THEN Loaded(p) ELSE cached[m]]
  /\ output' = {}
  /\ answer' = Answer("ok", runtime', output \cup {run + 1})
  /\ type_history' = IF static_check THEN Append(type_history, p) ELSE type_history
  /\ left' = left \ Touched(p, Len(p.defines))
  /\ UNCHANGED <<panicked, edited>>

Raise(p) ==
  /\ Accepted(p) /\ (~Suits(p) \/ p.ends = "error")
  /\ answer' = Answer("runtime", Unknown, {})
  /\ ResetAfter(p)

\* A panic leaves run_named in the middle; yanxu_engine_run catches it.
Panic(p) ==
  /\ Accepted(p) /\ Suits(p) /\ p.ends = "panic"
  /\ \E k \in 0 .. Len(p.defines) :
       runtime' = Defines(runtime, p, Loaded(p), k) /\ left' = left \cup Touched(p, k)
  /\ cached' = [m \in Modules |-> IF m = p.imports THEN Loaded(p) ELSE cached[m]]
  /\ output' = output \cup {run + 1}
  /\ answer' = Answer("panic", Unknown, {})
  /\ panicked' = panicked \cup {run + 1}
  /\ UNCHANGED <<type_history, edited>>

Run(p) ==
  /\ run < MaxRuns /\ run' = run + 1
  /\ Refuse(p) \/ Succeed(p) \/ Raise(p) \/ Panic(p)
  /\ UNCHANGED <<static_check, files>>

\* Engine::reset, and the end of an engine with the beginning of another.
Reset ==
  /\ Fresh
  /\ answer' = Answer("none", Unknown, {})
  /\ UNCHANGED <<static_check, files, run>>

Edit(m, kind) ==
  /\ files[m] # kind
  /\ files' = [files EXCEPT ![m] = kind]
  /\ edited' = TRUE
  /\ UNCHANGED <<static_check, runtime, cached, output, type_history, run, answer, panicked, left>>

Init ==
  /\ static_check \in BOOLEAN
  /\ files = [m \in Modules |-> Start] /\ run = 0
  /\ runtime = Unknown /\ cached = [m \in Modules |-> Absent] /\ output = {}
  /\ type_history = <<>> /\ panicked = {} /\ left = {} /\ edited = FALSE
  /\ answer = Answer("none", Unknown, {})

Next ==
  \/ \E p \in Programs : Run(p)
  \/ Reset
  \/ \E m \in Modules, kind \in Kinds : Edit(m, kind)

Spec == Init /\ [][Next]_vars

-----------------------------------------------------------------------------
TypeOK ==
  /\ runtime \in [Names -> Kinds \cup {Absent}] /\ cached \in [Modules -> Kinds \cup {Absent}]
  /\ output \subseteq 1 .. MaxRuns /\ run \in 0 .. MaxRuns

\* As long as no module was edited, the checker knows just what the runtime
\* knows, whatever programs failed in between and wherever: except, of a
\* session that a panic has passed through, the names it has left behind
\* (spec/language/v1/execution-and-compatibility.md:11 makes no exception).
CheckerKnowsRuntime ==
  static_check /\ ~edited =>
    /\ Learned(type_history).ok
    /\ \A n \in Names \ left : Learned(type_history).names[n] = runtime[n]

\* A program that was checked never meets another name of another type, then.
CheckedProgramsSuit ==
  static_check /\ ~edited =>
    \A p \in Programs :
      Accepted(p) =>
        \A n \in DOMAIN p.needs \ left : Defines(runtime, p, Loaded(p), 0)[n] = p.needs[n]

\* A run is answered with its own output, and that of runs that a panic ended.
OwnOutput ==
  /\ output \subseteq panicked
  /\ answer.output \subseteq {run} \cup panicked

SessionsConsistent == CheckerKnowsRuntime /\ CheckedProgramsSuit /\ OwnOutput
==============================================================================

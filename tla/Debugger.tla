-------------------------------- MODULE Debugger --------------------------------
(***************************************************************************)
(* The debug adapter (src/debugger.rs): a client sends requests one after  *)
(* the other, the adapter answers them between two programs or while the   *)
(* program it runs is stopped before a statement.                          *)
(*                                                                         *)
(* A program is the course it takes: the line of each statement, how many  *)
(* frames there are, and where an error raised there is caught.            *)
(***************************************************************************)
EXTENDS Integers, Sequences, FiniteSets

CONSTANTS
  Courses,      \* records: line, depth, catch (the index of a handler, 0 for none)
  BreakLines,   \* bound: the sets of lines a client may ask to stop at
  MaxRequests   \* bound: requests of a client

VARIABLES
  course,
  program,       \* launch has named a program
  breakpoints,
  stop_on_entry,
  step_depth,    \* 0 for none
  step_into,
  disconnected,
  at,            \* "top", "running", "paused" or "gone": the client or the adapter left
  next,          \* the statement that comes
  requests,      \* requests read
  asked          \* history: what the run that goes on was asked for

vars == <<course, program, breakpoints, stop_on_entry, step_depth, step_into, disconnected,
          at, next, requests, asked>>
settings == <<breakpoints, stop_on_entry, step_depth, step_into>>

Asked(from, entry, into, depth) ==
  [from |-> from, entry |-> entry, into |-> into, depth |-> depth, lines |-> breakpoints]

-----------------------------------------------------------------------------
\* Requests between programs.  A request that is refused changes nothing.
Read == requests < MaxRequests /\ requests' = requests + 1
Top == at = "top" /\ Read

Launch(entry) ==
  /\ Top /\ program' = TRUE /\ stop_on_entry' = entry
  /\ UNCHANGED <<course, breakpoints, step_depth, step_into, disconnected, at, next, asked>>

set_breakpoints(lines) ==
  /\ at \in {"top", "paused"} /\ Read
  /\ breakpoints' = lines
  /\ UNCHANGED <<course, program, stop_on_entry, step_depth, step_into, disconnected, at, next, asked>>

\* configurationDone runs the program.
ConfigurationDone ==
  /\ Top
  /\ at' = IF program THEN "running" ELSE "top"
  /\ next' = IF program THEN 1 ELSE next
  /\ asked' = IF program THEN Asked(1, stop_on_entry, step_into, step_depth) ELSE asked
  /\ UNCHANGED <<course, program, settings, disconnected>>

Leave == /\ Top /\ at' = "gone"
         /\ UNCHANGED <<course, program, settings, disconnected, next, asked>>

-----------------------------------------------------------------------------
Advance(i) ==
  IF i > Len(course) THEN at' = "top" /\ next' = i ELSE at' = "running" /\ next' = i

\* An error of the hook is raised in the program like any other.
Interrupt == Advance(IF course[next].catch = 0 THEN Len(course) + 1 ELSE course[next].catch)

\* Mutant: a step over ends only where something returns.
MutShouldStep == step_into \/ (step_depth # 0 /\ course[next].depth < step_depth)
ShouldStep == step_into \/ (step_depth # 0 /\ course[next].depth <= step_depth)

\* before_statement: the hook of the interpreter, and the statement if it may run.
before_statement ==
  /\ at = "running"
  /\ UNCHANGED <<course, program, breakpoints, disconnected, requests, asked>>
  /\ IF disconnected
     THEN Interrupt /\ UNCHANGED <<stop_on_entry, step_depth, step_into>>
     ELSE \/ /\ stop_on_entry \/ ShouldStep \/ course[next].line \in breakpoints
             /\ at' = "paused" /\ stop_on_entry' = FALSE
             /\ step_into' = FALSE /\ step_depth' = 0 /\ UNCHANGED next
          \/ /\ ~stop_on_entry /\ ~ShouldStep /\ course[next].line \notin breakpoints
             /\ Advance(next + 1) /\ UNCHANGED <<stop_on_entry, step_depth, step_into>>

\* Requests while it is stopped; stackTrace, scopes, variables and evaluate
\* read the snapshot only.
Paused == at = "paused" /\ Read
Resume(into, depth) ==
  /\ Paused
  /\ step_into' = into /\ step_depth' = depth
  /\ Advance(next + 1)
  /\ asked' = Asked(next + 1, FALSE, into, depth)
  /\ UNCHANGED <<course, program, breakpoints, stop_on_entry, disconnected>>
Continue == Resume(step_into, step_depth)
StepOver == Resume(step_into, course[next].depth)
StepIn == Resume(TRUE, step_depth)
Inspect == Paused /\ UNCHANGED <<course, program, settings, disconnected, at, next, asked>>

Disconnect ==
  /\ Paused
  /\ disconnected' = TRUE
  /\ Interrupt
  /\ asked' = Asked(next', FALSE, FALSE, 0)
  /\ UNCHANGED <<course, program, settings>>

\* The client is gone without a word: the statement fails, and so does the
\* reading of the next request.
Vanish ==
  /\ at = "paused"
  /\ Interrupt
  /\ asked' = Asked(next', FALSE, FALSE, 0)
  /\ requests' = MaxRequests
  /\ UNCHANGED <<course, program, settings, disconnected>>

Init ==
  /\ course \in Courses
  /\ program = FALSE /\ breakpoints = {} /\ stop_on_entry = FALSE
  /\ step_depth = 0 /\ step_into = FALSE /\ disconnected = FALSE
  /\ at = "top" /\ next = 1 /\ requests = 0
  /\ asked = Asked(Len(course) + 1, FALSE, FALSE, 0)

Next ==
  \/ \E entry \in BOOLEAN : Launch(entry)
  \/ \E lines \in BreakLines : set_breakpoints(lines)
  \/ ConfigurationDone \/ Leave \/ before_statement
  \/ Continue \/ StepOver \/ StepIn \/ Inspect \/ Disconnect \/ Vanish

Spec == Init /\ [][Next]_vars

-----------------------------------------------------------------------------
TypeOK ==
  /\ at \in {"top", "running", "paused", "gone"} /\ next \in 1 .. Len(course) + 1
  /\ step_into \in BOOLEAN /\ step_depth \in Nat /\ requests \in 0 .. MaxRequests

\* Where a run must stop: at its breakpoints, at its first statement if it was
\* asked to stop at the entry or to step into, and at the first that is as deep
\* as the one that was stepped over, or less.
Due(i) ==
  /\ i >= asked.from
  /\ \/ course[i].line \in asked.lines
     \/ i = asked.from /\ (asked.entry \/ asked.into)
     \/ asked.depth # 0 /\ course[i].depth <= asked.depth

\* It has stopped at the first of these, and passed none of them; a program
\* whose client has disconnected has not stopped.
StopsWhereAsked ==
  /\ at = "paused" => ~disconnected /\ Due(next)
  /\ at # "gone" /\ ~disconnected => \A i \in 1 .. next - 1 : i \in DOMAIN course => ~Due(i)

\* What was asked for is done with once the program has stopped.
AskedOnce == at = "paused" => step_depth = 0 /\ ~step_into /\ ~stop_on_entry

DebuggingIsFaithful == StopsWhereAsked /\ AskedOnce
==============================================================================

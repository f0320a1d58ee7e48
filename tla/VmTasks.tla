------------------------------- MODULE VmTasks -------------------------------
(***************************************************************************)
(* The lazy tasks of src/vm.rs: VmTask, the instruction Await, and the     *)
(* natives that cancel and join tasks.                                     *)
(*                                                                         *)
(* An async method call only makes a task; the first await runs its body,  *)
(* on the stack of whoever awaits.  stack holds the bodies and the joins   *)
(* under way; below it runs the main program.  A body is any program: it   *)
(* may make, cancel, await and join tasks, its own included, and catch the *)
(* errors it gets.                                                         *)
(***************************************************************************)
EXTENDS Integers, Sequences, FiniteSets

CONSTANTS
  Tasks,      \* task identities, each made at most once
  MaxDepth,   \* how many bodies call_closure lets nest
  MaxGroup    \* bound on the length of a joined list (model checking only)

ASSUME TasksAssumption == MaxDepth \in Nat /\ MaxGroup \in Nat

VARIABLES
  state,   \* VmTaskState of each task, "absent" before it is made
  stack,   \* the bodies and joins under way, the innermost at the end
  answer,  \* what the last await gave to the join on top of the stack
  runs     \* history: how often the body of each task was entered

vars == <<state, stack, answer, runs>>

Final == {"Completed", "Failed", "Cancelled"}
States == {"absent", "Pending", "Running"} \cup Final

Groups == UNION {[1..n -> Tasks] : n \in 0..MaxGroup}
Body(t) == [kind |-> "body", task |-> t]
JoinOf(group) == [kind |-> "join", group |-> group, next |-> 1]

Top == stack[Len(stack)]
Below == SubSeq(stack, 1, Len(stack) - 1)
ProgramRuns == stack # <<>> => Top.kind = "body"
Joins == stack # <<>> /\ Top.kind = "join"
Bodies == {i \in 1..Len(stack) : stack[i].kind = "body"}

\* What the frame that awaits gets back: a join looks at it, a program does as
\* it likes.
Answer(frames, outcome) ==
  answer' = IF frames # <<>> /\ frames[Len(frames)].kind = "join" THEN outcome ELSE "none"

-----------------------------------------------------------------------------
\* make_task.
Make(t) ==
  /\ ProgramRuns
  /\ state[t] = "absent"
  /\ state' = [state EXCEPT ![t] = "Pending"]
  /\ UNCHANGED <<stack, answer, runs>>

\* Mutant: a running task can be cancelled.
MutCancel(t) ==
  /\ ProgramRuns
  /\ state[t] \in {"Pending", "Running"}
  /\ state' = [state EXCEPT ![t] = "Cancelled"]
  /\ UNCHANGED <<stack, answer, runs>>

\* NativeKind::CancelTask on a task that has not begun; it leaves any other
\* as it is.
Cancel(t) ==
  /\ ProgramRuns
  /\ state[t] = "Pending"
  /\ state' = [state EXCEPT ![t] = "Cancelled"]
  /\ UNCHANGED <<stack, answer, runs>>

\* Mutant: await_task forgets to put a failed task's state back.
MutAwaitSettled(t) ==
  /\ state[t] \in {"Running", "Completed", "Failed", "Cancelled"}
  /\ state' = [state EXCEPT ![t] = IF @ = "Completed" THEN @ ELSE "Running"]
  /\ Answer(stack, IF state[t] = "Completed" THEN "value" ELSE "error")
  /\ UNCHANGED <<stack, runs>>

\* await_task on a task that has begun or will never begin: the cached value,
\* the cached error, or an error of its own.  A task awaiting itself, or a
\* task that awaits it, gets an error.
AwaitSettled(t) ==
  /\ state[t] \in {"Running", "Completed", "Failed", "Cancelled"}
  /\ Answer(stack, IF state[t] = "Completed" THEN "value" ELSE "error")
  /\ UNCHANGED <<state, stack, runs>>

\* Mutant: the body runs however deep the calls are.
MutAwaitBegins(t) ==
  /\ state[t] = "Pending"
  /\ state' = [state EXCEPT ![t] = "Running"]
  /\ stack' = Append(stack, Body(t))
  /\ runs' = [runs EXCEPT ![t] = @ + 1]
  /\ answer' = "none"

\* await_task on a pending task: its body runs on top of the awaiter.
AwaitBegins(t) ==
  /\ state[t] = "Pending" /\ Cardinality(Bodies) < MaxDepth
  /\ state' = [state EXCEPT ![t] = "Running"]
  /\ stack' = Append(stack, Body(t))
  /\ runs' = [runs EXCEPT ![t] = @ + 1]
  /\ answer' = "none"

\* The call of the body fails before its first instruction: the depth is
\* exhausted, or an argument is not of its parameter's type.
AwaitRefused(t) ==
  /\ state[t] = "Pending"
  /\ state' = [state EXCEPT ![t] = "Failed"]
  /\ Answer(stack, "error")
  /\ UNCHANGED <<stack, runs>>

AwaitTask(t) == AwaitSettled(t) \/ AwaitBegins(t) \/ AwaitRefused(t)

\* The instruction Await.
Await(t) == ProgramRuns /\ AwaitTask(t)

BodyEnds(outcome) ==
  /\ stack # <<>> /\ Top.kind = "body"
  /\ state' = [state EXCEPT ![Top.task] = IF outcome = "value" THEN "Completed" ELSE "Failed"]
  /\ stack' = Below
  /\ Answer(Below, outcome)
  /\ UNCHANGED runs

(***************************************************************************)
(* join_tasks.                                                             *)
(***************************************************************************)
Join(group) ==
  /\ ProgramRuns
  /\ \A i \in DOMAIN group : state[group[i]] # "absent"
  /\ stack' = Append(stack, JoinOf(group))
  /\ answer' = "none"
  /\ UNCHANGED <<state, runs>>

JoinAwaits ==
  /\ Joins /\ answer = "none"
  /\ Top.next <= Len(Top.group)
  /\ AwaitTask(Top.group[Top.next])

JoinAdvances ==
  /\ Joins /\ answer = "value"
  /\ stack' = Append(Below, [Top EXCEPT !.next = @ + 1])
  /\ answer' = "none"
  /\ UNCHANGED <<state, runs>>

\* Mutant: the rest of the group is left as it is.
MutCancelRest(group, n) == UNCHANGED state

CancelRest(group, n) ==
  LET rest == {group[i] : i \in {j \in DOMAIN group : j > n}}
  IN  state' = [t \in Tasks |-> IF t \in rest /\ state[t] = "Pending"
                                THEN "Cancelled" ELSE state[t]]

\* The first error cancels what has not begun in the rest of the group, and is
\* the error of the join.
JoinFails ==
  /\ Joins /\ answer = "error"
  /\ CancelRest(Top.group, Top.next)
  /\ stack' = Below
  /\ Answer(Below, "error")
  /\ UNCHANGED runs

JoinReturns ==
  /\ Joins /\ answer = "none" /\ Top.next > Len(Top.group)
  /\ stack' = Below
  /\ Answer(Below, "value")
  /\ UNCHANGED <<state, runs>>

-----------------------------------------------------------------------------
Init ==
  /\ state = [t \in Tasks |-> "absent"]
  /\ stack = <<>>
  /\ answer = "none"
  /\ runs = [t \in Tasks |-> 0]

Next ==
  \/ \E t \in Tasks : Make(t) \/ Cancel(t) \/ Await(t)
  \/ \E outcome \in {"value", "error"} : BodyEnds(outcome)
  \/ \E group \in Groups : Join(group)
  \/ JoinAwaits \/ JoinAdvances \/ JoinFails \/ JoinReturns

Spec == Init /\ [][Next]_vars

-----------------------------------------------------------------------------
Frame ==
  [kind : {"body"}, task : Tasks]
    \cup [kind : {"join"}, group : Seq(Tasks), next : Nat \ {0}]

\* Type invariant of the tasks.  Lists of tasks that await one another nest no
\* deeper than calls may, through joins too.
TypeOK ==
  /\ state \in [Tasks -> States]
  /\ stack \in Seq(Frame) /\ Cardinality(Bodies) <= MaxDepth
  /\ answer \in {"none", "value", "error"}
  /\ runs \in [Tasks -> Nat]

\* A task is Running exactly while its body is on the stack, and is there
\* once: the state that await_task takes out before it looks is put back on
\* every path, self-awaiting included.
RunningIsOnStack ==
  \A t \in Tasks :
    LET places == {i \in Bodies : stack[i].task = t}
    IN  Cardinality(places) = IF state[t] = "Running" THEN 1 ELSE 0

\* A body runs at most once, and a cancelled task never ran.
RunsOnce ==
  \A t \in Tasks :
    /\ runs[t] <= 1
    /\ state[t] \in {"Running", "Completed"} => runs[t] = 1
    /\ state[t] = "Cancelled" => runs[t] = 0

\* Both: bodies and states of tasks agree.
BodiesAgree == RunningIsOnStack /\ RunsOnce

\* What an await has answered once, it answers for ever: a final state is
\* final, and only a pending task is ever cancelled
\* (spec/language/v1/modules-tasks-errors.md:13).
FinalStays ==
  \A t \in Tasks :
    /\ state[t] \in Final => state'[t] = state[t]
    /\ state[t] = "Running" => state'[t] # "Cancelled"

FinalIsFinal == [][FinalStays]_vars

\* When a join is over, with a value or an error, none of its tasks is still
\* waiting to begin, although bodies may have made, cancelled, awaited and
\* joined tasks of the same group meanwhile.
LeavesNonePending ==
  Joins /\ Len(stack') < Len(stack) =>
    \A i \in DOMAIN Top.group : state'[Top.group[i]] # "Pending"

GroupSettles == [][LeavesNonePending]_vars

=============================================================================

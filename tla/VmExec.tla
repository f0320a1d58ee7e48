-------------------------------- MODULE VmExec --------------------------------
(***************************************************************************)
(* How the virtual machine of src/vm.rs runs code: the activations of      *)
(* run_chunk on the Rust stack, the VM's own frames and operand stack, the *)
(* error handlers of each activation, and the ResourceMeter of             *)
(* src/budget.rs with the step windows of pump_host_events.                *)
(*                                                                         *)
(* The program is any sequence of instructions.  An instruction is reduced *)
(* to what it does to this state: push or pop an operand, begin or end a   *)
(* protected region, call a method of a class, return, fail, or call a     *)
(* native function that pumps host events, each of which calls a method.   *)
(* An error travels from one activation to the next in steps of its own.   *)
(***************************************************************************)
EXTENDS Integers, Sequences, FiniteSets

CONSTANTS
  MaxSteps,        \* ExecutionBudget.max_steps
  MaxCallDepth,    \* ExecutionBudget.max_call_depth
  Classes,
  NoClass,         \* the owner of code outside every class
  MaxOperands,     \* bounds (model checking only): operands, handlers of an
  MaxHandlers,     \* activation, executions of the VM, and calls of the pump
  MaxExecutions,   \* in all
  MaxPumps

VARIABLES
  rust,        \* the Rust stack: activations and pumps, the innermost at the end
  frames,      \* Vm.frames: the owner_class of each FrameInfo
  operands,    \* the length of Vm.stack
  steps,       \* ResourceMeter.steps
  depth,       \* ResourceMeter.call_depth
  raised,      \* an error is on its way to the innermost item of rust
  executions,  \* executions begun
  pumps,       \* pumps begun
  charged,     \* history: the steps charged in each window, the innermost at the end
  leaks        \* history: activations left without popping their frame

vars == <<rust, frames, operands, steps, depth, raised, executions, pumps, charged, leaks>>
counters == <<executions, pumps>>

-----------------------------------------------------------------------------
Activation(owner, base, called) ==
  [kind |-> "chunk", owner |-> owner, base |-> base, handlers |-> <<>>, called |-> called]
Pump(saved) == [kind |-> "pump", saved |-> saved]

Top == rust[Len(rust)]
ButLast(s) == SubSeq(s, 1, Len(s) - 1)
SetTop(item) == rust' = Append(ButLast(rust), item)
AddTo(s, n) == [s EXCEPT ![Len(s)] = @ + n]

InChunk == rust # <<>> /\ Top.kind = "chunk"
InPump == rust # <<>> /\ Top.kind = "pump"
Activations == {n \in 1..Len(rust) : rust[n].kind = "chunk"}

\* The next instruction can be charged.
Runs == InChunk /\ ~raised /\ steps < MaxSteps

Charge ==
  /\ Runs
  /\ steps' = steps + 1
  /\ charged' = AddTo(charged, 1)

-----------------------------------------------------------------------------
\* execute_in_directory and execute_application: the meter is reset and a
\* top-level chunk begins.
Execute ==
  /\ rust = <<>> /\ executions < MaxExecutions
  /\ rust' = <<Activation(NoClass, operands, FALSE)>>
  /\ frames' = Append(frames, NoClass)
  /\ steps' = 0 /\ depth' = 0
  /\ charged' = <<0>>
  /\ executions' = executions + 1
  /\ UNCHANGED <<operands, raised, pumps, leaks>>

\* An instruction that leaves a value on the operand stack.
Push ==
  /\ Charge /\ operands < MaxOperands
  /\ operands' = operands + 1
  /\ UNCHANGED <<rust, frames, depth, raised, counters, leaks>>

\* Compiled code takes only the values it has pushed since the innermost
\* protected region began.
Floor == IF Top.handlers = <<>> THEN Top.base ELSE Top.handlers[Len(Top.handlers)]

Pop ==
  /\ Charge /\ operands > Floor
  /\ operands' = operands - 1
  /\ UNCHANGED <<rust, frames, depth, raised, counters, leaks>>

TryBegin ==
  /\ Charge /\ Len(Top.handlers) < MaxHandlers
  /\ SetTop([Top EXCEPT !.handlers = Append(@, operands)])
  /\ UNCHANGED <<frames, operands, depth, raised, counters, leaks>>

TryEnd ==
  /\ Charge /\ Top.handlers # <<>>
  /\ SetTop([Top EXCEPT !.handlers = ButLast(@)])
  /\ UNCHANGED <<frames, operands, depth, raised, counters, leaks>>

\* Any instruction that fails: Throw, a type error, a refused access.
Fail ==
  /\ Charge
  /\ raised' = TRUE
  /\ UNCHANGED <<rust, frames, operands, depth, counters, leaks>>

\* call_closure and call_closure_inner up to run_chunk; beyond the call depth
\* the call fails without having begun.
Enter(items, owner) ==
  IF depth < MaxCallDepth
  THEN /\ rust' = Append(items, Activation(owner, operands, TRUE))
       /\ frames' = Append(frames, owner)
       /\ depth' = depth + 1
       /\ UNCHANGED raised
  ELSE /\ rust' = items
       /\ raised' = TRUE
       /\ UNCHANGED <<frames, depth>>

CallMethod(owner) ==
  /\ Charge
  /\ Enter(rust, owner)
  /\ UNCHANGED <<operands, counters, leaks>>

\* Mutants: the depth is not given back; it is given back by code that was
\* not called.
MutLeaveDeep(keepFrame) ==
  /\ rust' = ButLast(rust)
  /\ frames' = IF keepFrame THEN frames ELSE ButLast(frames)
  /\ UNCHANGED depth

MutLeaveTwice(keepFrame) ==
  /\ rust' = ButLast(rust)
  /\ frames' = IF keepFrame THEN frames ELSE ButLast(frames)
  /\ depth' = depth - 1

\* An activation ends: leave_call if it was a call, and the frame is popped
\* on every path but one.
Leave(keepFrame) ==
  /\ rust' = ButLast(rust)
  /\ frames' = IF keepFrame THEN frames ELSE ButLast(frames)
  /\ depth' = IF Top.called THEN depth - 1 ELSE depth

\* The value returned is pushed by the caller's Call instruction, and dropped
\* by the pump.
Return ==
  /\ Charge
  /\ Leave(FALSE)
  /\ operands' = IF Len(rust) > 1 /\ rust[Len(rust) - 1].kind = "chunk"
                 THEN Top.base + 1 ELSE Top.base
  /\ UNCHANGED <<raised, counters, leaks>>

\* The value returned is not of the method's return type, or is beyond the
\* collection budget: the activation is gone when its caller fails.
ReturnRefused ==
  /\ Charge /\ Top.called
  /\ Leave(FALSE)
  /\ operands' = Top.base
  /\ raised' = TRUE
  /\ UNCHANGED <<counters, leaks>>

\* charge_step fails and run_chunk returns with ?: nothing is unwound, the
\* handlers of this activation are not asked.
StepBudgetExceeded ==
  /\ InChunk /\ ~raised /\ steps >= MaxSteps
  /\ steps' = steps + 1
  /\ Leave(TRUE)
  /\ leaks' = leaks + 1
  /\ raised' = (Len(rust) > 1)
  /\ UNCHANGED <<operands, counters, charged>>

\* Mutant: a caught error drops all the operands of the activation.
MutCatch ==
  /\ InChunk /\ raised /\ Top.handlers # <<>>
  /\ operands' = Top.base
  /\ SetTop([Top EXCEPT !.handlers = ButLast(@)])
  /\ raised' = FALSE
  /\ UNCHANGED <<frames, steps, depth, counters, charged, leaks>>

\* A failed step with a handler: the innermost one takes over.
Catch ==
  /\ InChunk /\ raised /\ Top.handlers # <<>>
  /\ operands' = Top.handlers[Len(Top.handlers)]
  /\ SetTop([Top EXCEPT !.handlers = ButLast(@)])
  /\ raised' = FALSE
  /\ UNCHANGED <<frames, steps, depth, counters, charged, leaks>>

\* Mutant: the frame stays.
MutUnwind ==
  /\ InChunk /\ raised /\ Top.handlers = <<>>
  /\ Leave(TRUE)
  /\ operands' = Top.base
  /\ raised' = (Len(rust) > 1)
  /\ UNCHANGED <<steps, counters, charged, leaks>>

\* A failed step without a handler: the activation ends and its caller fails.
Unwind ==
  /\ InChunk /\ raised /\ Top.handlers = <<>>
  /\ Leave(FALSE)
  /\ operands' = Top.base
  /\ raised' = (Len(rust) > 1)
  /\ UNCHANGED <<steps, counters, charged, leaks>>

-----------------------------------------------------------------------------
\* A native call that pumps host events.
StartPump ==
  /\ Charge /\ pumps < MaxPumps
  /\ pumps' = pumps + 1
  /\ rust' = Append(rust, Pump(-1))
  /\ UNCHANGED <<frames, operands, depth, raised, executions, leaks>>

\* The next event is a callback: open_step_window, then call_value.
PumpEvent(owner) ==
  /\ InPump /\ ~raised /\ Top.saved = -1
  /\ steps' = 0
  /\ charged' = Append(charged, 0)
  /\ Enter(Append(ButLast(rust), Pump(steps)), owner)
  /\ UNCHANGED <<operands, counters, leaks>>

\* Mutant: what the callback used is charged to nobody, and the outer steps
\* start again from nothing.
MutCloseWindow ==
  /\ InPump /\ Top.saved # -1
  /\ steps' = 0
  /\ charged' = ButLast(charged)
  /\ IF raised THEN rust' = ButLast(rust) ELSE SetTop(Pump(-1))
  /\ UNCHANGED <<frames, operands, depth, raised, counters, leaks>>

\* The callback has ended, well or not: close_step_window; a failure ends the
\* pump too.
CloseWindow ==
  /\ InPump /\ Top.saved # -1
  /\ steps' = Top.saved
  /\ charged' = ButLast(charged)
  /\ IF raised THEN rust' = ButLast(rust) ELSE SetTop(Pump(-1))
  /\ UNCHANGED <<frames, operands, depth, raised, counters, leaks>>

PumpEnds ==
  /\ InPump /\ ~raised /\ Top.saved = -1 /\ operands < MaxOperands
  /\ rust' = ButLast(rust)
  /\ operands' = operands + 1
  /\ UNCHANGED <<frames, steps, depth, raised, counters, charged, leaks>>

-----------------------------------------------------------------------------
Init ==
  /\ rust = <<>> /\ frames = <<>> /\ operands = 0
  /\ steps = 0 /\ depth = 0 /\ raised = FALSE
  /\ executions = 0 /\ pumps = 0
  /\ charged = <<0>> /\ leaks = 0

Owners == Classes \cup {NoClass}

Next ==
  \/ Execute \/ Push \/ Pop \/ TryBegin \/ TryEnd \/ Fail \/ Return \/ ReturnRefused
  \/ \E owner \in Owners : CallMethod(owner)
  \/ StepBudgetExceeded \/ Catch \/ Unwind
  \/ StartPump \/ CloseWindow \/ PumpEnds
  \/ \E owner \in Owners : PumpEvent(owner)

Spec == Init /\ [][Next]_vars

-----------------------------------------------------------------------------
RustItem ==
  [kind : {"chunk"}, owner : Owners, base : Nat, handlers : Seq(Nat), called : BOOLEAN]
    \cup [kind : {"pump"}, saved : Nat \cup {-1}]

\* Type invariant of the machine.
TypeOK ==
  /\ rust \in Seq(RustItem)
  /\ frames \in Seq(Owners)
  /\ {operands, steps, depth, executions, pumps, leaks} \subseteq Nat
  /\ raised \in BOOLEAN
  /\ charged \in Seq(Nat)

\* call_depth is the number of calls under way, however they have ended so
\* far: by a return, an error, a spent budget, inside a callback or not.
DepthCounts ==
  depth = Cardinality({n \in Activations : rust[n].called}) /\ depth <= MaxCallDepth

\* A callback has a budget of its own and takes nothing from, and gives
\* nothing to, the execution it interrupts ("a callback's budget is isolated
\* and the outer steps are restored", the test at src/budget.rs:241).
WindowsIsolated ==
  \A n \in 1..Len(charged) : charged[n] <= MaxSteps

\* An activation never loses an operand to a callee or to a caught error: each
\* base and each handler's mark lies at or below those that are nearer.
OperandsKept ==
  /\ \A n \in Activations :
       LET marks == <<rust[n].base>> \o rust[n].handlers
           above == {rust[m].base : m \in {k \in Activations : k > n}} \cup {operands}
       IN  /\ \A i, j \in 1..Len(marks) : i < j => marks[i] <= marks[j]
           /\ \A mark \in above : marks[Len(marks)] <= mark

\* As long as no step budget has been exceeded, the VM's frames are the
\* activations that run: every other way out of an activation pops its frame.
FramesFollow ==
  leaks = 0 =>
    /\ Len(frames) = Cardinality(Activations)
    /\ \A n \in Activations :
         frames[Cardinality({m \in Activations : m <= n})] = rust[n].owner

\* Whatever way an activation ends, it gives back what it took.
UnwindingRestores == DepthCounts /\ OperandsKept /\ FramesFollow

\* check_access admits a private member only from inside its class
\* (src/vm.rs:2271): the frame it asks is that of the code that runs.
RunningFrameOnTop ==
  Runs => frames[Len(frames)] = Top.owner

=============================================================================

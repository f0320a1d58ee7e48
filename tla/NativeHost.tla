------------------------------ MODULE NativeHost ------------------------------
(***************************************************************************)
(* One VM and a native extension of ABI v2: the calls from the VM into the *)
(* extension (call_native_v2), the callbacks the extension keeps           *)
(* (native_host_callback_retain, _release), the events its threads post    *)
(* (native_host_callback_post) and the pump that runs them                 *)
(* (native_host_pump, pump_host_events), all of src/vm.rs.                 *)
(*                                                                         *)
(* calls is the stack of the owner thread: a frame "call" for each native  *)
(* call and a frame "pump" for the pump that a native call may ask for.  A *)
(* callback run by the pump is a program, which may make native calls of   *)
(* its own.                                                                *)
(*                                                                         *)
(* The extension is external.  It uses only handles it has been given; one *)
(* that is disciplined also keeps the rule of                              *)
(* reference/native-abi-v2.md:23, one release for each of its retains.     *)
(* The queue is the channel that HostEventLoop implements, reduced to      *)
(* callbacks.                                                              *)
(***************************************************************************)
EXTENDS CallbackRegistry

CONSTANTS
  Threads,       \* native threads that post
  QueueCapacity,
  NoHandle,
  MaxPosts,      \* bound on accepted posts (model checking only)
  MaxTemps       \* bound on the callables among the arguments of a call

ASSUME HostAssumption ==
  /\ NoHandle \notin Handle
  /\ QueueCapacity \in Nat \ {0}
  /\ MaxPosts \in Nat /\ MaxTemps \in Nat

VARIABLES
  lifecycle,   \* of the event queue
  queue,       \* the queued callbacks, with the callback that was meant
  posting,     \* posting[t]: the handle thread t found live and will post
  disciplined, \* the extension releases only what it has retained
  kept,        \* kept[id]: retains of callback id the extension has not released
  calls,       \* the stack of native calls and pumps, the innermost at the end
  vmSet,       \* the pointer VmHostState.vm is not null
  pumping,     \* VmHostState.pumping
  pumpError,   \* VmHostState.last_pump_error: position of the failed call, or 0
  posted,      \* number of accepted posts
  dropped      \* VmHostState has been dropped

queueVars == <<lifecycle, queue>>
cells == <<vmSet, pumping, pumpError>>
extension == <<disciplined, kept>>
vars == <<table, queueVars, posting, extension, calls, cells, posted, dropped>>

-----------------------------------------------------------------------------
(***************************************************************************)
(* The stack of the owner thread.                                          *)
(***************************************************************************)
Call(phase, temps) ==
  [kind |-> "call", phase |-> phase, temps |-> temps, run |-> FALSE,
   vm |-> FALSE, error |-> 0]
Pump == [kind |-> "pump", running |-> 0, meant |-> 0]

IsCall(f) == f.kind = "call"
Top == calls[Len(calls)]
Below == SubSeq(calls, 1, Len(calls) - 1)
SetTop(f) == calls' = Append(Below, f)

InPhase(phase) == calls # <<>> /\ IsCall(Top) /\ Top.phase = phase

\* The program runs: at top level, or as a callback of the pump.
ProgramRuns == calls # <<>> => ~IsCall(Top) /\ Top.running # 0
PumpLoops == calls # <<>> /\ ~IsCall(Top) /\ Top.running = 0

(***************************************************************************)
(* call_native_v2.                                                         *)
(***************************************************************************)
CallNative ==
  /\ ProgramRuns /\ ~dropped
  /\ calls' = Append(calls, Call("arguments", <<>>))
  /\ UNCHANGED <<table, queueVars, posting, extension, cells, posted, dropped>>

\* vm_to_host_value on a callable argument registers a temporary callback.
PassCallable ==
  /\ InPhase("arguments") /\ Len(Top.temps) < MaxTemps
  /\ Create
  /\ SetTop([Top EXCEPT !.temps = Append(@, issued'[Len(issued')])])
  /\ UNCHANGED <<queueVars, posting, extension, cells, posted, dropped>>

\* vm_to_host_value on a value ABI v2 does not take: the early return of
\* call_native_v2.  The callbacks registered so far stay.
ArgumentFails ==
  /\ InPhase("arguments")
  /\ calls' = Below
  /\ UNCHANGED <<table, queueVars, posting, extension, cells, posted, dropped>>

\* "run" on a queue that is running or closed: the other early return.
RunRefused ==
  /\ InPhase("arguments")
  /\ lifecycle # "Open"
  /\ calls' = Below
  /\ UNCHANGED <<table, queueVars, posting, extension, cells, posted, dropped>>

\* Mutant: the pump error of the calls outside is not put aside.
MutEnterNative(run) ==
  /\ InPhase("arguments")
  /\ run => lifecycle = "Open"
  /\ lifecycle' = IF run THEN "Running" ELSE lifecycle
  /\ SetTop([Top EXCEPT !.phase = "native", !.run = run, !.vm = vmSet])
  /\ vmSet' = TRUE
  /\ UNCHANGED <<table, queue, posting, extension, pumping, pumpError, posted, dropped>>

\* The extension is entered, after the state of the calls outside has been
\* put aside.
EnterNative(run) ==
  /\ InPhase("arguments")
  /\ run => lifecycle = "Open"
  /\ lifecycle' = IF run THEN "Running" ELSE lifecycle
  /\ SetTop([Top EXCEPT !.phase = "native", !.run = run,
                        !.vm = vmSet, !.error = pumpError])
  /\ vmSet' = TRUE
  /\ pumpError' = 0
  /\ UNCHANGED <<table, queue, posting, extension, pumping, posted, dropped>>

\* Mutant: the run guard is not dropped.
MutLeaveKeepsRun ==
  /\ InPhase("native")
  /\ vmSet' = Top.vm
  /\ pumpError' = Top.error
  /\ SetTop([Top EXCEPT !.phase = "release", !.run = FALSE])
  /\ UNCHANGED <<table, queueVars, posting, extension, pumping, posted, dropped>>

\* The extension returns: the state outside is restored, the run guard
\* dropped, and an error of the pump becomes the result of this call.
LeaveNative ==
  /\ InPhase("native")
  /\ vmSet' = Top.vm
  /\ pumpError' = Top.error
  /\ lifecycle' = IF Top.run /\ lifecycle = "Running" THEN "Open" ELSE lifecycle
  /\ SetTop([Top EXCEPT !.phase = "release", !.run = FALSE])
  /\ UNCHANGED <<table, queue, posting, extension, pumping, posted, dropped>>

\* Mutant: a released temporary stays in the list.
MutReleaseTemp ==
  /\ InPhase("release") /\ Top.temps # <<>>
  /\ Release(Head(Top.temps))
  /\ UNCHANGED <<queueVars, posting, extension, cells, posted, dropped, calls>>

\* The temporary callbacks are released one after the other, up to the first
\* one that fails.
ReleaseTemp ==
  /\ InPhase("release") /\ Top.temps # <<>>
  /\ LET h == Head(Top.temps)
     IN  \/ /\ Release(h)
            /\ SetTop([Top EXCEPT !.temps = Tail(@)])
         \/ /\ ~Resolves(h)
            /\ SetTop([Top EXCEPT !.temps = <<>>])
            /\ UNCHANGED table
  /\ UNCHANGED <<queueVars, posting, extension, cells, posted, dropped>>

CallReturns ==
  /\ InPhase("release") /\ Top.temps = <<>>
  /\ calls' = Below
  /\ UNCHANGED <<table, queueVars, posting, extension, cells, posted, dropped>>

(***************************************************************************)
(* The extension, on the owner thread.                                     *)
(***************************************************************************)
ExtensionRetains(h) ==
  /\ InPhase("native")
  /\ Retain(h)
  /\ kept' = [kept EXCEPT ![EntryOf(h).callback] = @ + 1]
  /\ UNCHANGED <<queueVars, posting, disciplined, calls, cells, posted, dropped>>

ExtensionReleases(h) ==
  /\ InPhase("native")
  /\ Release(h)
  /\ LET id == EntryOf(h).callback
     IN  /\ disciplined => kept[id] > 0
         /\ kept' = [kept EXCEPT ![id] = IF @ > 0 THEN @ - 1 ELSE 0]
  /\ UNCHANGED <<queueVars, posting, disciplined, calls, cells, posted, dropped>>

\* native_host_pump.  A nested request succeeds without doing anything, and
\* is no step of the model; a null VM is refused.
AskPump ==
  /\ InPhase("native") /\ ~pumping /\ vmSet
  /\ pumping' = TRUE
  /\ calls' = Append(calls, Pump)
  /\ UNCHANGED <<table, queueVars, posting, extension, vmSet, pumpError, posted, dropped>>

(***************************************************************************)
(* pump_host_events.                                                       *)
(***************************************************************************)
\* The pump ends without an error: no event is left, or maximum_events have
\* been processed.
EndPump(error) ==
  /\ calls' = Below
  /\ pumping' = FALSE
  /\ pumpError' = IF error THEN Len(calls) - 1 ELSE pumpError

PumpEnds ==
  /\ PumpLoops
  /\ EndPump(FALSE)
  /\ UNCHANGED <<table, queueVars, posting, extension, vmSet, posted, dropped>>

\* An event whose callback is alive: the program of the callback runs.
RunCallback ==
  /\ PumpLoops /\ queue # <<>>
  /\ LET e == Head(queue)
     IN  /\ Resolves(e.handle)
         /\ SetTop([Top EXCEPT !.running = EntryOf(e.handle).callback, !.meant = e.meant])
  /\ queue' = Tail(queue)
  /\ UNCHANGED <<table, lifecycle, posting, extension, cells, posted, dropped>>

\* An event whose callback has been released since it was posted ends the
\* pump with an error.
CallbackGone ==
  /\ PumpLoops /\ queue # <<>>
  /\ ~Resolves(Head(queue).handle)
  /\ queue' = Tail(queue)
  /\ EndPump(TRUE)
  /\ UNCHANGED <<table, lifecycle, posting, extension, vmSet, posted, dropped>>

CallbackReturns ==
  /\ calls # <<>> /\ ~IsCall(Top) /\ Top.running # 0
  /\ SetTop(Pump)
  /\ UNCHANGED <<table, queueVars, posting, extension, cells, posted, dropped>>

\* The callback fails, or panics behind catch_unwind.
CallbackFails ==
  /\ calls # <<>> /\ ~IsCall(Top) /\ Top.running # 0
  /\ EndPump(TRUE)
  /\ UNCHANGED <<table, queueVars, posting, extension, vmSet, posted, dropped>>

(***************************************************************************)
(* Posting, on any thread.                                                 *)
(***************************************************************************)
\* native_host_callback_post tests is_live, copies the arguments, and
\* CallbackValidity.post tests is_live again: what counts is the last test.
CheckLive(t, h) ==
  /\ posted < MaxPosts
  /\ posting[t] = NoHandle
  /\ h \in live
  /\ posting' = [posting EXCEPT ![t] = h]
  /\ UNCHANGED <<table, queueVars, extension, calls, cells, posted, dropped>>

\* Then the event is queued under the mutex of the queue, or refused because
\* the queue is closed or full.
PostChecked(t) ==
  /\ posting[t] # NoHandle
  /\ posting' = [posting EXCEPT ![t] = NoHandle]
  /\ IF lifecycle # "Closed" /\ Len(queue) < QueueCapacity
     THEN /\ queue' = Append(queue, [handle |-> posting[t],
                                     meant  |-> CHOOSE id \in 1..Len(issued) :
                                                  issued[id] = posting[t]])
          /\ posted' = posted + 1
     ELSE UNCHANGED <<queue, posted>>
  /\ UNCHANGED <<table, lifecycle, extension, calls, cells, dropped>>

\* Mutant: the drop leaves the queue open.
MutDrop ==
  /\ calls = <<>> /\ ~dropped
  /\ dropped' = TRUE
  /\ vmSet' = FALSE
  /\ Close
  /\ UNCHANGED <<queueVars, posting, extension, calls, pumping, pumpError, posted>>

\* VmHostState is dropped: callbacks are closed, then the queue.
DropHost ==
  /\ calls = <<>> /\ ~dropped
  /\ dropped' = TRUE
  /\ vmSet' = FALSE
  /\ Close
  /\ lifecycle' = "Closed"
  /\ queue' = <<>>
  /\ UNCHANGED <<posting, extension, calls, pumping, pumpError, posted>>

-----------------------------------------------------------------------------
HostInit ==
  /\ Init
  /\ lifecycle = "Open" /\ queue = <<>>
  /\ posting = [t \in Threads |-> NoHandle]
  /\ disciplined \in BOOLEAN
  /\ kept = [id \in 1..MaxCreates |-> 0]
  /\ calls = <<>>
  /\ vmSet = FALSE /\ pumping = FALSE /\ pumpError = 0
  /\ posted = 0 /\ dropped = FALSE

HostNext ==
  \/ CallNative \/ PassCallable \/ ArgumentFails \/ RunRefused
  \/ \E run \in BOOLEAN : EnterNative(run)
  \/ LeaveNative \/ ReleaseTemp \/ CallReturns
  \/ \E h \in Issued : ExtensionRetains(h) \/ ExtensionReleases(h)
  \/ AskPump \/ PumpEnds \/ RunCallback \/ CallbackGone
  \/ CallbackReturns \/ CallbackFails
  \/ \E t \in Threads : PostChecked(t) \/ \E h \in Issued : CheckLive(t, h)
  \/ DropHost

HostSpec == HostInit /\ [][HostNext]_vars

-----------------------------------------------------------------------------
CallFrame ==
  [kind : {"call"}, phase : {"arguments", "native", "release"}, temps : Seq(Handle),
   run : BOOLEAN, vm : BOOLEAN, error : Nat]
PumpFrame == [kind : {"pump"}, running : Nat, meant : Nat]

\* Type invariant of the host's own variables.
HostTypeOK ==
  /\ TypeOK
  /\ lifecycle \in {"Open", "Running", "Closed"}
  /\ queue \in Seq([handle : Handle, meant : Nat])
  /\ posting \in [Threads -> Handle \cup {NoHandle}]
  /\ disciplined \in BOOLEAN
  /\ kept \in [1..MaxCreates -> Nat]
  /\ calls \in Seq(CallFrame \cup PumpFrame)
  /\ vmSet \in BOOLEAN /\ pumping \in BOOLEAN /\ dropped \in BOOLEAN
  /\ pumpError \in Nat /\ posted \in Nat

CallFrames == {n \in 1..Len(calls) : IsCall(calls[n])}

\* The places <<n, i>> of a handle among the temporaries: the i-th of call n.
Places(h) ==
  {p \in CallFrames \X (1..MaxTemps) :
     p[2] <= Len(calls[p[1]].temps) /\ calls[p[1]].temps[p[2]] = h}
Temps(id) == Places(issued[id])

\* Nobody's callback is taken away: until the VM is dropped, a callback has at
\* least as many references as native calls and a disciplined extension hold
\* together, whichever of them released before.
HeldIsReferenced ==
  disciplined /\ ~dropped =>
    \A id \in 1..Len(issued) :
      LET held == Cardinality(Temps(id)) + kept[id]
      IN  held > 0 => Resolves(issued[id]) /\ EntryOf(issued[id]).refs >= held

\* A callback that neither a native call nor the extension holds is gone: the
\* reference the VM took for a call ends with that call
\* (reference/native-abi-v2.md:22).
NothingLeaks ==
  \A id \in 1..Len(issued) :
    disciplined /\ Resolves(issued[id]) => Cardinality(Temps(id)) + kept[id] > 0

\* The VM pointer is set exactly while an extension is running, through all
\* the nesting of calls, pumps and callbacks.
VmSetDuringCalls ==
  vmSet <=> \E n \in CallFrames : calls[n].phase = "native"

\* The pump is never entered again from inside, and the flag tells so.
OnePump ==
  LET pumps == {n \in 1..Len(calls) : ~IsCall(calls[n])}
  IN  Cardinality(pumps) <= 1 /\ (pumping <=> pumps # {})

\* At most one call holds the run of the event loop, and an open queue is
\* Running exactly while one does, although a nested call may return first.
OneRun ==
  LET runs == {n \in CallFrames : calls[n].run}
  IN  /\ Cardinality(runs) <= 1
      /\ lifecycle # "Closed" => (lifecycle = "Running" <=> runs # {})

\* A pump error waits for the native call that asked for that pump: a call
\* made by a callback neither reports it nor loses it.
ErrorIsHome ==
  /\ pumpError # 0 => pumpError \in CallFrames /\ calls[pumpError].phase = "native"
  /\ \A n \in CallFrames : calls[n].phase = "native" /\ n < Len(calls) => pumpError \in {0, n}
  /\ InPhase("native") => pumpError \in {0, Len(calls)}

\* The pump runs the callback the posting thread meant, although the slot may
\* have been released and reused between the test, the post and the pump.
RunsWhatWasMeant ==
  Len(issued) <= MaxGeneration =>
    \A n \in 1..Len(calls) : ~IsCall(calls[n]) => calls[n].running = calls[n].meant

\* What the calls put aside and restore fits their nesting, whatever they ran
\* and however they ended; the error of a pump waits for the call that asked for it.
NestingRestored == VmSetDuringCalls /\ OnePump /\ OneRun /\ ErrorIsHome

\* A dropped host is silent: a thread that passed its test before the drop
\* cannot queue anything after it.
SilentAfterDrop == dropped => queue = <<>> /\ live = {} /\ ~vmSet

\* Both: no event of the queue reaches a callback it was not meant for.
PumpIsSafe == RunsWhatWasMeant /\ SilentAfterDrop

=============================================================================

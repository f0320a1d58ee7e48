---------------------------- MODULE HostEventLoop ----------------------------
(***************************************************************************)
(* The bounded queue between native threads and the VM: the type           *)
(* BoundedHostEventLoop of src/host_events.rs with the worker threads of   *)
(* HostTimer.                                                              *)
(*                                                                         *)
(* Any thread posts; only the thread that created the queue (the owner)    *)
(* takes.  Every operation of the queue runs under one mutex and is one    *)
(* action, except wait_next, which gives the mutex up while it waits.      *)
(* A timer is a worker thread that sleeps, posts and sleeps again until it *)
(* is cancelled, the queue refuses an event, or it was a one-shot timer.   *)
(*                                                                         *)
(* Events are abstracted to a kind and a number.  The kinds in Continuous  *)
(* (pointer moves and resizes of one resource, and the wake-up) are the    *)
(* ones with a coalescing key; a timer's kind is the timer; Plain stands   *)
(* for callbacks, custom events and the quit event.  The number is the     *)
(* rank of the post among the accepted ones: the payload a consumer sees.  *)
(***************************************************************************)
EXTENDS Integers, Sequences, FiniteSets

CONSTANTS
  Capacity,    \* size limit of the queue
  Continuous,  \* coalescing keys
  Timers,      \* timer identities, each used by at most one HostTimer
  Periodic,    \* the timers made by HostTimer::periodic
  Plain,       \* the kind of every other event
  MaxPosts,    \* bound: no post by a thread, no timer elapsing beyond so many
               \* accepted posts (model checking only)
  NoValue      \* nothing queued for a key of the channel

ASSUME CapacityAssumption == Capacity \in Nat \ {0}
ASSUME KindsAssumption ==
  /\ Periodic \subseteq Timers
  /\ Plain \notin Continuous \cup Timers
  /\ Continuous \cap Timers = {}
ASSUME BoundAssumption == MaxPosts \in Nat
ASSUME NoValueAssumption == NoValue \notin Nat

VARIABLES
  lifecycle,   \* QueueLifecycle
  events,      \* the VecDeque
  guard,       \* a HostEventRunGuard is alive
  owner,       \* the owner thread: outside the queue, or inside wait_next
  timed,       \* the wait_next in progress has a timeout
  notified,    \* the condition variable has been signalled during the wait
  worker,      \* the worker thread of each timer
  canceller,   \* HostTimer::cancel: not called, joining the worker, returned
  posts        \* number of accepted posts so far

vars == <<lifecycle, events, guard, owner, timed, notified, worker, canceller,
          posts>>
queueVars == <<lifecycle, guard>>
waitVars  == <<owner, timed>>
timerVars == <<worker, canceller>>

Kinds == Continuous \cup Timers \cup {Plain}
Event == [kind : Kinds, seq : Nat]

-----------------------------------------------------------------------------
(***************************************************************************)
(* The queue.                                                              *)
(***************************************************************************)
Queued(k) == \E i \in 1..Len(events) : events[i].kind = k

\* Mutant: the queue is not searched for the key.
MutCoalesces(k) == FALSE

\* HostEvent::same_coalescing_key against the events in the queue.
Coalesces(k) == k \in Continuous /\ Queued(k)

\* Mutant: a full queue is noticed one event too late.
MutAccepts(k) ==
  lifecycle # "Closed" /\ (Coalesces(k) \/ Len(events) <= Capacity)

\* The two refusals of post: a closed queue, and a full one.
Accepts(k) ==
  /\ lifecycle # "Closed"
  /\ Coalesces(k) \/ Len(events) < Capacity

\* Mutants: the update keeps the old payload, or moves the event to the back.
MutPlaceKeepsOld(e) == IF Coalesces(e.kind) THEN events ELSE Append(events, e)
MutPlaceMoves(e) == Append(SelectSeq(events, LAMBDA f : ~Coalesces(e.kind) \/ f.kind # e.kind), e)

\* An event that coalesces overwrites the queued one where it stands.
Place(e) ==
  IF Coalesces(e.kind)
  THEN LET i == CHOOSE i \in 1..Len(events) : events[i].kind = e.kind
       IN  [events EXCEPT ![i] = e]
  ELSE Append(events, e)

\* notify_one and notify_all: only the owner ever waits.
Notify == notified' = (owner = "waiting")

\* The part of post that follows its refusals.
Enqueue(k) ==
  /\ Accepts(k)
  /\ events' = Place([kind |-> k, seq |-> posts + 1])
  /\ posts' = posts + 1
  /\ Notify

\* A native thread posts.  A refused post changes nothing.
Post(k) ==
  /\ posts < MaxPosts
  /\ k \in Continuous \cup {Plain}
  /\ Enqueue(k)
  /\ UNCHANGED <<queueVars, waitVars, timerVars>>

\* Mutants: quit keeps the events; quit signals nobody.
MutQuitKeepsEvents ==
  /\ lifecycle' = "Closed"
  /\ Notify
  /\ UNCHANGED <<guard, waitVars, timerVars, posts, events>>

MutQuitSilent ==
  /\ lifecycle' = "Closed"
  /\ events' = <<>>
  /\ UNCHANGED <<guard, waitVars, timerVars, posts, notified>>

Quit ==
  /\ lifecycle' = "Closed"
  /\ events' = <<>>
  /\ Notify
  /\ UNCHANGED <<guard, waitVars, timerVars, posts>>

(***************************************************************************)
(* The owner thread.                                                       *)
(***************************************************************************)
\* begin_run fails while another run is on and after quit.
BeginRun ==
  /\ owner = "idle"
  /\ lifecycle = "Open"
  /\ lifecycle' = "Running"
  /\ guard' = TRUE
  /\ UNCHANGED <<events, waitVars, notified, timerVars, posts>>

\* The guard is dropped; finish_run reopens the queue unless quit closed it.
FinishRun ==
  /\ owner = "idle"
  /\ guard
  /\ guard' = FALSE
  /\ lifecycle' = IF lifecycle = "Running" THEN "Open" ELSE lifecycle
  /\ UNCHANGED <<events, waitVars, notified, timerVars, posts>>

TakeFirst ==
  /\ lifecycle # "Closed"
  /\ events # <<>>
  /\ events' = Tail(events)

\* try_next, and a wait_next that finds an event at once.
TryNext ==
  /\ owner = "idle"
  /\ TakeFirst
  /\ UNCHANGED <<queueVars, waitVars, notified, timerVars, posts>>

\* wait_next on an empty open queue: the owner gives the mutex up.
WaitBegin ==
  /\ owner = "idle"
  /\ events = <<>>
  /\ lifecycle # "Closed"
  /\ owner' = "waiting"
  /\ timed' \in BOOLEAN
  /\ notified' = FALSE
  /\ UNCHANGED <<queueVars, events, timerVars, posts>>

\* The waiting owner wakes up with the mutex, on a signal or spuriously, and
\* tests the loop condition of wait_next.
WaitResume ==
  /\ owner = "waiting"
  /\ notified' = FALSE
  /\ \/ /\ TakeFirst
        /\ owner' = "idle"
     \/ /\ lifecycle = "Closed"
        /\ owner' = "idle"
        /\ UNCHANGED events
     \/ /\ lifecycle # "Closed" /\ events = <<>>
        /\ UNCHANGED <<owner, events>>
  /\ timed' = (timed /\ owner' = "waiting")
  /\ UNCHANGED <<queueVars, timerVars, posts>>

\* wait_timeout reports that the time is over: wait_next answers "no event"
\* without testing the queue again.
WaitTimeout ==
  /\ owner = "waiting"
  /\ timed
  /\ owner' = "idle"
  /\ timed' = FALSE
  /\ notified' = FALSE
  /\ UNCHANGED <<queueVars, events, timerVars, posts>>

(***************************************************************************)
(* Timers.                                                                 *)
(***************************************************************************)
\* HostTimer::spawn tests is_closed and starts the worker.  A timer started
\* just before quit stops at its first post.
TimerStart(t) ==
  /\ worker[t] = "absent"
  /\ lifecycle # "Closed"
  /\ worker' = [worker EXCEPT ![t] = "sleeping"]
  /\ UNCHANGED <<queueVars, events, waitVars, notified, canceller, posts>>

\* recv_timeout runs into its timeout; a cancellation sent later is seen only
\* by the next recv_timeout.
TimerElapses(t) ==
  /\ posts < MaxPosts
  /\ worker[t] = "sleeping"
  /\ canceller[t] = "none"
  /\ worker' = [worker EXCEPT ![t] = "posting"]
  /\ UNCHANGED <<queueVars, events, waitVars, notified, canceller, posts>>

TimerPosts(t) ==
  /\ worker[t] = "posting"
  /\ Enqueue(t)
  /\ worker' = [worker EXCEPT ![t] = IF t \in Periodic THEN "sleeping"
                                                       ELSE "stopped"]
  /\ UNCHANGED <<queueVars, waitVars, canceller>>

\* Mutant: the worker waits for room instead of ending.
MutTimerRefused(t) ==
  /\ worker[t] = "posting" /\ ~Accepts(t)
  /\ UNCHANGED vars

\* The queue refuses the event: even a periodic timer ends here.
TimerRefused(t) ==
  /\ worker[t] = "posting"
  /\ ~Accepts(t)
  /\ worker' = [worker EXCEPT ![t] = "stopped"]
  /\ UNCHANGED <<queueVars, events, waitVars, notified, canceller, posts>>

\* recv_timeout receives the cancellation.
TimerCancelled(t) ==
  /\ worker[t] = "sleeping"
  /\ canceller[t] = "joining"
  /\ worker' = [worker EXCEPT ![t] = "stopped"]
  /\ UNCHANGED <<queueVars, events, waitVars, notified, canceller, posts>>

\* HostTimer::cancel (and drop): send the cancellation, then join the worker.
Cancel(t) ==
  /\ worker[t] # "absent"
  /\ canceller[t] = "none"
  /\ canceller' = [canceller EXCEPT ![t] = "joining"]
  /\ UNCHANGED <<queueVars, events, waitVars, notified, worker, posts>>

\* Mutant: cancel does not join the worker.
MutCancelReturns(t) ==
  /\ canceller[t] = "joining"
  /\ canceller' = [canceller EXCEPT ![t] = "returned"]
  /\ UNCHANGED <<queueVars, events, waitVars, notified, worker, posts>>

CancelReturns(t) ==
  /\ canceller[t] = "joining"
  /\ worker[t] = "stopped"
  /\ canceller' = [canceller EXCEPT ![t] = "returned"]
  /\ UNCHANGED <<queueVars, events, waitVars, notified, worker, posts>>

-----------------------------------------------------------------------------
Init ==
  /\ lifecycle = "Open"
  /\ events = <<>>
  /\ guard = FALSE
  /\ owner = "idle"
  /\ timed = FALSE
  /\ notified = FALSE
  /\ worker = [t \in Timers |-> "absent"]
  /\ canceller = [t \in Timers |-> "none"]
  /\ posts = 0

TimerStep(t) == TimerPosts(t) \/ TimerRefused(t) \/ TimerCancelled(t)

Next ==
  \/ \E k \in Kinds : Post(k)
  \/ Quit
  \/ BeginRun
  \/ FinishRun
  \/ TryNext
  \/ WaitBegin
  \/ WaitResume
  \/ WaitTimeout
  \/ \E t \in Timers :
       TimerStart(t) \/ TimerElapses(t) \/ TimerStep(t) \/ Cancel(t)
         \/ CancelReturns(t)

Spec == Init /\ [][Next]_vars

(***************************************************************************)
(* Threads run: a signalled owner reacquires the mutex, a worker thread    *)
(* that has something to do does it, and join returns once the worker has  *)
(* ended.  Nobody is obliged to post, to quit, to cancel or to sleep for   *)
(* a bounded time.                                                         *)
(***************************************************************************)
Fairness ==
  /\ WF_vars(notified /\ WaitResume)
  /\ \A t \in Timers : WF_vars(TimerStep(t)) /\ WF_vars(CancelReturns(t))

FairSpec == Spec /\ Fairness

-----------------------------------------------------------------------------
(***************************************************************************)
(* Properties.                                                             *)
(***************************************************************************)
\* However fast threads post, the queue never holds more than its capacity.
WithinCapacity == Len(events) <= Capacity

\* Type invariant of all the variables, the bound of the queue included.
TypeOK ==
  /\ lifecycle \in {"Open", "Running", "Closed"}
  /\ events \in Seq(Event) /\ WithinCapacity
  /\ guard \in BOOLEAN
  /\ owner \in {"idle", "waiting"}
  /\ timed \in BOOLEAN
  /\ notified \in BOOLEAN
  /\ worker \in [Timers -> {"absent", "sleeping", "posting", "stopped"}]
  /\ canceller \in [Timers -> {"none", "joining", "returned"}]
  /\ posts \in Nat

\* A coalescing key is in the queue at most once: the update in place finds
\* the only event there is.
OnePerKey ==
  \A i, j \in 1..Len(events) :
    events[i].kind = events[j].kind /\ events[i].kind \in Continuous => i = j

\* Ordinary events stand in the queue in the order they were accepted,
\* whatever has been coalesced between them.
OrdinaryInOrder ==
  \A i, j \in 1..Len(events) :
    i < j /\ events[i].kind \notin Continuous /\ events[j].kind \notin Continuous
      => events[i].seq < events[j].seq

\* What every post preserves, coalescing or not (src/host_events.rs:1-5): the
\* queue holds each key once and delivers ordinary events in order.
WellFormed == OnePerKey /\ OrdinaryInOrder

\* A closed queue is empty, and the lifecycle is Running exactly while an
\* unclosed run guard is alive: begin_run, quit and the guard's drop agree.
LifecycleAgrees ==
  /\ lifecycle = "Closed" => events = <<>>
  /\ lifecycle = "Running" => guard
  /\ lifecycle = "Open" => ~guard

\* The queue, its order and its lifecycle together.
QueueIsSound == WellFormed /\ LifecycleAgrees

\* The owner can sleep on a queue that has something for it only if a signal
\* is on its way.
SleeperIsSignalled ==
  owner = "waiting" /\ (events # <<>> \/ lifecycle = "Closed") => notified

\* Quit is final: neither a late post, nor the end of a run, nor a timer
\* reopens or refills the queue.
StaysClosed == lifecycle = "Closed" => lifecycle' = "Closed" /\ events' = <<>>
ClosedIsFinal == [][StaysClosed]_vars

\* "Updated in its original place" (src/host_events.rs:4): while it is queued,
\* a continuous event only ever moves towards the front, so a thread that
\* keeps posting it cannot keep it from being delivered.
StaysInPlace ==
  \A i \in 1..Len(events) :
    events[i].kind \in Continuous /\ lifecycle' # "Closed" =>
      \/ i = 1 /\ events' = Tail(events)
      \/ \E j \in {i - 1, i} \cap (1..Len(events')) :
           events'[j].kind = events[i].kind
KeepsItsPlace == [][StaysInPlace]_vars

\* Once HostTimer::cancel has returned, the timer never posts again, although
\* its worker may have been anywhere when the cancellation was sent.
Pending(t) == {i \in 1..Len(events) : events[i].kind = t}
PostsNoMore ==
  \A t \in Timers :
    canceller[t] = "returned" => Cardinality(Pending(t)') <= Cardinality(Pending(t))
SilentAfterCancel == [][PostsNoMore]_vars

\* An owner that waits is woken by an event and by quit: no signal is lost.
WaiterIsServed ==
  owner = "waiting" /\ (events # <<>> \/ lifecycle = "Closed")
    ~> owner = "idle"

\* cancel returns: joining the worker never blocks for ever.
CancelTerminates ==
  \A t \in Timers : canceller[t] = "joining" ~> canceller[t] = "returned"

\* Whoever waits for the queue or for a worker is released.
WaitsEnd == WaiterIsServed /\ CancelTerminates
-----------------------------------------------------------------------------
\* A queue seen as a channel: the ranks of its ordinary events, and the payload
\* it holds for each key.
Underway(q) ==
  {q[i].seq : i \in {j \in 1..Len(q) : q[j].kind \notin Continuous}}

KeyPayload(q) ==
  [k \in Continuous |->
     IF \E i \in 1..Len(q) : q[i].kind = k
     THEN q[CHOOSE i \in 1..Len(q) : q[i].kind = k].seq
     ELSE NoValue]

Channel == INSTANCE ConflatingChannel WITH
  Size     <- Capacity,
  Keys     <- Continuous,
  open     <- lifecycle # "Closed",
  underway <- Underway(events),
  newest   <- KeyPayload(events),
  sent     <- posts

\* The queue of src/host_events.rs implements the conflating channel: ordinary
\* events arrive once and in order, continuous ones with their newest payload.
ImplementsChannel == Channel!Spec

=============================================================================

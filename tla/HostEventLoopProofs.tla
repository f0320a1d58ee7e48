------------------------- MODULE HostEventLoopProofs -------------------------
(***************************************************************************)
(* Proofs about HostEventLoop for every capacity, every set of keys and    *)
(* timers, and any number of posts.                                        *)
(*                                                                         *)
(* The inductive invariant adds to the checked invariants that no queued   *)
(* event has a rank beyond posts: that is why an appended event is newer   *)
(* than all those before it.  From it follow the action properties and     *)
(* the refinement of ConflatingChannel.                                    *)
(***************************************************************************)
EXTENDS HostEventLoop, TLAPS, SequenceTheorems, FiniteSetTheorems

\* Every queued event has been posted.
Posted == \A i \in 1..Len(events) : events[i].seq <= posts

\* cancel has joined the worker by the time it returns.
Joined == \A t \in Timers : canceller[t] = "returned" => worker[t] = "stopped"

IInv ==
  /\ TypeOK
  /\ WellFormed
  /\ Posted
  /\ LifecycleAgrees
  /\ SleeperIsSignalled
  /\ Joined

-----------------------------------------------------------------------------
(***************************************************************************)
(* The three ways in which the queue changes.                              *)
(***************************************************************************)
\* An event that coalesces replaces one of its kind and moves nothing.
LEMMA PlaceInPlace ==
  ASSUME TypeOK, NEW e \in Event, Coalesces(e.kind)
  PROVE  /\ Place(e) \in Seq(Event)
         /\ Len(Place(e)) = Len(events)
         /\ \E i \in 1..Len(events) :
              /\ events[i].kind = e.kind
              /\ \A j \in 1..Len(events) :
                   Place(e)[j] = IF j = i THEN e ELSE events[j]
<1> DEFINE i == CHOOSE i \in 1..Len(events) : events[i].kind = e.kind
<1>1. /\ i \in 1..Len(events)
      /\ events[i].kind = e.kind
  BY DEF Coalesces, Queued
<1>2. Place(e) = [events EXCEPT ![i] = e]
  BY DEF Place
<1>3. events \in Seq(Event)
  BY DEF TypeOK
<1> HIDE DEF i
<1>4. /\ [events EXCEPT ![i] = e] \in Seq(Event)
      /\ Len([events EXCEPT ![i] = e]) = Len(events)
      /\ \A j \in 1..Len(events) :
           [events EXCEPT ![i] = e][j] = IF j = i THEN e ELSE events[j]
  BY <1>1, <1>3, ExceptSeq
<1> QED
  BY <1>1, <1>2, <1>4

\* Any other event is appended.
LEMMA PlaceAtEnd ==
  ASSUME TypeOK, NEW e \in Event, ~Coalesces(e.kind)
  PROVE  /\ Place(e) \in Seq(Event)
         /\ Len(Place(e)) = Len(events) + 1
         /\ \A j \in 1..Len(events) : Place(e)[j] = events[j]
         /\ Place(e)[Len(events) + 1] = e
<1>1. Place(e) = Append(events, e)
  BY DEF Place
<1>2. events \in Seq(Event)
  BY DEF TypeOK
<1> QED
  BY <1>1, <1>2, AppendProperties

\* Whatever is accepted, the queue stays well formed.
LEMMA EnqueueKeeps ==
  ASSUME IInv, NEW k \in Kinds, Enqueue(k)
  PROVE  /\ events' \in Seq(Event)
         /\ events' # <<>>
         /\ posts' \in Nat
         /\ WithinCapacity' /\ WellFormed'
         /\ Posted'
<1> DEFINE e == [kind |-> k, seq |-> posts + 1]
<1> USE DEF IInv
<1>1. /\ posts \in Nat
      /\ events \in Seq(Event)
      /\ Len(events) \in Nat
      /\ Capacity \in Nat
  BY LenProperties, CapacityAssumption DEF TypeOK
<1>2. e \in Event /\ e.kind = k /\ e.seq = posts + 1
  BY <1>1 DEF Event
<1>3. events' = Place(e) /\ posts' = posts + 1 /\ Accepts(k)
  BY DEF Enqueue
<1> HIDE DEF e
<1>4. \A j \in 1..Len(events) : events[j] \in Event /\ events[j].seq \in Nat
  <2>1. \A j \in 1..Len(events) : events[j] \in Event
    BY <1>1, ElementOfSeq
  <2> QED
    BY <2>1 DEF Event
<1>5. CASE Coalesces(k)
  <2>1. PICK i \in 1..Len(events) :
          /\ events[i].kind = k
          /\ \A j \in 1..Len(events) :
               Place(e)[j] = IF j = i THEN e ELSE events[j]
    BY <1>2, <1>5, PlaceInPlace
  <2>2. Place(e) \in Seq(Event) /\ Len(events') = Len(events)
    BY <1>2, <1>3, <1>5, PlaceInPlace
  <2>3. \A j \in 1..Len(events) :
          /\ events'[j].kind = events[j].kind
          /\ events[j].kind \notin Continuous => events'[j] = events[j]
    BY <1>2, <1>3, <1>5, <2>1 DEF Coalesces
  <2>4. WithinCapacity' /\ OnePerKey' /\ OrdinaryInOrder'
    BY <2>2, <2>3 DEF TypeOK, WellFormed, WithinCapacity, OnePerKey, OrdinaryInOrder
  <2>5. Posted'
    BY <1>1, <1>2, <1>3, <1>4, <2>1, <2>2 DEF Posted
  <2>6. events' # <<>>
    BY <1>3, <2>1, <2>2, EmptySeq
  <2> QED
    BY <1>1, <1>3, <2>2, <2>4, <2>5, <2>6 DEF WellFormed
<1>6. CASE ~Coalesces(k)
  <2> DEFINE n == Len(events)
  <2>1. /\ events' \in Seq(Event)
        /\ Len(events') = n + 1
        /\ \A j \in 1..n : events'[j] = events[j]
        /\ events'[n + 1] = e
    BY <1>2, <1>3, <1>6, PlaceAtEnd
  <2>2. \A j \in 1..Len(events') : j \in 1..n \/ j = n + 1
    BY <1>1, <2>1
  <2>3. WithinCapacity'
    BY <1>1, <1>3, <1>6, <2>1 DEF WithinCapacity, Accepts
  <2>4. k \in Continuous => \A j \in 1..n : events[j].kind # k
    BY <1>6 DEF Coalesces, Queued
  <2>5. OnePerKey'
    BY <1>2, <2>1, <2>2, <2>4 DEF WellFormed, OnePerKey
  <2>6. \A j \in 1..n : events[j].seq < posts + 1
    BY <1>1, <1>4 DEF Posted
  <2>7. OrdinaryInOrder'
    BY <1>1, <1>2, <2>1, <2>2, <2>6 DEF WellFormed, OrdinaryInOrder
  <2>8. Posted'
    BY <1>1, <1>2, <1>3, <2>1, <2>2, <2>6, <1>4 DEF Posted
  <2>9. events' # <<>>
    BY <1>1, <2>1, EmptySeq
  <2> QED
    BY <1>1, <1>3, <2>1, <2>3, <2>5, <2>7, <2>8, <2>9 DEF WellFormed
<1> QED
  BY <1>5, <1>6

\* Taking the first event leaves a well-formed queue.
LEMMA TakeFirstKeeps ==
  ASSUME IInv, TakeFirst, posts' = posts
  PROVE  /\ events' \in Seq(Event)
         /\ WithinCapacity' /\ WellFormed'
         /\ Posted'
<1> USE DEF IInv
<1>1. events \in Seq(Event) /\ events # <<>> /\ events' = Tail(events)
  BY DEF TypeOK, TakeFirst
<1>2. /\ events' \in Seq(Event)
      /\ Len(events') = Len(events) - 1
      /\ \A i \in 1..Len(events') : events'[i] = events[i + 1]
  BY <1>1, HeadTailProperties
<1>3. Len(events) \in Nat /\ Capacity \in Nat
  BY <1>1, LenProperties, CapacityAssumption
<1>4. \A i \in 1..Len(events') : i + 1 \in 1..Len(events)
  BY <1>2, <1>3
<1>5. WithinCapacity'
  BY <1>2, <1>3 DEF TypeOK, WithinCapacity
<1>6. OnePerKey'
  BY <1>2, <1>4 DEF WellFormed, OnePerKey
<1>7. OrdinaryInOrder'
  BY <1>2, <1>4 DEF WellFormed, OrdinaryInOrder
<1>8. Posted'
  BY <1>2, <1>4 DEF Posted
<1> QED
  BY <1>2, <1>5, <1>6, <1>7, <1>8 DEF WellFormed

-----------------------------------------------------------------------------
(***************************************************************************)
(* The invariant.                                                          *)
(***************************************************************************)
\* Every step preserves the invariant: the three ways to change the queue by the
\* lemmas above, the others by the variables they change.
LEMMA StepKeepsInvariant == IInv /\ [Next]_vars => IInv'
<1> SUFFICES ASSUME IInv, [Next]_vars PROVE IInv'
  OBVIOUS
<1> USE DEF IInv, TypeOK, queueVars, waitVars, timerVars, Notify
<1>1. ASSUME NEW k \in Kinds, Post(k) PROVE IInv'
  <2>1. /\ events' \in Seq(Event) /\ events' # <<>> /\ posts' \in Nat
        /\ WithinCapacity' /\ WellFormed' /\ Posted'
    BY <1>1, EnqueueKeeps DEF Post
  <2>2. lifecycle # "Closed" /\ notified' = (owner = "waiting")
    BY <1>1 DEF Post, Enqueue, Accepts
  <2> QED
    BY <1>1, <2>1, <2>2 DEF Post, LifecycleAgrees, SleeperIsSignalled, Joined
<1>2. CASE Quit
  <2>1. events' \in Seq(Event) /\ WithinCapacity' /\ WellFormed' /\ Posted'
    <3>1. events' = <<>> /\ Len(events') = 0 /\ 1..Len(events') = {}
      BY <1>2, EmptySeq DEF Quit
    <3> QED
      BY <3>1, EmptySeq, CapacityAssumption
      DEF WellFormed, WithinCapacity, OnePerKey, OrdinaryInOrder, Posted
  <2> QED
    BY <1>2, <2>1 DEF Quit, LifecycleAgrees, SleeperIsSignalled, Joined
<1>3. CASE BeginRun
  BY <1>3 DEF BeginRun, WellFormed, WithinCapacity, OnePerKey, OrdinaryInOrder,
              Posted, LifecycleAgrees, SleeperIsSignalled, Joined
<1>4. CASE FinishRun
  BY <1>4 DEF FinishRun, WellFormed, WithinCapacity, OnePerKey, OrdinaryInOrder,
              Posted, LifecycleAgrees, SleeperIsSignalled, Joined
<1>5. CASE TryNext
  <2>1. events' \in Seq(Event) /\ WithinCapacity' /\ WellFormed' /\ Posted'
    BY <1>5, TakeFirstKeeps DEF TryNext
  <2> QED
    BY <1>5, <2>1
    DEF TryNext, TakeFirst, LifecycleAgrees, SleeperIsSignalled, Joined
<1>6. CASE WaitBegin
  BY <1>6 DEF WaitBegin, WellFormed, WithinCapacity, OnePerKey, OrdinaryInOrder,
              Posted, LifecycleAgrees, SleeperIsSignalled, Joined
<1>7. CASE WaitResume
  <2>1. CASE TakeFirst
    <3>1. events' \in Seq(Event) /\ WithinCapacity' /\ WellFormed' /\ Posted'
      BY <1>7, <2>1, TakeFirstKeeps DEF WaitResume
    <3>2. owner' = "idle" /\ lifecycle # "Closed"
      BY <1>7, <2>1 DEF WaitResume, TakeFirst
    <3> QED
      BY <1>7, <3>1, <3>2
      DEF WaitResume, LifecycleAgrees, SleeperIsSignalled, Joined
  <2>2. CASE ~TakeFirst
    BY <1>7, <2>2
    DEF WaitResume, WellFormed, WithinCapacity, OnePerKey, OrdinaryInOrder,
        Posted, LifecycleAgrees, SleeperIsSignalled, Joined
  <2> QED
    BY <2>1, <2>2
<1>8. CASE WaitTimeout
  BY <1>8 DEF WaitTimeout, WellFormed, WithinCapacity, OnePerKey,
              OrdinaryInOrder, Posted, LifecycleAgrees, SleeperIsSignalled, Joined
<1>9. ASSUME NEW t \in Timers, TimerPosts(t) PROVE IInv'
  <2>1. t \in Kinds
    BY DEF Kinds
  <2>2. /\ events' \in Seq(Event) /\ events' # <<>> /\ posts' \in Nat
        /\ WithinCapacity' /\ WellFormed' /\ Posted'
    BY <1>9, <2>1, EnqueueKeeps DEF TimerPosts
  <2>3. lifecycle # "Closed" /\ notified' = (owner = "waiting")
    BY <1>9 DEF TimerPosts, Enqueue, Accepts
  <2> QED
    BY <1>9, <2>2, <2>3
    DEF TimerPosts, LifecycleAgrees, SleeperIsSignalled, Joined
<1>10. ASSUME NEW t \in Timers,
              \/ TimerStart(t) \/ TimerElapses(t) \/ TimerRefused(t)
              \/ TimerCancelled(t) \/ Cancel(t) \/ CancelReturns(t)
       PROVE IInv'
  <2>1. UNCHANGED <<lifecycle, events, guard, owner, timed, notified, posts>>
    BY <1>10 DEF TimerStart, TimerElapses, TimerRefused, TimerCancelled, Cancel,
                 CancelReturns
  <2>2. WellFormed' /\ Posted' /\ LifecycleAgrees' /\ SleeperIsSignalled'
    BY <2>1 DEF WellFormed, WithinCapacity, OnePerKey, OrdinaryInOrder, Posted,
                LifecycleAgrees, SleeperIsSignalled
  <2>3. TypeOK'
    BY <1>10, <2>1 DEF TimerStart, TimerElapses, TimerRefused, TimerCancelled,
                       Cancel, CancelReturns, WithinCapacity
  <2>4. Joined'
    BY <1>10 DEF TimerStart, TimerElapses, TimerRefused, TimerCancelled, Cancel,
                 CancelReturns, Joined
  <2> QED
    BY <2>2, <2>3, <2>4
<1>11. CASE UNCHANGED vars
  BY <1>11 DEF vars, WellFormed, WithinCapacity, OnePerKey, OrdinaryInOrder,
               Posted, LifecycleAgrees, SleeperIsSignalled, Joined
<1> QED
  BY <1>1, <1>2, <1>3, <1>4, <1>5, <1>6, <1>7, <1>8, <1>9, <1>10, <1>11
  DEF Next, TimerStep

\* The invariant holds initially.
LEMMA InitHasInvariant == Init => IInv
<1> SUFFICES ASSUME Init PROVE IInv
  OBVIOUS
<1>1. events \in Seq(Event) /\ WithinCapacity /\ WellFormed /\ Posted
  <2>1. events = <<>> /\ Len(events) = 0 /\ 1..Len(events) = {}
    BY EmptySeq DEF Init
  <2> QED
    BY <2>1, EmptySeq, CapacityAssumption
    DEF WellFormed, WithinCapacity, OnePerKey, OrdinaryInOrder, Posted
<1> QED
  BY <1>1 DEF Init, IInv, TypeOK, LifecycleAgrees, SleeperIsSignalled, Joined

\* The invariant holds always.
THEOREM Invariance == Spec => []IInv
  BY InitHasInvariant, StepKeepsInvariant, PTL DEF Spec

\* The variables keep their types, for queues and timers of any number.
THEOREM TypeCorrect == Spec => []TypeOK
<1>1. IInv => TypeOK
  BY DEF IInv
<1> QED
  BY <1>1, Invariance, PTL

\* Whatever threads post, in whatever order: the queue stays within its
\* capacity, holds each coalescing key at most once, and keeps ordinary events
\* in the order in which it accepted them.
THEOREM QueueWellFormed == Spec => []WellFormed
<1>1. IInv => WellFormed
  BY DEF IInv
<1> QED
  BY <1>1, Invariance, PTL

\* begin_run, quit and the drop of the run guard agree on the lifecycle.
THEOREM LifecycleConsistent == Spec => []LifecycleAgrees
<1>1. IInv => LifecycleAgrees
  BY DEF IInv
<1> QED
  BY <1>1, Invariance, PTL

\* Both, for every capacity and every set of keys and timers.
THEOREM QueueSound == Spec => []QueueIsSound
<1>1. IInv => QueueIsSound
  BY DEF IInv, QueueIsSound
<1> QED
  BY <1>1, Invariance, PTL

\* No signal is lost: an owner asleep in wait_next has been notified as soon as
\* there is something for it.
THEOREM NoSignalLost == Spec => []SleeperIsSignalled
<1>1. IInv => SleeperIsSignalled
  BY DEF IInv
<1> QED
  BY <1>1, Invariance, PTL

-----------------------------------------------------------------------------
(***************************************************************************)
(* What a step never does.                                                 *)
(***************************************************************************)
\* Every step leaves the queue alone, accepts one event, takes the first, or
\* quits.
LEMMA QueueSteps ==
  ASSUME [Next]_vars
  PROVE  \/ UNCHANGED events
         \/ lifecycle' = "Closed" /\ events' = <<>>
         \/ TakeFirst
         \/ \E k \in Continuous \cup {Plain} : Enqueue(k)
         \/ \E t \in Timers : worker[t] = "posting" /\ Enqueue(t)
  BY DEF Next, vars, Post, Quit, BeginRun, FinishRun, TryNext, WaitBegin,
         WaitResume, WaitTimeout, TimerStart, TimerElapses, TimerStep, TimerPosts,
         TimerRefused, TimerCancelled, Cancel, CancelReturns

\* After quit nothing reopens the queue and nothing enters it.
THEOREM ClosedForEver == Spec => ClosedIsFinal
<1>1. IInv /\ [Next]_vars => [StaysClosed]_vars
  <2> SUFFICES ASSUME IInv, [Next]_vars, lifecycle = "Closed"
               PROVE  lifecycle' = "Closed" /\ events' = <<>>
    BY DEF StaysClosed
  <2>1. events = <<>>
    BY DEF IInv, LifecycleAgrees
  <2>2. events' = <<>>
    BY <2>1, QueueSteps DEF TakeFirst, Enqueue, Accepts
  <2>3. lifecycle' = "Closed"
    BY DEF Next, vars, queueVars, Post, Quit, BeginRun, FinishRun, TryNext,
           WaitBegin, WaitResume, WaitTimeout, TimerStart, TimerElapses, TimerStep,
           TimerPosts, TimerRefused, TimerCancelled, Cancel, CancelReturns
  <2> QED
    BY <2>2, <2>3
<1> QED
  BY <1>1, Invariance, PTL DEF Spec, ClosedIsFinal

\* A continuous event keeps its place in the queue while newer ones of its key
\* are posted, and otherwise moves forward with the events taken before it.
THEOREM ContinuousKeepsItsPlace == Spec => KeepsItsPlace
<1>1. IInv /\ [Next]_vars => [StaysInPlace]_vars
  <2> SUFFICES ASSUME IInv, [Next]_vars, lifecycle' # "Closed",
                      NEW i \in 1..Len(events)
               PROVE  \/ i = 1 /\ events' = Tail(events)
                      \/ \E j \in {i - 1, i} \cap (1..Len(events')) :
                           events'[j].kind = events[i].kind
    BY DEF StaysInPlace
  <2>1. events \in Seq(Event) /\ Len(events) \in Nat /\ posts \in Nat
    BY LenProperties DEF IInv, TypeOK
  <2>2. CASE UNCHANGED events
    BY <2>2
  <2>3. CASE TakeFirst
    <3>1. events # <<>> /\ events' = Tail(events)
      BY <2>3 DEF TakeFirst
    <3>2. /\ Len(events') = Len(events) - 1
          /\ \A j \in 1..Len(events') : events'[j] = events[j + 1]
      BY <2>1, <3>1, HeadTailProperties
    <3>3. i # 1 => i - 1 \in 1..Len(events')
      BY <2>1, <3>2
    <3>4. i # 1 => events'[i - 1] = events[i]
      BY <2>1, <3>2, <3>3
    <3> QED
      BY <3>1, <3>3, <3>4
  <2>4. ASSUME NEW k \in Kinds, Enqueue(k)
        PROVE  i \in 1..Len(events') /\ events'[i].kind = events[i].kind
    <3> DEFINE e == [kind |-> k, seq |-> posts + 1]
    <3>1. e \in Event /\ e.kind = k /\ events' = Place(e) /\ TypeOK
      BY <2>1, <2>4 DEF Event, Enqueue, IInv
    <3> HIDE DEF e
    <3>2. CASE Coalesces(e.kind)
      BY <3>1, <3>2, PlaceInPlace
    <3>3. CASE ~Coalesces(e.kind)
      BY <2>1, <3>1, <3>3, PlaceAtEnd
    <3> QED
      BY <3>2, <3>3
  <2> QED
    BY <2>2, <2>3, <2>4, QueueSteps DEF Kinds
<1> QED
  BY <1>1, Invariance, PTL DEF Spec, KeepsItsPlace

\* Taking the first event leaves no kind with more events than before.
LEMMA TailHasNoMore ==
  ASSUME TypeOK, TakeFirst, NEW t
  PROVE  Cardinality(Pending(t)') <= Cardinality(Pending(t))
<1> DEFINE f == [i \in Pending(t)' |-> i + 1]
<1>1. events \in Seq(Event) /\ events # <<>> /\ events' = Tail(events)
  BY DEF TypeOK, TakeFirst
<1>2. /\ Len(events) \in Nat
      /\ Len(events') = Len(events) - 1
      /\ \A i \in 1..Len(events') : events'[i] = events[i + 1]
  BY <1>1, HeadTailProperties, LenProperties
<1>3. \A i \in Pending(t)' : i \in Nat /\ i + 1 \in Pending(t)
  BY <1>2 DEF Pending
<1>4. f \in Injection(Pending(t)', Pending(t))
  BY <1>3 DEF Injection, IsInjective
<1>5. IsFiniteSet(Pending(t))
  <2>1. IsFiniteSet(1..Len(events)) /\ Pending(t) \in SUBSET (1..Len(events))
    BY <1>2, FS_Interval DEF Pending
  <2> QED
    BY <2>1, FS_Subset
<1> QED
  BY <1>4, <1>5, FS_Injection

\* Once cancel has returned, no step adds an event of the timer to the queue.
THEOREM CancelSilences == Spec => SilentAfterCancel
<1>1. IInv /\ [Next]_vars => [PostsNoMore]_vars
  <2> SUFFICES ASSUME IInv, [Next]_vars, NEW t \in Timers,
                      canceller[t] = "returned"
               PROVE  Cardinality(Pending(t)') <= Cardinality(Pending(t))
    BY DEF PostsNoMore
  <2>1. events \in Seq(Event) /\ Len(events) \in Nat /\ posts \in Nat
    BY LenProperties DEF IInv, TypeOK
  <2>2. IsFiniteSet(Pending(t)) /\ Cardinality(Pending(t)) \in Nat
    <3>1. IsFiniteSet(1..Len(events)) /\ Pending(t) \in SUBSET (1..Len(events))
      BY <2>1, FS_Interval DEF Pending
    <3> QED
      BY <3>1, FS_Subset, FS_CardinalityType
  <2>3. CASE UNCHANGED events
    BY <2>2, <2>3 DEF Pending
  <2>4. CASE events' = <<>>
    <3>1. Pending(t)' = {}
      BY <2>4, EmptySeq DEF Pending
    <3> QED
      BY <2>2, <3>1, FS_EmptySet
  <2>5. CASE TakeFirst
    BY <2>5, TailHasNoMore DEF IInv
  <2>6. ASSUME NEW k \in Kinds, Enqueue(k), k # t
        PROVE  Pending(t)' = Pending(t)
    <3> DEFINE e == [kind |-> k, seq |-> posts + 1]
    <3>1. e \in Event /\ e.kind = k /\ events' = Place(e) /\ TypeOK
      BY <2>1, <2>6 DEF Event, Enqueue, IInv
    <3> HIDE DEF e
    <3>2. CASE Coalesces(e.kind)
      BY <2>6, <3>1, <3>2, PlaceInPlace DEF Pending
    <3>3. CASE ~Coalesces(e.kind)
      <4>1. \A j \in 1..Len(events') : j \in 1..Len(events) \/ j = Len(events) + 1
        BY <2>1, <3>1, <3>3, PlaceAtEnd
      <4>2. \A j \in 1..Len(events) : j \in 1..Len(events')
        BY <2>1, <3>1, <3>3, PlaceAtEnd
      <4> QED
        BY <2>1, <2>6, <3>1, <3>3, <4>1, <4>2, PlaceAtEnd DEF Pending
    <3> QED
      BY <3>2, <3>3
  <2>7. worker[t] # "posting"
    BY DEF IInv, Joined
  <2>8. t \notin Continuous \cup {Plain}
    BY KindsAssumption
  <2> QED
    BY <2>2, <2>3, <2>4, <2>5, <2>6, <2>7, <2>8, QueueSteps DEF Kinds
<1> QED
  BY <1>1, Invariance, PTL DEF Spec, SilentAfterCancel
-----------------------------------------------------------------------------
(***************************************************************************)
(* The queue implements the conflating channel.  What the mapping makes of *)
(* a queue is stated once for every queue q, and then used of the queue    *)
(* before a step and of the queue after it.                                *)
(***************************************************************************)
\* Each key at most once: OnePerKey of any queue.
KeysOnce(q) ==
  \A i, j \in 1..Len(q) :
    q[i].kind = q[j].kind /\ q[i].kind \in Continuous => i = j

\* The keys for which a queue holds an event.
KeysIn(q) == {k \in Continuous : \E i \in 1..Len(q) : q[i].kind = k}

\* The positions of a queue's ordinary events, and those of the others.
OrdinaryAt(q) == {j \in 1..Len(q) : q[j].kind \notin Continuous}
ContinuousAt(q) == {j \in 1..Len(q) : q[j].kind \in Continuous}

\* The payload of a queued key is that of its only event.
LEMMA PayloadOfKey ==
  ASSUME NEW q \in Seq(Event), KeysOnce(q)
  PROVE  /\ \A i \in 1..Len(q) : q[i].kind \in Continuous =>
              KeyPayload(q)[q[i].kind] = q[i].seq
         /\ \A k \in Continuous : k \notin KeysIn(q) => KeyPayload(q)[k] = NoValue
<1>1. ASSUME NEW i \in 1..Len(q), q[i].kind \in Continuous
      PROVE  KeyPayload(q)[q[i].kind] = q[i].seq
  <2> DEFINE k == q[i].kind
             c == CHOOSE j \in 1..Len(q) : q[j].kind = k
  <2>1. c \in 1..Len(q) /\ q[c].kind = k
    OBVIOUS
  <2>2. c = i
    BY <1>1, <2>1 DEF KeysOnce
  <2>3. KeyPayload(q)[k] = q[c].seq
    BY <1>1 DEF KeyPayload
  <2> QED
    BY <2>2, <2>3
<1>2. ASSUME NEW k \in Continuous, k \notin KeysIn(q)
      PROVE  KeyPayload(q)[k] = NoValue
  BY <1>2 DEF KeysIn, KeyPayload
<1> QED
  BY <1>1, <1>2

\* The keys with a payload are the queued ones.
LEMMA OccupiedKeys ==
  ASSUME NEW q \in Seq(Event), KeysOnce(q)
  PROVE  {k \in Continuous : KeyPayload(q)[k] # NoValue} = KeysIn(q)
<1>1. ASSUME NEW k \in KeysIn(q) PROVE k \in Continuous /\ KeyPayload(q)[k] # NoValue
  <2>1. PICK i \in 1..Len(q) : q[i].kind = k /\ k \in Continuous
    BY DEF KeysIn
  <2>2. q[i].seq \in Nat
    <3>1. q[i] \in Event
      BY <2>1, ElementOfSeq
    <3> QED
      BY <3>1 DEF Event
  <2>3. KeyPayload(q)[k] = q[i].seq
    BY <2>1, PayloadOfKey
  <2> QED
    BY <2>1, <2>2, <2>3, NoValueAssumption
<1> QED
  BY <1>1, PayloadOfKey DEF KeysIn

\* A queue has a place for every ordinary value and every key of the channel.
LEMMA ChannelFits ==
  ASSUME NEW q \in Seq(Event)
  PROVE  /\ Cardinality(Underway(q)) \in Nat
         /\ Cardinality(KeysIn(q)) \in Nat
         /\ Cardinality(Underway(q)) + Cardinality(KeysIn(q)) <= Len(q)
<1> DEFINE O == OrdinaryAt(q)
           C == ContinuousAt(q)
<1>1. Len(q) \in Nat /\ IsFiniteSet(1..Len(q)) /\ Cardinality(1..Len(q)) = Len(q)
  <2>1. Len(q) \in Nat
    BY LenProperties
  <2> QED
    BY <2>1, FS_Interval
<1>2. IsFiniteSet(O) /\ IsFiniteSet(C)
  BY <1>1, FS_Subset DEF OrdinaryAt, ContinuousAt
<1>3. /\ Cardinality(O) \in Nat /\ Cardinality(C) \in Nat
      /\ Cardinality(O) + Cardinality(C) = Len(q)
  <2>1. O \cup C = 1..Len(q) /\ O \cap C = {}
    BY DEF OrdinaryAt, ContinuousAt
  <2>2. Cardinality(O) \in Nat /\ Cardinality(C) \in Nat /\ Cardinality({}) = 0
    BY <1>2, FS_CardinalityType, FS_EmptySet
  <2>3. Cardinality(O \cup C) = Cardinality(O) + Cardinality(C) - Cardinality(O \cap C)
    BY <1>2, FS_Union
  <2>4. Len(q) = Cardinality(O) + Cardinality(C) - 0
    BY <1>1, <2>1, <2>2, <2>3, Zenon
  <2> HIDE DEF O, C
  <2> QED
    BY <2>2, <2>4
<1>4. IsFiniteSet(Underway(q)) /\ Cardinality(Underway(q)) <= Cardinality(O)
  <2> DEFINE f == [i \in O |-> q[i].seq]
  <2>1. f \in Surjection(O, Underway(q))
    <3>1. \A v \in Underway(q) : \E i \in O : q[i].seq = v
      BY DEF Underway, OrdinaryAt
    <3>2. \A i \in O : q[i].seq \in Underway(q)
      BY DEF Underway, OrdinaryAt
    <3> QED
      BY <3>1, <3>2 DEF Surjection
  <2> QED
    BY <1>2, <2>1, FS_Surjection
<1>5. IsFiniteSet(KeysIn(q)) /\ Cardinality(KeysIn(q)) <= Cardinality(C)
  <2> DEFINE f == [i \in C |-> q[i].kind]
  <2>1. f \in Surjection(C, KeysIn(q))
    <3>1. \A k \in KeysIn(q) : \E i \in C : q[i].kind = k
      BY DEF KeysIn, ContinuousAt
    <3>2. \A i \in C : q[i].kind \in KeysIn(q)
      BY DEF KeysIn, ContinuousAt
    <3> QED
      BY <3>1, <3>2 DEF Surjection
  <2> QED
    BY <1>2, <2>1, FS_Surjection
<1>6. Cardinality(Underway(q)) \in Nat /\ Cardinality(KeysIn(q)) \in Nat
  BY <1>4, <1>5, FS_CardinalityType
<1> HIDE DEF O, C
<1> QED
  BY <1>1, <1>3, <1>4, <1>5, <1>6

\* An ordinary event at the end of the queue is one more value under way; the
\* keys keep their payloads.
LEMMA OrdinaryEntersChannel ==
  ASSUME NEW q \in Seq(Event), NEW r \in Seq(Event), NEW e \in Event,
         e.kind \notin Continuous,
         Len(r) = Len(q) + 1,
         \A j \in 1..Len(q) : r[j] = q[j],
         r[Len(q) + 1] = e,
         KeysOnce(q), KeysOnce(r)
  PROVE  /\ Underway(r) = Underway(q) \cup {e.seq}
         /\ KeyPayload(r) = KeyPayload(q)
<1>1. Len(q) \in Nat
  BY LenProperties
<1>2. /\ \A j \in 1..Len(r) : j \in 1..Len(q) \/ j = Len(q) + 1
      /\ \A j \in 1..Len(q) : j \in 1..Len(r)
      /\ Len(q) + 1 \in 1..Len(r)
  BY <1>1
<1>3. Underway(r) = Underway(q) \cup {e.seq}
  BY <1>2 DEF Underway
<1>4. KeyPayload(r) = KeyPayload(q)
  <2>1. ASSUME NEW k \in Continuous PROVE KeyPayload(r)[k] = KeyPayload(q)[k]
    <3>1. CASE k \in KeysIn(q)
      <4>1. PICK i \in 1..Len(q) : q[i].kind = k
        BY <3>1 DEF KeysIn
      <4>2. KeyPayload(q)[k] = q[i].seq
        BY <4>1, PayloadOfKey
      <4>3. i \in 1..Len(r) /\ r[i] = q[i]
        BY <1>2, <4>1
      <4>4. KeyPayload(r)[k] = r[i].seq
        BY <4>1, <4>3, PayloadOfKey
      <4> QED
        BY <4>2, <4>3, <4>4
    <3>2. CASE k \notin KeysIn(q)
      <4>1. k \notin KeysIn(r)
        BY <1>2, <3>2 DEF KeysIn
      <4> QED
        BY <3>2, <4>1, PayloadOfKey
    <3> QED
      BY <3>1, <3>2
  <2> QED
    BY <2>1 DEF KeyPayload
<1> QED
  BY <1>3, <1>4

\* A continuous event, in place or at the end, gives its key a new payload and
\* leaves everything else in the channel alone.
LEMMA ContinuousEntersChannel ==
  ASSUME NEW q \in Seq(Event), NEW r \in Seq(Event), NEW e \in Event,
         e.kind \in Continuous,
         NEW p \in 1..Len(r),
         r[p] = e,
         \A j \in 1..Len(r) : j # p => j \in 1..Len(q) /\ r[j] = q[j],
         \A j \in 1..Len(q) : j # p => j \in 1..Len(r),
         p \in 1..Len(q) => q[p].kind = e.kind,
         KeysOnce(q), KeysOnce(r)
  PROVE  /\ Underway(r) = Underway(q)
         /\ KeyPayload(r) = [KeyPayload(q) EXCEPT ![e.kind] = e.seq]
<1>1. Underway(r) = Underway(q)
  <2>1. \A v : v \in Underway(r) => v \in Underway(q)
    BY DEF Underway
  <2>2. \A v : v \in Underway(q) => v \in Underway(r)
    BY DEF Underway
  <2> QED
    BY <2>1, <2>2
<1>2. KeyPayload(r)[e.kind] = e.seq
  BY PayloadOfKey
<1>3. ASSUME NEW k \in Continuous, k # e.kind
      PROVE  KeyPayload(r)[k] = KeyPayload(q)[k]
  <2>1. CASE k \in KeysIn(q)
    <3>1. PICK i \in 1..Len(q) : q[i].kind = k
      BY <2>1 DEF KeysIn
    <3>2. i # p /\ i \in 1..Len(r) /\ r[i] = q[i]
      BY <1>3, <3>1
    <3>3. KeyPayload(q)[k] = q[i].seq
      BY <3>1, PayloadOfKey
    <3>4. KeyPayload(r)[k] = r[i].seq
      BY <3>1, <3>2, PayloadOfKey
    <3> QED
      BY <3>2, <3>3, <3>4
  <2>2. CASE k \notin KeysIn(q)
    <3>1. k \notin KeysIn(r)
      BY <1>3, <2>2 DEF KeysIn
    <3> QED
      BY <2>2, <3>1, PayloadOfKey
  <2> QED
    BY <2>1, <2>2
<1>4. KeyPayload(r) = [KeyPayload(q) EXCEPT ![e.kind] = e.seq]
  <2>1. /\ KeyPayload(r) = [k \in Continuous |-> KeyPayload(r)[k]]
        /\ KeyPayload(q) = [k \in Continuous |-> KeyPayload(q)[k]]
    BY DEF KeyPayload
  <2> QED
    BY <1>2, <1>3, <2>1
<1> QED
  BY <1>1, <1>4

\* Taking the first event takes the oldest ordinary value, or empties a key.
LEMMA FirstLeavesChannel ==
  ASSUME NEW q \in Seq(Event), q # <<>>, KeysOnce(q), KeysOnce(Tail(q)),
         \A i, j \in 1..Len(q) :
           i < j /\ q[i].kind \notin Continuous /\ q[j].kind \notin Continuous
             => q[i].seq < q[j].seq
  PROVE  \/ /\ q[1].seq \in Underway(q)
            /\ \A w \in Underway(q) : q[1].seq <= w
            /\ Underway(Tail(q)) = Underway(q) \ {q[1].seq}
            /\ KeyPayload(Tail(q)) = KeyPayload(q)
         \/ /\ q[1].kind \in KeysIn(q)
            /\ Underway(Tail(q)) = Underway(q)
            /\ KeyPayload(Tail(q)) = [KeyPayload(q) EXCEPT ![q[1].kind] = NoValue]
<1> DEFINE r == Tail(q)
<1>1. /\ r \in Seq(Event)
      /\ Len(q) \in Nat /\ Len(q) # 0
      /\ Len(r) = Len(q) - 1
      /\ \A j \in 1..Len(r) : r[j] = q[j + 1]
  BY HeadTailProperties, LenProperties, EmptySeq
<1>2. KeysOnce(r)
  OBVIOUS
<1> HIDE DEF r
<1>3. /\ 1 \in 1..Len(q)
      /\ \A j \in 1..Len(r) : j + 1 \in 1..Len(q) /\ j + 1 # 1
      /\ \A j \in 1..Len(q) : j # 1 => j - 1 \in 1..Len(r) /\ r[j - 1] = q[j]
  BY <1>1
<1>4. \A j \in 1..Len(q) : q[j].seq \in Nat
  <2>1. \A j \in 1..Len(q) : q[j] \in Event
    BY ElementOfSeq
  <2> QED
    BY <2>1 DEF Event
<1>5. ASSUME NEW k \in Continuous, k # q[1].kind
      PROVE  KeyPayload(r)[k] = KeyPayload(q)[k]
  <2>1. CASE k \in KeysIn(q)
    <3>1. PICK i \in 1..Len(q) : q[i].kind = k
      BY <2>1 DEF KeysIn
    <3>2. i # 1 /\ i - 1 \in 1..Len(r) /\ r[i - 1] = q[i]
      BY <1>3, <1>5, <3>1
    <3>3. KeyPayload(q)[k] = q[i].seq
      BY <3>1, PayloadOfKey
    <3>4. KeyPayload(r)[k] = r[i - 1].seq
      BY <1>1, <1>2, <3>1, <3>2, PayloadOfKey
    <3> QED
      BY <3>2, <3>3, <3>4
  <2>2. CASE k \notin KeysIn(q)
    <3>1. k \notin KeysIn(r)
      BY <1>1, <1>3, <2>2 DEF KeysIn
    <3> QED
      BY <1>1, <1>2, <2>2, <3>1, PayloadOfKey
  <2> QED
    BY <2>1, <2>2
<1>6. CASE q[1].kind \in Continuous
  <2>1. q[1].kind \in KeysIn(q)
    BY <1>3, <1>6 DEF KeysIn
  <2>2. Underway(r) = Underway(q)
    <3>1. \A v : v \in Underway(r) => v \in Underway(q)
      BY <1>1, <1>3 DEF Underway
    <3>2. \A v : v \in Underway(q) => v \in Underway(r)
      BY <1>3, <1>6 DEF Underway
    <3> QED
      BY <3>1, <3>2
  <2>3. q[1].kind \notin KeysIn(r)
    <3>1. ASSUME NEW j \in 1..Len(r) PROVE r[j].kind # q[1].kind
      BY <1>1, <1>3, <1>6 DEF KeysOnce
    <3> QED
      BY <3>1 DEF KeysIn
  <2>4. KeyPayload(r)[q[1].kind] = NoValue
    BY <1>1, <1>2, <1>6, <2>3, PayloadOfKey
  <2>5. /\ KeyPayload(r) = [k \in Continuous |-> KeyPayload(r)[k]]
        /\ KeyPayload(q) = [k \in Continuous |-> KeyPayload(q)[k]]
    BY DEF KeyPayload
  <2>6. KeyPayload(r) = [KeyPayload(q) EXCEPT ![q[1].kind] = NoValue]
    BY <1>5, <1>6, <2>4, <2>5
  <2> QED
    BY <2>1, <2>2, <2>6 DEF r
<1>7. CASE q[1].kind \notin Continuous
  <2>1. q[1].seq \in Underway(q)
    BY <1>3, <1>7 DEF Underway
  <2>2. \A j \in 1..Len(q) :
          q[j].kind \notin Continuous /\ j # 1 => q[1].seq < q[j].seq
    <3>1. \A j \in 1..Len(q) : j # 1 => 1 < j
      BY <1>1
    <3> QED
      BY <1>3, <1>7, <3>1
  <2>3. \A w \in Underway(q) : q[1].seq <= w
    BY <1>3, <1>4, <2>2 DEF Underway
  <2>4. Underway(r) = Underway(q) \ {q[1].seq}
    <3>1. ASSUME NEW v \in Underway(r) PROVE v \in Underway(q) /\ v # q[1].seq
      <4>1. PICK j \in 1..Len(r) : r[j].kind \notin Continuous /\ r[j].seq = v
        BY DEF Underway
      <4>2. j + 1 \in 1..Len(q) /\ j + 1 # 1 /\ q[j + 1] = r[j]
        BY <1>1, <1>3, <4>1
      <4>3. v \in Underway(q)
        BY <4>1, <4>2 DEF Underway
      <4>4. q[1].seq < v
        BY <2>2, <4>1, <4>2
      <4> QED
        BY <1>3, <1>4, <4>1, <4>2, <4>3, <4>4
    <3>2. ASSUME NEW v \in Underway(q), v # q[1].seq PROVE v \in Underway(r)
      <4>1. PICK j \in 1..Len(q) : q[j].kind \notin Continuous /\ q[j].seq = v
        BY DEF Underway
      <4>2. j - 1 \in 1..Len(r) /\ r[j - 1] = q[j]
        BY <1>3, <3>2, <4>1
      <4> QED
        BY <4>1, <4>2 DEF Underway
    <3> QED
      BY <3>1, <3>2
  <2>5. KeyPayload(r) = KeyPayload(q)
    <3>1. \A k \in Continuous : KeyPayload(r)[k] = KeyPayload(q)[k]
      BY <1>5, <1>7
    <3> QED
      BY <3>1 DEF KeyPayload
  <2> QED
    BY <2>1, <2>3, <2>4, <2>5 DEF r
<1> QED
  BY <1>6, <1>7

\* What a step is to the channel: nothing, a quit, a delivery, or a send.
LEMMA ChannelSteps ==
  ASSUME [Next]_vars
  PROVE  \/ /\ UNCHANGED <<events, posts>>
            /\ lifecycle' = "Closed" <=> lifecycle = "Closed"
         \/ Quit
         \/ TakeFirst /\ UNCHANGED <<lifecycle, posts>>
         \/ \E k \in Kinds : Enqueue(k) /\ UNCHANGED lifecycle
<1> USE DEF queueVars
<1>1. ASSUME NEW k \in Kinds, Post(k) PROVE Enqueue(k) /\ UNCHANGED lifecycle
  BY <1>1 DEF Post
<1>2. ASSUME NEW t \in Timers, TimerPosts(t)
      PROVE  t \in Kinds /\ Enqueue(t) /\ UNCHANGED lifecycle
  BY <1>2 DEF TimerPosts, Kinds
<1>3. CASE BeginRun \/ FinishRun \/ WaitBegin \/ WaitTimeout \/ UNCHANGED vars
  BY <1>3 DEF BeginRun, FinishRun, WaitBegin, WaitTimeout, vars
<1>4. CASE TryNext \/ WaitResume
  BY <1>4 DEF TryNext, WaitResume
<1>5. ASSUME NEW t \in Timers,
             \/ TimerStart(t) \/ TimerElapses(t) \/ TimerRefused(t)
             \/ TimerCancelled(t) \/ Cancel(t) \/ CancelReturns(t)
      PROVE  UNCHANGED <<events, posts, lifecycle>>
  BY <1>5 DEF TimerStart, TimerElapses, TimerRefused, TimerCancelled, Cancel,
              CancelReturns
<1> QED
  BY <1>1, <1>2, <1>3, <1>4, <1>5 DEF Next, TimerStep

\* An accepted event is sent on the channel: an ordinary one needs room, and so
\* does the first one of its key.
LEMMA EnqueueSends ==
  ASSUME IInv, NEW k \in Kinds, Enqueue(k), UNCHANGED lifecycle
  PROVE  Channel!Next
<1> DEFINE e == [kind |-> k, seq |-> posts + 1]
<1>1. /\ TypeOK
      /\ posts \in Nat
      /\ events \in Seq(Event)
      /\ Len(events) \in Nat
      /\ Capacity \in Nat
  BY LenProperties, CapacityAssumption DEF IInv, TypeOK
<1>2. e \in Event /\ e.kind = k /\ e.seq = posts + 1
  BY <1>1 DEF Event
<1>3. events' = Place(e) /\ posts' = e.seq /\ Accepts(k)
  BY <1>2 DEF Enqueue
<1>4. events' \in Seq(Event) /\ OnePerKey'
  BY EnqueueKeeps DEF WellFormed
<1>5. PICK r : r = events'
  OBVIOUS
<1>6. KeysOnce(events) /\ KeysOnce(r) /\ r \in Seq(Event)
  BY <1>4, <1>5 DEF IInv, WellFormed, OnePerKey, KeysOnce
<1>7. Channel!Occupied = KeysIn(events)
  BY <1>1, <1>6, OccupiedKeys DEF Channel!Occupied
<1>8. ~Coalesces(k) => Channel!HasRoom
  <2>1. ~Coalesces(k) => Len(events) < Capacity
    BY <1>3 DEF Accepts
  <2>2. /\ Cardinality(Underway(events)) \in Nat
        /\ Cardinality(KeysIn(events)) \in Nat
        /\ Cardinality(Underway(events)) + Cardinality(KeysIn(events)) <= Len(events)
    BY <1>1, ChannelFits
  <2>3. \A S : Channel!Cardinality(S) = Cardinality(S)
    BY DEF Channel!Cardinality, Cardinality
  <2> QED
    BY <1>1, <1>7, <2>1, <2>2, <2>3 DEF Channel!HasRoom
<1>9. /\ lifecycle # "Closed"
      /\ (lifecycle # "Closed")' = (lifecycle # "Closed")
      /\ posts' = posts + 1
  BY <1>2, <1>3 DEF Accepts
<1>10. /\ Underway(events)' = Underway(r)
       /\ KeyPayload(events)' = KeyPayload(r)
  BY <1>5 DEF Underway, KeyPayload
<1> HIDE DEF e
<1>11. CASE k \notin Continuous
  <2>1. ~Coalesces(e.kind)
    BY <1>2, <1>11 DEF Coalesces
  <2>2. /\ Len(r) = Len(events) + 1
        /\ \A j \in 1..Len(events) : r[j] = events[j]
        /\ r[Len(events) + 1] = e
    BY <1>1, <1>2, <1>3, <1>5, <2>1, PlaceAtEnd
  <2>3. /\ Underway(r) = Underway(events) \cup {e.seq}
        /\ KeyPayload(r) = KeyPayload(events)
    BY <1>1, <1>2, <1>6, <1>11, <2>2, OrdinaryEntersChannel
  <2>4. /\ Underway(events)' = Underway(events) \cup {posts'}
        /\ KeyPayload(events)' = KeyPayload(events)
    BY <1>3, <1>10, <2>3
  <2>5. Channel!SendOrdinary
    BY <1>2, <1>8, <1>9, <2>1, <2>4 DEF Channel!SendOrdinary
  <2> QED
    BY <2>5 DEF Channel!Next
<1>12. CASE k \in Continuous
  <2>1. PICK p \in 1..Len(r) :
          /\ r[p] = e
          /\ \A j \in 1..Len(r) : j # p => j \in 1..Len(events) /\ r[j] = events[j]
          /\ \A j \in 1..Len(events) : j # p => j \in 1..Len(r)
          /\ p \in 1..Len(events) => events[p].kind = e.kind
    <3>1. CASE Coalesces(e.kind)
      <4>1. PICK i \in 1..Len(events) :
              /\ events[i].kind = e.kind
              /\ \A j \in 1..Len(events) : r[j] = IF j = i THEN e ELSE events[j]
        BY <1>1, <1>2, <1>3, <1>5, <3>1, PlaceInPlace
      <4>2. Len(r) = Len(events)
        BY <1>1, <1>2, <1>3, <1>5, <3>1, PlaceInPlace
      <4> QED
        BY <4>1, <4>2
    <3>2. CASE ~Coalesces(e.kind)
      <4>1. /\ Len(r) = Len(events) + 1
            /\ \A j \in 1..Len(events) : r[j] = events[j]
            /\ r[Len(events) + 1] = e
        BY <1>1, <1>2, <1>3, <1>5, <3>2, PlaceAtEnd
      <4>2. /\ Len(events) + 1 \in 1..Len(r)
            /\ Len(events) + 1 \notin 1..Len(events)
            /\ \A j \in 1..Len(r) : j \in 1..Len(events) \/ j = Len(events) + 1
            /\ \A j \in 1..Len(events) : j \in 1..Len(r)
        BY <1>1, <4>1
      <4> QED
        BY <4>1, <4>2
    <3> QED
      BY <3>1, <3>2
  <2>2. /\ Underway(r) = Underway(events)
        /\ KeyPayload(r) = [KeyPayload(events) EXCEPT ![k] = e.seq]
    BY <1>1, <1>2, <1>6, <1>12, <2>1, ContinuousEntersChannel
  <2>3. /\ Underway(events)' = Underway(events)
        /\ KeyPayload(events)' = [KeyPayload(events) EXCEPT ![k] = posts']
    BY <1>3, <1>10, <2>2
  <2>4. k \in Channel!Occupied \/ Channel!HasRoom
    BY <1>7, <1>8, <1>12 DEF Coalesces, Queued, KeysIn
  <2>5. Channel!SendContinuous(k)
    BY <1>9, <2>3, <2>4 DEF Channel!SendContinuous
  <2> QED
    BY <1>12, <2>5 DEF Channel!Next
<1> QED
  BY <1>11, <1>12

\* Quit closes the channel.
LEMMA QuitCloses == ASSUME Quit PROVE Channel!Close
<1>1. /\ events' = <<>> /\ Len(events') = 0 /\ 1..Len(events') = {}
      /\ lifecycle' = "Closed"
      /\ posts' = posts
  BY EmptySeq DEF Quit
<1>2. Underway(events)' = {}
  BY <1>1 DEF Underway
<1>3. KeyPayload(events)' = [k \in Continuous |-> NoValue]
  BY <1>1 DEF KeyPayload
<1> QED
  BY <1>1, <1>2, <1>3 DEF Channel!Close

\* Taking the first event receives from the channel.
LEMMA TakeReceives ==
  ASSUME IInv, TakeFirst, UNCHANGED <<lifecycle, posts>>
  PROVE  Channel!Next
<1>1. events \in Seq(Event) /\ events # <<>> /\ events' = Tail(events)
  BY DEF IInv, TypeOK, TakeFirst
<1>2. KeysOnce(events)
  BY DEF IInv, WellFormed, OnePerKey, KeysOnce
<1>3. KeysOnce(Tail(events))
  <2>1. OnePerKey'
    BY TakeFirstKeeps DEF WellFormed
  <2> QED
    BY <1>1, <2>1 DEF OnePerKey, KeysOnce
<1>4. /\ Underway(events)' = Underway(Tail(events))
      /\ KeyPayload(events)' = KeyPayload(Tail(events))
  BY <1>1 DEF Underway, KeyPayload
<1>5. (lifecycle # "Closed")' = (lifecycle # "Closed") /\ posts' = posts
  OBVIOUS
<1>6. \A i, j \in 1..Len(events) :
        i < j /\ events[i].kind \notin Continuous /\ events[j].kind \notin Continuous
          => events[i].seq < events[j].seq
  BY DEF IInv, WellFormed, OrdinaryInOrder
<1>7. \/ /\ events[1].seq \in Underway(events)
         /\ \A w \in Underway(events) : events[1].seq <= w
         /\ Underway(Tail(events)) = Underway(events) \ {events[1].seq}
         /\ KeyPayload(Tail(events)) = KeyPayload(events)
      \/ /\ events[1].kind \in KeysIn(events)
         /\ Underway(Tail(events)) = Underway(events)
         /\ KeyPayload(Tail(events))
              = [KeyPayload(events) EXCEPT ![events[1].kind] = NoValue]
  BY <1>1, <1>2, <1>3, <1>6, FirstLeavesChannel
<1>8. CASE /\ events[1].seq \in Underway(events)
           /\ \A w \in Underway(events) : events[1].seq <= w
           /\ Underway(Tail(events)) = Underway(events) \ {events[1].seq}
           /\ KeyPayload(Tail(events)) = KeyPayload(events)
  <2>1. Channel!Oldest(events[1].seq)
    BY <1>8 DEF Channel!Oldest
  <2>2. Channel!ReceiveOrdinary
    BY <1>4, <1>5, <1>8, <2>1 DEF Channel!ReceiveOrdinary
  <2> QED
    BY <2>2 DEF Channel!Next
<1>9. CASE /\ events[1].kind \in KeysIn(events)
           /\ Underway(Tail(events)) = Underway(events)
           /\ KeyPayload(Tail(events))
                = [KeyPayload(events) EXCEPT ![events[1].kind] = NoValue]
  <2>1. PICK k : k = events[1].kind
    OBVIOUS
  <2>2. k \in Channel!Occupied
    BY <1>1, <1>2, <1>9, <2>1, OccupiedKeys DEF Channel!Occupied
  <2>3. Channel!ReceiveContinuous(k)
    BY <1>4, <1>5, <1>9, <2>1, <2>2 DEF Channel!ReceiveContinuous
  <2> QED
    BY <1>9, <2>1, <2>3 DEF Channel!Next, KeysIn
<1> QED
  BY <1>7, <1>8, <1>9

\* The queue with its threads and timers implements the conflating channel, for
\* every capacity and every set of keys and timers: each ordinary event is
\* delivered at most once and in the order of acceptance, a continuous one with
\* the newest payload of its key, and never more are held than fit.
THEOREM ChannelImplemented == Spec => ImplementsChannel
<1>1. Init => Channel!Init
  <2> SUFFICES ASSUME Init PROVE Channel!Init
    OBVIOUS
  <2>1. events = <<>> /\ Len(events) = 0 /\ 1..Len(events) = {}
    BY EmptySeq DEF Init
  <2>2. Underway(events) = {}
    BY <2>1 DEF Underway
  <2>3. KeyPayload(events) = [k \in Continuous |-> NoValue]
    BY <2>1 DEF KeyPayload
  <2> QED
    BY <2>2, <2>3 DEF Init, Channel!Init
<1>2. IInv /\ [Next]_vars => [Channel!Next]_(Channel!vars)
  <2> SUFFICES ASSUME IInv, [Next]_vars PROVE [Channel!Next]_(Channel!vars)
    OBVIOUS
  <2>1. CASE /\ UNCHANGED <<events, posts>>
             /\ lifecycle' = "Closed" <=> lifecycle = "Closed"
    <3>1. /\ Underway(events)' = Underway(events)
          /\ KeyPayload(events)' = KeyPayload(events)
          /\ (lifecycle # "Closed")' = (lifecycle # "Closed")
      BY <2>1 DEF Underway, KeyPayload
    <3> QED
      BY <2>1, <3>1 DEF Channel!vars
  <2>2. CASE Quit
    BY <2>2, QuitCloses DEF Channel!Next
  <2>3. CASE TakeFirst /\ UNCHANGED <<lifecycle, posts>>
    BY <2>3, TakeReceives
  <2>4. CASE \E k \in Kinds : Enqueue(k) /\ UNCHANGED lifecycle
    BY <2>4, EnqueueSends
  <2> QED
    BY <2>1, <2>2, <2>3, <2>4, ChannelSteps
<1> QED
  BY <1>1, <1>2, Invariance, PTL DEF Spec, ImplementsChannel, Channel!Spec

=============================================================================

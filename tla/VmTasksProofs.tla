---------------------------- MODULE VmTasksProofs ----------------------------
(***************************************************************************)
(* Proofs about VmTasks for every set of tasks, every depth of calls and   *)
(* joined lists of every length.                                           *)
(***************************************************************************)
EXTENDS VmTasks, TLAPS, SequenceTheorems, FiniteSetTheorems

IsBody(f) == f.kind = "body"

\* A task is Running exactly while its body is on the stack, in one place.
OnStack ==
  /\ \A i \in 1..Len(stack) : IsBody(stack[i]) => state[stack[i].task] = "Running"
  /\ \A t \in Tasks :
       state[t] = "Running" =>
         \E i \in 1..Len(stack) : IsBody(stack[i]) /\ stack[i].task = t
  /\ \A i, j \in 1..Len(stack) :
       IsBody(stack[i]) /\ IsBody(stack[j]) /\ stack[i].task = stack[j].task => i = j

\* A body that has not begun has not run.
Fresh == \A t \in Tasks : state[t] \in {"absent", "Pending"} => runs[t] = 0

\* A join has nothing but tasks that exist, and has settled those before next.
JoinsProgress ==
  \A i \in 1..Len(stack) : ~IsBody(stack[i]) =>
    \A k \in 1..Len(stack[i].group) :
      /\ state[stack[i].group[k]] # "absent"
      /\ k < stack[i].next => state[stack[i].group[k]] # "Pending"

\* Above a join runs the task it awaits.
AboveJoin ==
  \A i \in 1..Len(stack) - 1 : ~IsBody(stack[i]) =>
    /\ IsBody(stack[i + 1])
    /\ stack[i].next \in 1..Len(stack[i].group)
    /\ stack[i + 1].task = stack[i].group[stack[i].next]

\* An answer for a join comes from a task that has at least begun.
AnswerSettled ==
  Joins /\ answer # "none" =>
    /\ Top.next \in 1..Len(Top.group)
    /\ state[Top.group[Top.next]] \notin {"absent", "Pending"}

IInv ==
  /\ TypeOK
  /\ OnStack
  /\ Fresh
  /\ RunsOnce
  /\ JoinsProgress
  /\ AboveJoin
  /\ AnswerSettled

-----------------------------------------------------------------------------
(***************************************************************************)
(* The stack.                                                              *)
(***************************************************************************)
\* The frames of the stack, by kind.
LEMMA Frames ==
  ASSUME TypeOK
  PROVE  /\ stack \in Seq(Frame) /\ Len(stack) \in Nat
         /\ stack # <<>> => Len(stack) \in 1..Len(stack)
         /\ \A i \in 1..Len(stack) :
              /\ stack[i] \in Frame
              /\ IsBody(stack[i]) => stack[i].task \in Tasks
              /\ ~IsBody(stack[i]) =>
                   /\ stack[i].kind = "join"
                   /\ stack[i].group \in Seq(Tasks)
                   /\ stack[i].next \in Nat \ {0}
                   /\ \A k \in 1..Len(stack[i].group) : stack[i].group[k] \in Tasks
<1>1. stack \in Seq(Frame) /\ Len(stack) \in Nat
  BY LenProperties DEF TypeOK
<1>2. stack # <<>> => Len(stack) \in 1..Len(stack)
  BY <1>1, EmptySeq
<1>3. \A i \in 1..Len(stack) : stack[i] \in Frame
  BY <1>1, ElementOfSeq
<1>4. \A f \in Frame :
        /\ IsBody(f) => f.task \in Tasks
        /\ ~IsBody(f) => f.kind = "join" /\ f.group \in Seq(Tasks) /\ f.next \in Nat \ {0}
  BY DEF Frame, IsBody
<1>5. \A g \in Seq(Tasks) : \A k \in 1..Len(g) : g[k] \in Tasks
  BY ElementOfSeq
<1> QED
  BY <1>1, <1>2, <1>3, <1>4, <1>5

\* The stack without its top.
LEMMA PopFrames ==
  ASSUME TypeOK, stack # <<>>
  PROVE  /\ Below \in Seq(Frame)
         /\ Len(Below) = Len(stack) - 1
         /\ \A i \in 1..Len(Below) : i \in 1..Len(stack) /\ Below[i] = stack[i]
<1> DEFINE n == Len(stack) - 1
<1>1. n \in Nat /\ Len(stack) \in Nat /\ \A i \in 1..n : i \in 1..Len(stack)
  BY Frames
<1>2. \A i \in 1..n : stack[i] \in Frame
  BY <1>1, Frames
<1> HIDE DEF n
<1>3. /\ SubSeq(stack, 1, n) \in Seq(Frame)
      /\ Len(SubSeq(stack, 1, n)) = IF 1 <= n THEN n - 1 + 1 ELSE 0
      /\ \A i \in 1..(n - 1 + 1) : SubSeq(stack, 1, n)[i] = stack[1 + i - 1]
  BY <1>1, <1>2, SubSeqProperties
<1>4. Len(SubSeq(stack, 1, n)) = n /\ n - 1 + 1 = n
  BY <1>1, <1>3
<1>5. \A i \in 1..n : SubSeq(stack, 1, n)[i] = stack[i]
  <2>1. \A i \in 1..n : 1 + i - 1 = i
    BY <1>1
  <2> QED
    BY <1>3, <1>4, <2>1
<1>6. Below = SubSeq(stack, 1, n) /\ n = Len(stack) - 1
  BY DEF Below, n
<1>7. SubSeq(stack, 1, n) \in Seq(Frame)
  BY <1>3
<1> QED
  BY <1>1, <1>4, <1>5, <1>6, <1>7

\* The bodies of a stack are finitely many.
LEMMA BodiesFinite ==
  ASSUME TypeOK
  PROVE  IsFiniteSet(Bodies) /\ Cardinality(Bodies) \in Nat
<1>1. IsFiniteSet(1..Len(stack)) /\ Bodies \in SUBSET (1..Len(stack))
  BY Frames, FS_Interval DEF Bodies
<1> QED
  BY <1>1, FS_Subset, FS_CardinalityType

\* A list that is joined is a sequence of tasks.
LEMMA GroupIsSeq ==
  ASSUME NEW group \in Groups
  PROVE  group \in Seq(Tasks) /\ DOMAIN group = 1..Len(group)
<1>1. group \in Seq(Tasks)
  BY SeqDef, TasksAssumption DEF Groups
<1> QED
  BY <1>1, LenProperties

-----------------------------------------------------------------------------
(***************************************************************************)
(* Steps that leave the stack as it is.                                    *)
(***************************************************************************)
\* A task that does not run may be made, cancelled, or fail before it begins.
LEMMA StateMoves ==
  ASSUME IInv, UNCHANGED <<stack, runs>>,
         state' \in [Tasks -> States], answer' \in {"none", "value", "error"},
         \A t \in Tasks :
           \/ state'[t] = state[t]
           \/ state[t] = "absent" /\ state'[t] = "Pending"
           \/ state[t] = "Pending" /\ state'[t] \in {"Cancelled", "Failed"}
  PROVE  TypeOK' /\ OnStack' /\ Fresh' /\ RunsOnce' /\ JoinsProgress' /\ AboveJoin'
<1> USE DEF IInv
<1>1. \A i \in 1..Len(stack) :
        /\ IsBody(stack[i]) => stack[i].task \in Tasks
        /\ ~IsBody(stack[i]) =>
             \A k \in 1..Len(stack[i].group) : stack[i].group[k] \in Tasks
  BY Frames
<1>2. TypeOK'
  BY DEF TypeOK, Bodies
<1>3. OnStack'
  BY <1>1 DEF OnStack
<1>4. Fresh' /\ RunsOnce'
  BY DEF Fresh, RunsOnce
<1>5. JoinsProgress'
  BY <1>1 DEF JoinsProgress
<1>6. AboveJoin'
  BY DEF AboveJoin
<1> QED
  BY <1>2, <1>3, <1>4, <1>5, <1>6

\* The program makes or cancels a task.
LEMMA MakeCancelKeep ==
  ASSUME IInv, NEW t \in Tasks, Make(t) \/ Cancel(t)
  PROVE  IInv'
<1>1. /\ state \in [Tasks -> States] /\ answer \in {"none", "value", "error"}
      /\ UNCHANGED <<stack, answer, runs>>
  BY DEF IInv, TypeOK, Make, Cancel
<1>2. state' \in [Tasks -> States]
  BY <1>1 DEF Make, Cancel, States, Final
<1>3. \A u \in Tasks :
        \/ state'[u] = state[u]
        \/ state[u] = "absent" /\ state'[u] = "Pending"
        \/ state[u] = "Pending" /\ state'[u] \in {"Cancelled", "Failed"}
  BY <1>1 DEF Make, Cancel
<1>4. TypeOK' /\ OnStack' /\ Fresh' /\ RunsOnce' /\ JoinsProgress' /\ AboveJoin'
  BY <1>1, <1>2, <1>3, StateMoves
<1>5. AnswerSettled'
  BY <1>1 DEF Make, Cancel, ProgramRuns, AnswerSettled, Joins, Top
<1> QED
  BY <1>4, <1>5 DEF IInv

\* What the frame that awaits may assume of the task t it awaits.
Awaits(t) ==
  Joins => Top.next \in 1..Len(Top.group) /\ t = Top.group[Top.next]

\* An await of a task that has begun, or whose body cannot be entered.
LEMMA AwaitAnswersKeep ==
  ASSUME IInv, NEW t \in Tasks, Awaits(t), AwaitSettled(t) \/ AwaitRefused(t)
  PROVE  IInv'
<1>1. state \in [Tasks -> States] /\ UNCHANGED <<stack, runs>>
  BY DEF IInv, TypeOK, AwaitSettled, AwaitRefused
<1>2. /\ state' \in [Tasks -> States]
      /\ state'[t] \notin {"absent", "Pending"}
      /\ \A u \in Tasks :
           \/ state'[u] = state[u]
           \/ state[u] = "Pending" /\ state'[u] \in {"Cancelled", "Failed"}
  BY <1>1 DEF AwaitSettled, AwaitRefused, States, Final
<1>3. answer' \in {"none", "value", "error"}
  BY DEF AwaitSettled, AwaitRefused, Answer
<1>4. TypeOK' /\ OnStack' /\ Fresh' /\ RunsOnce' /\ JoinsProgress' /\ AboveJoin'
  BY <1>1, <1>2, <1>3, StateMoves
<1>5. AnswerSettled'
  BY <1>1, <1>2 DEF AnswerSettled, Joins, Top, Awaits
<1> QED
  BY <1>4, <1>5 DEF IInv

-----------------------------------------------------------------------------
(***************************************************************************)
(* Steps that push a frame.                                                *)
(***************************************************************************)
\* The frames of a stack with one more on top.
LEMMA PushFrame ==
  ASSUME TypeOK, NEW f \in Frame, stack' = Append(stack, f)
  PROVE  /\ stack' \in Seq(Frame)
         /\ Len(stack') = Len(stack) + 1
         /\ \A i \in 1..Len(stack) : i \in 1..Len(stack') /\ stack'[i] = stack[i]
         /\ stack'[Len(stack) + 1] = f
         /\ \A i \in 1..Len(stack') : i \in 1..Len(stack) \/ i = Len(stack) + 1
<1>1. stack \in Seq(Frame) /\ Len(stack) \in Nat
  BY Frames
<1>2. /\ stack' \in Seq(Frame)
      /\ Len(stack') = Len(stack) + 1
      /\ \A i \in 1..Len(stack) : stack'[i] = stack[i]
      /\ stack'[Len(stack) + 1] = f
  BY <1>1, AppendProperties
<1> QED
  BY <1>1, <1>2

\* A pending task begins, on top of whoever awaits it.
LEMMA AwaitBeginsKeeps ==
  ASSUME IInv, NEW t \in Tasks, Awaits(t), AwaitBegins(t)
  PROVE  IInv'
<1> USE DEF IInv
<1> DEFINE n == Len(stack)
<1>1. /\ state[t] = "Pending" /\ Cardinality(Bodies) < MaxDepth
      /\ state' = [state EXCEPT ![t] = "Running"]
      /\ stack' = Append(stack, Body(t))
      /\ runs' = [runs EXCEPT ![t] = @ + 1]
      /\ answer' = "none"
  BY DEF AwaitBegins
<1>2. /\ state \in [Tasks -> States] /\ runs \in [Tasks -> Nat]
      /\ n \in Nat
  BY Frames DEF TypeOK
<1>3. Body(t) \in Frame /\ IsBody(Body(t)) /\ Body(t).task = t
  BY DEF Frame, Body, IsBody
<1>4. /\ stack' \in Seq(Frame)
      /\ Len(stack') = n + 1
      /\ \A i \in 1..n : i \in 1..Len(stack') /\ stack'[i] = stack[i]
      /\ stack'[n + 1] = Body(t)
      /\ \A i \in 1..Len(stack') : i \in 1..n \/ i = n + 1
  BY <1>1, <1>3, PushFrame
<1>5. n + 1 \in 1..Len(stack')
  BY <1>2, <1>4
<1>6. /\ state' \in [Tasks -> States]
      /\ state'[t] = "Running"
      /\ \A u \in Tasks : u # t => state'[u] = state[u]
      /\ runs' \in [Tasks -> Nat] /\ runs'[t] = runs[t] + 1
      /\ \A u \in Tasks : u # t => runs'[u] = runs[u]
  BY <1>1, <1>2 DEF States
<1>7. \A i \in 1..n :
        /\ IsBody(stack[i]) => stack[i].task \in Tasks \ {t}
        /\ ~IsBody(stack[i]) =>
             \A k \in 1..Len(stack[i].group) : stack[i].group[k] \in Tasks
  BY <1>1, Frames DEF OnStack
<1>8. TypeOK'
  <2>1. Bodies' \subseteq Bodies \cup {n + 1}
    BY <1>4 DEF Bodies
  <2>2. IsFiniteSet(Bodies \cup {n + 1})
        /\ Cardinality(Bodies \cup {n + 1}) <= Cardinality(Bodies) + 1
    <3>1. IsFiniteSet(Bodies) /\ Cardinality(Bodies) \in Nat
      BY BodiesFinite
    <3>2. /\ IsFiniteSet(Bodies \cup {n + 1})
          /\ Cardinality(Bodies \cup {n + 1})
               = IF n + 1 \in Bodies THEN Cardinality(Bodies) ELSE Cardinality(Bodies) + 1
      BY <3>1, FS_AddElement, Zenon
    <3> QED
      BY <3>1, <3>2
  <2>3. Cardinality(Bodies') <= Cardinality(Bodies \cup {n + 1})
        /\ Cardinality(Bodies') \in Nat /\ Cardinality(Bodies \cup {n + 1}) \in Nat
    BY <2>1, <2>2, FS_Subset, FS_CardinalityType
  <2>4. Cardinality(Bodies') <= MaxDepth
    BY <1>1, <2>2, <2>3, BodiesFinite, TasksAssumption
  <2> QED
    BY <1>1, <1>4, <1>6, <2>4 DEF TypeOK
<1>9. OnStack'
  <2>1. \A i \in 1..Len(stack') :
          IsBody(stack'[i]) => state'[stack'[i].task] = "Running"
    BY <1>3, <1>4, <1>6, <1>7 DEF OnStack
  <2>2. \A u \in Tasks :
          state'[u] = "Running" =>
            \E i \in 1..Len(stack') : IsBody(stack'[i]) /\ stack'[i].task = u
    BY <1>3, <1>4, <1>5, <1>6 DEF OnStack
  <2>3. \A i, j \in 1..Len(stack') :
          IsBody(stack'[i]) /\ IsBody(stack'[j]) /\ stack'[i].task = stack'[j].task
            => i = j
    BY <1>3, <1>4, <1>7 DEF OnStack
  <2> QED
    BY <2>1, <2>2, <2>3 DEF OnStack
<1>10. Fresh' /\ RunsOnce'
  BY <1>1, <1>2, <1>6 DEF Fresh, RunsOnce
<1>11. JoinsProgress'
  <2> SUFFICES ASSUME NEW i \in 1..Len(stack'), ~IsBody(stack'[i]),
                      NEW k \in 1..Len(stack'[i].group)
               PROVE  /\ state'[stack'[i].group[k]] # "absent"
                      /\ k < stack'[i].next => state'[stack'[i].group[k]] # "Pending"
    BY DEF JoinsProgress
  <2>1. i \in 1..n /\ stack'[i] = stack[i]
    BY <1>3, <1>4
  <2>2. stack[i].group[k] \in Tasks
    BY <1>7, <2>1
  <2>3. /\ state[stack[i].group[k]] # "absent"
        /\ k < stack[i].next => state[stack[i].group[k]] # "Pending"
    BY <2>1 DEF JoinsProgress
  <2>4. state'[stack[i].group[k]] \in {state[stack[i].group[k]], "Running"}
    BY <1>6, <2>2
  <2> QED
    BY <2>1, <2>3, <2>4
<1>12. AboveJoin'
  <2> SUFFICES ASSUME NEW i \in 1..Len(stack') - 1, ~IsBody(stack'[i])
               PROVE  /\ IsBody(stack'[i + 1])
                      /\ stack'[i].next \in 1..Len(stack'[i].group)
                      /\ stack'[i + 1].task = stack'[i].group[stack'[i].next]
    BY DEF AboveJoin
  <2>1. i \in 1..n /\ stack'[i] = stack[i]
    BY <1>2, <1>4
  <2>2. CASE i = n
    <3>1. Joins /\ Top = stack[n]
      BY <2>1, <2>2, Frames, EmptySeq, <1>2 DEF Joins, Top
    <3> QED
      BY <1>3, <1>4, <2>1, <2>2, <3>1 DEF Awaits
  <2>3. CASE i # n
    <3>1. i \in 1..n - 1 /\ i + 1 \in 1..n
      BY <1>2, <2>1, <2>3
    <3> QED
      BY <1>4, <2>1, <3>1 DEF AboveJoin
  <2> QED
    BY <2>2, <2>3
<1>13. AnswerSettled'
  BY <1>1 DEF AnswerSettled
<1> QED
  BY <1>8, <1>9, <1>10, <1>11, <1>12, <1>13

\* A program joins a list of tasks.
LEMMA JoinKeeps ==
  ASSUME IInv, NEW group \in Groups, Join(group)
  PROVE  IInv'
<1> USE DEF IInv
<1> DEFINE n == Len(stack)
<1>1. /\ ProgramRuns
      /\ \A i \in DOMAIN group : state[group[i]] # "absent"
      /\ stack' = Append(stack, JoinOf(group))
      /\ answer' = "none"
      /\ UNCHANGED <<state, runs>>
  BY DEF Join
<1>2. group \in Seq(Tasks) /\ DOMAIN group = 1..Len(group) /\ n \in Nat
  BY GroupIsSeq, Frames
<1>3. /\ JoinOf(group) \in Frame /\ ~IsBody(JoinOf(group))
      /\ JoinOf(group).group = group /\ JoinOf(group).next = 1
  BY <1>2 DEF Frame, JoinOf, IsBody
<1>4. /\ stack' \in Seq(Frame)
      /\ Len(stack') = n + 1
      /\ \A i \in 1..n : i \in 1..Len(stack') /\ stack'[i] = stack[i]
      /\ stack'[n + 1] = JoinOf(group)
      /\ \A i \in 1..Len(stack') : i \in 1..n \/ i = n + 1
  BY <1>1, <1>3, PushFrame
<1>5. TypeOK'
  <2>1. Bodies' = Bodies
    BY <1>3, <1>4 DEF Bodies, IsBody
  <2> QED
    BY <1>1, <1>4, <2>1 DEF TypeOK
<1>6. OnStack'
  <2>1. \A i \in 1..Len(stack') : IsBody(stack'[i]) => i \in 1..n /\ stack'[i] = stack[i]
    BY <1>3, <1>4
  <2> QED
    BY <1>1, <1>4, <2>1 DEF OnStack
<1>7. Fresh' /\ RunsOnce' /\ AnswerSettled'
  BY <1>1 DEF Fresh, RunsOnce, AnswerSettled
<1>8. JoinsProgress'
  <2>1. \A k \in 1..Len(group) : k \in Nat /\ ~(k < 1) /\ state[group[k]] # "absent"
    BY <1>1, <1>2
  <2> QED
    BY <1>1, <1>3, <1>4, <2>1 DEF JoinsProgress
<1>9. AboveJoin'
  <2> SUFFICES ASSUME NEW i \in 1..Len(stack') - 1, ~IsBody(stack'[i])
               PROVE  /\ IsBody(stack'[i + 1])
                      /\ stack'[i].next \in 1..Len(stack'[i].group)
                      /\ stack'[i + 1].task = stack'[i].group[stack'[i].next]
    BY DEF AboveJoin
  <2>1. i \in 1..n /\ stack'[i] = stack[i]
    BY <1>2, <1>4
  <2>2. i # n
    BY <1>1, <1>2, <2>1, EmptySeq DEF ProgramRuns, Top, IsBody
  <2>3. i \in 1..n - 1 /\ i + 1 \in 1..n
    BY <1>2, <2>1, <2>2
  <2> QED
    BY <1>4, <2>1, <2>3 DEF AboveJoin
<1> QED
  BY <1>5, <1>6, <1>7, <1>8, <1>9

-----------------------------------------------------------------------------
(***************************************************************************)
(* Steps that take the top frame away.                                     *)
(***************************************************************************)
\* The top goes: a body leaves its task settled, a join may cancel what has
\* not begun.  A join that is on top afterwards awaited the body that went.
LEMMA PopKeeps ==
  ASSUME IInv, stack # <<>>, stack' = Below, UNCHANGED runs,
         state' \in [Tasks -> States], answer' \in {"none", "value", "error"},
         \A t \in Tasks :
           IF IsBody(Top) /\ Top.task = t THEN state'[t] \in {"Completed", "Failed"}
           ELSE \/ state'[t] = state[t]
                \/ state[t] = "Pending" /\ state'[t] = "Cancelled"
  PROVE  /\ TypeOK' /\ OnStack' /\ Fresh' /\ RunsOnce' /\ JoinsProgress' /\ AboveJoin'
         /\ ~IsBody(Top) => ~Joins'
         /\ IsBody(Top) => AnswerSettled'
<1> USE DEF IInv
<1> DEFINE n == Len(stack)
<1>1. /\ n \in Nat /\ n \in 1..n /\ Top = stack[n]
      /\ state \in [Tasks -> States] /\ runs \in [Tasks -> Nat]
  BY Frames DEF TypeOK, Top
<1>2. /\ stack' \in Seq(Frame)
      /\ Len(stack') = n - 1
      /\ \A i \in 1..n - 1 : i \in 1..n /\ stack'[i] = stack[i] /\ i # n
  BY <1>1, PopFrames
<1>3. \A i \in 1..n :
        /\ IsBody(stack[i]) => stack[i].task \in Tasks
        /\ ~IsBody(stack[i]) =>
             \A k \in 1..Len(stack[i].group) : stack[i].group[k] \in Tasks
  BY Frames
<1>4. IsBody(Top) => Top.task \in Tasks /\ state[Top.task] = "Running"
                     /\ state'[Top.task] \in {"Completed", "Failed"}
  BY <1>1, <1>3 DEF OnStack
<1>5. \A t \in Tasks :
        \/ state'[t] = state[t]
        \/ state[t] = "Pending" /\ state'[t] = "Cancelled"
        \/ state[t] = "Running" /\ state'[t] \in {"Completed", "Failed"}
  BY <1>4
<1> HIDE DEF n
<1>6. TypeOK'
  <2>1. Bodies' \subseteq Bodies
    BY <1>2 DEF Bodies, n
  <2>2. IsFiniteSet(Bodies) /\ Cardinality(Bodies) \in Nat
    BY BodiesFinite
  <2>3. Cardinality(Bodies') <= Cardinality(Bodies) /\ Cardinality(Bodies') \in Nat
    BY <2>1, <2>2, FS_Subset, FS_CardinalityType
  <2>4. Cardinality(Bodies) <= MaxDepth
    BY DEF TypeOK
  <2>5. Cardinality(Bodies') <= MaxDepth
    BY <2>2, <2>3, <2>4, TasksAssumption
  <2> QED
    BY <1>1, <1>2, <2>5 DEF TypeOK
<1>7. OnStack'
  <2>1. ASSUME NEW i \in 1..n - 1, IsBody(stack'[i])
        PROVE  state'[stack'[i].task] = "Running"
    <3>1. i \in 1..n /\ stack'[i] = stack[i] /\ i # n /\ stack[i].task \in Tasks
      BY <1>2, <1>3, <2>1
    <3>2. state[stack[i].task] = "Running"
      BY <2>1, <3>1 DEF OnStack, n
    <3>3. ~(IsBody(Top) /\ Top.task = stack[i].task)
      BY <1>1, <2>1, <3>1 DEF OnStack, n
    <3> QED
      BY <3>1, <3>2, <3>3
  <2>2. ASSUME NEW t \in Tasks, state'[t] = "Running"
        PROVE  \E i \in 1..n - 1 : IsBody(stack'[i]) /\ stack'[i].task = t
    <3>1. state[t] = "Running" /\ ~(IsBody(Top) /\ Top.task = t)
      BY <1>5, <2>2
    <3>2. PICK i \in 1..n : IsBody(stack[i]) /\ stack[i].task = t
      BY <3>1 DEF OnStack, n
    <3>3. i \in 1..n - 1
      BY <1>1, <3>1, <3>2
    <3> QED
      BY <1>2, <3>2, <3>3
  <2>3. \A i, j \in 1..n - 1 :
          IsBody(stack'[i]) /\ IsBody(stack'[j]) /\ stack'[i].task = stack'[j].task
            => i = j
    BY <1>2 DEF OnStack, n
  <2> QED
    BY <1>2, <2>1, <2>2, <2>3 DEF OnStack
<1>8. Fresh' /\ RunsOnce'
  BY <1>1, <1>5 DEF Fresh, RunsOnce
<1>9. JoinsProgress'
  <2> SUFFICES ASSUME NEW i \in 1..n - 1, ~IsBody(stack'[i]),
                      NEW k \in 1..Len(stack'[i].group)
               PROVE  /\ state'[stack'[i].group[k]] # "absent"
                      /\ k < stack'[i].next => state'[stack'[i].group[k]] # "Pending"
    BY <1>2 DEF JoinsProgress
  <2>1. i \in 1..n /\ stack'[i] = stack[i]
    BY <1>2
  <2>2. stack[i].group[k] \in Tasks
    BY <1>3, <2>1
  <2>3. /\ state[stack[i].group[k]] # "absent"
        /\ k < stack[i].next => state[stack[i].group[k]] # "Pending"
    BY <2>1 DEF JoinsProgress, n
  <2> QED
    BY <1>5, <2>1, <2>2, <2>3
<1>10. \A i \in 1..n - 1 : ~IsBody(stack[i]) =>
         /\ IsBody(stack[i + 1])
         /\ stack[i].next \in 1..Len(stack[i].group)
         /\ stack[i + 1].task = stack[i].group[stack[i].next]
  BY DEF AboveJoin, n
<1>11. AboveJoin'
  <2>1. \A i \in 1..(n - 1) - 1 : i \in 1..n - 1 /\ i + 1 \in 1..n - 1
    BY <1>1
  <2> QED
    BY <1>2, <1>10, <2>1 DEF AboveJoin
<1>12. Joins' => /\ n - 1 \in 1..n - 1 /\ ~IsBody(stack[n - 1])
                 /\ Top' = stack[n - 1] /\ IsBody(Top)
                 /\ Top'.next \in 1..Len(Top'.group)
                 /\ Top.task = Top'.group[Top'.next]
  <2> SUFFICES ASSUME Joins'
               PROVE  /\ n - 1 \in 1..n - 1 /\ ~IsBody(stack[n - 1])
                      /\ Top' = stack[n - 1] /\ IsBody(Top)
                      /\ Top'.next \in 1..Len(Top'.group)
                      /\ Top.task = Top'.group[Top'.next]
    OBVIOUS
  <2>1. stack' # <<>> /\ Top' = stack'[n - 1] /\ Top'.kind = "join"
    BY <1>2 DEF Joins, Top
  <2>2. n - 1 \in 1..n - 1
    BY <1>1, <1>2, <2>1, EmptySeq
  <2>3. Top' = stack[n - 1] /\ ~IsBody(stack[n - 1]) /\ (n - 1) + 1 = n
    BY <1>1, <1>2, <2>1, <2>2 DEF IsBody
  <2>4. /\ IsBody(stack[n])
        /\ stack[n - 1].next \in 1..Len(stack[n - 1].group)
        /\ stack[n].task = stack[n - 1].group[stack[n - 1].next]
    BY <1>10, <2>2, <2>3
  <2> QED
    BY <1>1, <2>2, <2>3, <2>4
<1>13. IsBody(Top) => AnswerSettled'
  BY <1>4, <1>12 DEF AnswerSettled
<1> QED
  BY <1>6, <1>7, <1>8, <1>9, <1>11, <1>12, <1>13

\* The body on top ends.
LEMMA BodyEndsKeeps ==
  ASSUME IInv, NEW outcome \in {"value", "error"}, BodyEnds(outcome)
  PROVE  IInv'
<1>1. /\ stack # <<>> /\ IsBody(Top) /\ stack' = Below /\ UNCHANGED runs
      /\ state \in [Tasks -> States] /\ answer' \in {"none", "value", "error"}
      /\ Top.task \in Tasks
  BY Frames DEF IInv, TypeOK, BodyEnds, IsBody, Answer, Top
<1>2. /\ state' \in [Tasks -> States]
      /\ \A t \in Tasks :
           IF IsBody(Top) /\ Top.task = t THEN state'[t] \in {"Completed", "Failed"}
           ELSE state'[t] = state[t]
  BY <1>1 DEF BodyEnds, States, Final
<1>3. /\ TypeOK' /\ OnStack' /\ Fresh' /\ RunsOnce' /\ JoinsProgress' /\ AboveJoin'
      /\ AnswerSettled'
  BY <1>1, <1>2, PopKeeps
<1> QED
  BY <1>3 DEF IInv

\* What a join that fails does to its group: the rest is cancelled if it has
\* not begun, and nothing else changes.
LEMMA CancelRestSettles ==
  ASSUME IInv, Joins, CancelRest(Top.group, Top.next)
  PROVE  /\ state' \in [Tasks -> States]
         /\ \A t \in Tasks :
              state'[t] = state[t] \/ (state[t] = "Pending" /\ state'[t] = "Cancelled")
         /\ \A k \in 1..Len(Top.group) :
              k > Top.next => state'[Top.group[k]] # "Pending"
<1>1. /\ state \in [Tasks -> States]
      /\ Top.group \in Seq(Tasks)
      /\ \A k \in 1..Len(Top.group) : Top.group[k] \in Tasks
  BY Frames DEF IInv, TypeOK, Joins, Top, IsBody
<1>2. DOMAIN Top.group = 1..Len(Top.group)
  BY <1>1, LenProperties
<1>3. state' = [t \in Tasks |->
                  IF /\ t \in {Top.group[i] : i \in {j \in DOMAIN Top.group : j > Top.next}}
                     /\ state[t] = "Pending"
                  THEN "Cancelled" ELSE state[t]]
  BY DEF CancelRest
<1>4. state' \in [Tasks -> States]
  BY <1>1, <1>3 DEF States, Final
<1>5. \A t \in Tasks :
        state'[t] = state[t] \/ (state[t] = "Pending" /\ state'[t] = "Cancelled")
  BY <1>3
<1>6. ASSUME NEW k \in 1..Len(Top.group), k > Top.next
      PROVE  state'[Top.group[k]] # "Pending"
  BY <1>1, <1>2, <1>3, <1>6
<1> QED
  BY <1>4, <1>5, <1>6

\* A join ends, with an error or a value.
LEMMA JoinEndsKeeps ==
  ASSUME IInv, JoinFails \/ JoinReturns
  PROVE  IInv'
<1>1. /\ Joins /\ stack # <<>> /\ ~IsBody(Top) /\ stack' = Below /\ UNCHANGED runs
      /\ answer' \in {"none", "value", "error"}
  BY DEF JoinFails, JoinReturns, Joins, IsBody, Answer
<1>2. /\ state' \in [Tasks -> States]
      /\ \A t \in Tasks :
           state'[t] = state[t] \/ (state[t] = "Pending" /\ state'[t] = "Cancelled")
  <2>1. CASE JoinFails
    BY <1>1, <2>1, CancelRestSettles DEF JoinFails
  <2>2. CASE JoinReturns
    BY <2>2 DEF JoinReturns, IInv, TypeOK
  <2> QED
    BY <2>1, <2>2
<1>3. /\ TypeOK' /\ OnStack' /\ Fresh' /\ RunsOnce' /\ JoinsProgress' /\ AboveJoin'
      /\ ~Joins'
  BY <1>1, <1>2, PopKeeps
<1> QED
  BY <1>3 DEF IInv, AnswerSettled

\* A join goes on to its next task, the one before having been settled.
LEMMA JoinAdvancesKeeps ==
  ASSUME IInv, JoinAdvances
  PROVE  IInv'
<1> USE DEF IInv
<1> DEFINE n == Len(stack)
           f == [Top EXCEPT !.next = @ + 1]
<1>1. /\ Joins /\ stack # <<>> /\ Top = stack[n]
      /\ stack' = Append(Below, f)
      /\ answer' = "none"
      /\ UNCHANGED <<state, runs>>
      /\ Top.next \in 1..Len(Top.group)
      /\ state[Top.group[Top.next]] # "Pending"
  BY DEF JoinAdvances, Joins, Top, AnswerSettled
<1>2. /\ n \in Nat /\ n \in 1..n
      /\ stack[n] \in Frame /\ ~IsBody(stack[n]) /\ Top.next \in Nat \ {0}
  BY <1>1, Frames DEF Joins, IsBody
<1>3. f \in Frame /\ ~IsBody(f) /\ f.group = Top.group /\ f.next = Top.next + 1
  BY <1>1, <1>2 DEF Frame, IsBody
<1> HIDE DEF f, n
<1>4. /\ Below \in Seq(Frame) /\ Len(Below) = n - 1
      /\ \A i \in 1..n - 1 : i \in 1..n /\ Below[i] = stack[i]
  BY <1>1, PopFrames DEF n
<1>5. /\ stack' \in Seq(Frame)
      /\ Len(stack') = n - 1 + 1
      /\ \A i \in 1..n - 1 : stack'[i] = Below[i]
      /\ stack'[n - 1 + 1] = f
  BY <1>1, <1>3, <1>4, AppendProperties
<1>6. /\ Len(stack') = n /\ stack'[n] = f
      /\ \A i \in 1..n : i # n => i \in 1..n - 1 /\ stack'[i] = stack[i]
  BY <1>2, <1>4, <1>5
<1>7. \A i \in 1..n : /\ IsBody(stack'[i]) <=> IsBody(stack[i])
                      /\ IsBody(stack[i]) => stack'[i] = stack[i]
  BY <1>2, <1>3, <1>6
<1>8. TypeOK'
  <2>1. Bodies' = Bodies
    BY <1>6, <1>7 DEF Bodies, IsBody, n
  <2> QED
    BY <1>1, <1>5, <2>1 DEF TypeOK
<1>9. OnStack'
  BY <1>1, <1>6, <1>7 DEF OnStack, n
<1>10. Fresh' /\ RunsOnce' /\ AnswerSettled'
  BY <1>1 DEF Fresh, RunsOnce, AnswerSettled
<1>11. JoinsProgress'
  <2> SUFFICES ASSUME NEW i \in 1..n, ~IsBody(stack'[i]),
                      NEW k \in 1..Len(stack'[i].group)
               PROVE  /\ state[stack'[i].group[k]] # "absent"
                      /\ k < stack'[i].next => state[stack'[i].group[k]] # "Pending"
    BY <1>1, <1>6 DEF JoinsProgress
  <2>1. CASE i = n
    <3>1. k \in 1..Len(Top.group) /\ stack'[i].group = Top.group
          /\ stack'[i].next = Top.next + 1
      BY <1>3, <1>6, <2>1
    <3>2. /\ state[Top.group[k]] # "absent"
          /\ k < Top.next => state[Top.group[k]] # "Pending"
      BY <1>1, <1>2, <3>1 DEF JoinsProgress, n
    <3>3. k < Top.next + 1 => k < Top.next \/ k = Top.next
      BY <1>2
    <3> QED
      BY <1>1, <3>1, <3>2, <3>3
  <2>2. CASE i # n
    BY <1>6, <1>7, <2>2 DEF JoinsProgress, n
  <2> QED
    BY <2>1, <2>2
<1>12. AboveJoin'
  <2> SUFFICES ASSUME NEW i \in 1..n - 1, ~IsBody(stack'[i])
               PROVE  /\ IsBody(stack'[i + 1])
                      /\ stack'[i].next \in 1..Len(stack'[i].group)
                      /\ stack'[i + 1].task = stack'[i].group[stack'[i].next]
    BY <1>6 DEF AboveJoin
  <2>1. i \in 1..n /\ i + 1 \in 1..n /\ i # n
    BY <1>2
  <2>2. stack'[i] = stack[i]
    BY <1>6, <2>1
  <2>3. /\ IsBody(stack[i + 1])
        /\ stack[i].next \in 1..Len(stack[i].group)
        /\ stack[i + 1].task = stack[i].group[stack[i].next]
    BY <2>2 DEF AboveJoin, n
  <2> QED
    BY <1>7, <2>1, <2>2, <2>3
<1> QED
  BY <1>8, <1>9, <1>10, <1>11, <1>12

-----------------------------------------------------------------------------
(***************************************************************************)
(* The theorems.                                                           *)
(***************************************************************************)
\* At first nothing is on the stack.
LEMMA InitHolds == Init => IInv
<1> SUFFICES ASSUME Init
             PROVE  IInv
  OBVIOUS
<1>1. /\ state = [t \in Tasks |-> "absent"] /\ stack = <<>>
      /\ answer = "none" /\ runs = [t \in Tasks |-> 0]
  BY DEF Init
<1>2. stack \in Seq(Frame) /\ Len(stack) = 0 /\ 1..Len(stack) = {}
  BY <1>1, EmptySeq
<1>3. Bodies = {} /\ Cardinality(Bodies) = 0
  BY <1>2, FS_EmptySet DEF Bodies
<1>4. TypeOK
  BY <1>1, <1>2, <1>3, TasksAssumption DEF TypeOK, States
<1>5. OnStack /\ Fresh /\ RunsOnce
  BY <1>1, <1>2 DEF OnStack, Fresh, RunsOnce
<1>6. JoinsProgress /\ AboveJoin /\ AnswerSettled
  BY <1>1, <1>2 DEF JoinsProgress, AboveJoin, AnswerSettled
<1> QED
  BY <1>4, <1>5, <1>6 DEF IInv

\* Every await, of a program or of a join, keeps the invariant.
LEMMA AwaitKeeps ==
  ASSUME IInv, NEW t \in Tasks, Awaits(t), AwaitTask(t)
  PROVE  IInv'
<1>1. CASE AwaitSettled(t) \/ AwaitRefused(t)
  BY <1>1, AwaitAnswersKeep
<1>2. CASE AwaitBegins(t)
  BY <1>2, AwaitBeginsKeeps
<1> QED
  BY <1>1, <1>2 DEF AwaitTask

\* Every step keeps the invariant.
LEMMA NextHolds == IInv /\ [Next]_vars => IInv'
<1> SUFFICES ASSUME IInv, [Next]_vars
             PROVE  IInv'
  OBVIOUS
<1>1. ASSUME NEW t \in Tasks, Make(t) \/ Cancel(t)
      PROVE  IInv'
  BY <1>1, MakeCancelKeep
<1>2. ASSUME NEW t \in Tasks, Await(t)
      PROVE  IInv'
  <2>1. Awaits(t) /\ AwaitTask(t)
    BY <1>2 DEF Await, Awaits, ProgramRuns, Joins
  <2> QED
    BY <2>1, AwaitKeeps
<1>3. ASSUME NEW outcome \in {"value", "error"}, BodyEnds(outcome)
      PROVE  IInv'
  BY <1>3, BodyEndsKeeps
<1>4. ASSUME NEW group \in Groups, Join(group)
      PROVE  IInv'
  BY <1>4, JoinKeeps
<1>5. ASSUME JoinAwaits
      PROVE  IInv'
  <2>1. /\ Joins /\ Top.next <= Len(Top.group)
        /\ AwaitTask(Top.group[Top.next])
    BY <1>5 DEF JoinAwaits
  <2>2. /\ Top.next \in Nat \ {0} /\ Top.group \in Seq(Tasks)
        /\ \A k \in 1..Len(Top.group) : Top.group[k] \in Tasks
    BY <2>1, Frames DEF IInv, Joins, Top, IsBody
  <2>3. Top.next \in 1..Len(Top.group)
    BY <2>1, <2>2, LenProperties
  <2>4. Top.group[Top.next] \in Tasks /\ Awaits(Top.group[Top.next])
    BY <2>2, <2>3 DEF Awaits
  <2> QED
    BY <2>1, <2>4, AwaitKeeps
<1>6. ASSUME JoinAdvances
      PROVE  IInv'
  BY <1>6, JoinAdvancesKeeps
<1>7. ASSUME JoinFails \/ JoinReturns
      PROVE  IInv'
  BY <1>7, JoinEndsKeeps
<1>8. CASE UNCHANGED vars
  BY <1>8 DEF vars, IInv, TypeOK, Bodies, OnStack, Fresh, RunsOnce, JoinsProgress,
              AboveJoin, AnswerSettled, Joins, Top
<1> QED
  BY <1>1, <1>2, <1>3, <1>4, <1>5, <1>6, <1>7, <1>8 DEF Next

\* The inductive invariant holds for every set of tasks and every depth.
THEOREM Invariance == Spec => []IInv
<1> QED
  BY InitHolds, NextHolds, PTL DEF Spec

\* Every state is well typed, and the bodies nest no deeper than calls may.
THEOREM TypeCorrect == Spec => []TypeOK
<1>1. IInv => TypeOK
  BY DEF IInv
<1> QED
  BY <1>1, Invariance, PTL

\* A body runs at most once and a cancelled task never ran: an await of a task
\* that has begun never enters its body again.
THEOREM BodiesRunOnce == Spec => []RunsOnce
<1>1. IInv => RunsOnce
  BY DEF IInv
<1> QED
  BY <1>1, Invariance, PTL

\* A task is Running exactly while its body is on the stack, once.
THEOREM RunningRuns == Spec => []RunningIsOnStack
<1>1. ASSUME IInv, NEW t \in Tasks
      PROVE  LET places == {i \in Bodies : stack[i].task = t}
             IN  Cardinality(places) = IF state[t] = "Running" THEN 1 ELSE 0
  <2> DEFINE places == {i \in Bodies : stack[i].task = t}
  <2>1. CASE state[t] = "Running"
    <3>1. PICK i \in 1..Len(stack) : IsBody(stack[i]) /\ stack[i].task = t
      BY <1>1, <2>1 DEF IInv, OnStack
    <3>2. places = {i}
      BY <1>1, <3>1 DEF IInv, OnStack, Bodies, IsBody
    <3> QED
      BY <2>1, <3>2, FS_Singleton
  <2>2. CASE state[t] # "Running"
    <3>1. places = {}
      BY <1>1, <2>2 DEF IInv, OnStack, Bodies, IsBody
    <3> QED
      BY <2>2, <3>1, FS_EmptySet
  <2> QED
    BY <2>1, <2>2
<1>2. IInv => RunningIsOnStack
  BY <1>1 DEF RunningIsOnStack
<1> QED
  BY <1>2, Invariance, PTL

\* The body of a task and its state agree in every behaviour.
THEOREM BodiesAndStatesAgree == Spec => []BodiesAgree
  BY RunningRuns, BodiesRunOnce, PTL DEF BodiesAgree

\* What a step does to a task: a final state stays, and only a pending task is
\* cancelled.
LEMMA StepIsFinal ==
  ASSUME IInv, Next
  PROVE  FinalStays
<1> USE DEF IInv
<1>1. state \in [Tasks -> States]
  BY DEF TypeOK
<1>2. ASSUME NEW t \in Tasks, Make(t) \/ Cancel(t)
      PROVE  FinalStays
  BY <1>1, <1>2 DEF Make, Cancel, FinalStays, Final
<1>3. ASSUME NEW t \in Tasks, AwaitTask(t)
      PROVE  FinalStays
  BY <1>1, <1>3
     DEF AwaitTask, AwaitSettled, AwaitBegins, AwaitRefused, FinalStays, Final
<1>4. ASSUME NEW outcome \in {"value", "error"}, BodyEnds(outcome)
      PROVE  FinalStays
  <2>1. Top.task \in Tasks /\ state[Top.task] = "Running"
    BY <1>4, Frames DEF BodyEnds, OnStack, Top, IsBody
  <2> QED
    BY <1>1, <1>4, <2>1 DEF BodyEnds, FinalStays, Final
<1>5. ASSUME JoinFails
      PROVE  FinalStays
  BY <1>1, <1>5, CancelRestSettles DEF JoinFails, FinalStays, Final
<1>6. ASSUME UNCHANGED state
      PROVE  FinalStays
  BY <1>1, <1>6 DEF FinalStays, Final
<1>7. ASSUME JoinAwaits
      PROVE  FinalStays
  <2>1. /\ Joins /\ Top.next <= Len(Top.group)
        /\ AwaitTask(Top.group[Top.next])
    BY <1>7 DEF JoinAwaits
  <2>2. /\ Top.next \in Nat \ {0} /\ Top.group \in Seq(Tasks)
        /\ \A k \in 1..Len(Top.group) : Top.group[k] \in Tasks
    BY <2>1, Frames DEF Joins, Top, IsBody
  <2>3. Top.group[Top.next] \in Tasks
    BY <2>1, <2>2, LenProperties
  <2> QED
    BY <1>3, <2>1, <2>3
<1> QED
  BY <1>2, <1>3, <1>4, <1>5, <1>6, <1>7 DEF Next, Await, Join, JoinAdvances, JoinReturns

\* What an await has answered once, it answers for ever.
THEOREM AnswersAreFinal == Spec => FinalIsFinal
<1>1. ASSUME IInv, [Next]_vars
      PROVE  [FinalStays]_vars
  BY <1>1, StepIsFinal
<1> QED
  BY <1>1, Invariance, PTL DEF Spec, FinalIsFinal

\* A step that ends a join leaves none of its tasks waiting to begin.
LEMMA StepSettles ==
  ASSUME IInv, Next
  PROVE  LeavesNonePending
<1> SUFFICES ASSUME Joins, Len(stack') < Len(stack),
                    NEW k \in 1..Len(Top.group)
             PROVE  state'[Top.group[k]] # "Pending"
  <2>1. Joins => DOMAIN Top.group = 1..Len(Top.group)
    BY Frames, LenProperties DEF IInv, Joins, Top, IsBody
  <2> QED
    BY <2>1 DEF LeavesNonePending
<1>1. /\ Len(stack) \in Nat /\ Top \in Frame
      /\ Top.group[k] \in Tasks
      /\ Top.next \in Nat \ {0}
      /\ k < Top.next => state[Top.group[k]] # "Pending"
      /\ Len(Top.group) \in Nat
  BY Frames, LenProperties DEF IInv, Joins, Top, IsBody, JoinsProgress
<1>2. JoinFails \/ JoinReturns
  <2>1. ASSUME UNCHANGED stack
        PROVE  FALSE
    BY <1>1, <2>1
  <2>2. ASSUME NEW t, AwaitBegins(t)
        PROVE  FALSE
    BY <1>1, <2>2, AppendProperties, Frames DEF AwaitBegins, IInv
  <2>3. ~JoinAdvances
    <3>1. SUFFICES ASSUME JoinAdvances
                   PROVE  FALSE
      OBVIOUS
    <3>2. Len(stack') = Len(Below) + 1 /\ Len(Below) = Len(stack) - 1
      BY <3>1, PopFrames, AppendProperties DEF JoinAdvances, IInv, Joins
    <3> QED
      BY <1>1, <3>2
  <2> QED
    BY <2>1, <2>2, <2>3
       DEF Next, Make, Cancel, Await, AwaitTask, AwaitSettled, AwaitRefused,
           BodyEnds, Join, JoinAwaits, ProgramRuns, Joins
<1>3. CASE JoinReturns
  BY <1>1, <1>3 DEF JoinReturns
<1>4. CASE JoinFails
  <2>1. /\ \A t \in Tasks :
             state'[t] = state[t] \/ (state[t] = "Pending" /\ state'[t] = "Cancelled")
        /\ k > Top.next => state'[Top.group[k]] # "Pending"
    BY <1>4, CancelRestSettles DEF JoinFails
  <2>2. k = Top.next => state[Top.group[k]] # "Pending"
    BY <1>4 DEF IInv, AnswerSettled, JoinFails
  <2>3. k < Top.next \/ k = Top.next \/ k > Top.next
    BY <1>1
  <2> QED
    BY <1>1, <2>1, <2>2, <2>3
<1> QED
  BY <1>2, <1>3, <1>4

\* When a join is over, none of its tasks is still waiting to begin.
THEOREM JoinSettlesGroup == Spec => GroupSettles
<1>1. ASSUME IInv, [Next]_vars
      PROVE  [LeavesNonePending]_vars
  BY <1>1, StepSettles
<1> QED
  BY <1>1, Invariance, PTL DEF Spec, GroupSettles

=============================================================================

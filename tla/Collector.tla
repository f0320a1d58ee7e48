------------------------------ MODULE Collector ------------------------------
(***************************************************************************)
(* The collectors of the two engines (Interpreter::collect_garbage,        *)
(* Vm::collect_garbage).  Values are counted references, which free all    *)
(* but cycles; a collection marks the environments it can reach and        *)
(* empties the others that are alive, so that cycles through environments  *)
(* fall apart.  An environment that is emptied too early takes the         *)
(* variables from under a function.  0 is the environment of the globals.  *)
(*                                                                         *)
(* A program makes objects while it runs, and stores some of them; all it  *)
(* has at hand is gone at its end, but for its result.  It begins in a     *)
(* call that has just made a function.  Between programs the machine keeps *)
(* modules and callbacks of native extensions.                             *)
(***************************************************************************)
EXTENDS Integers, FiniteSets, TLC

CONSTANTS
  Starts,  \* heaps to begin with, and what of them is at hand
  MaxMade, \* bound: objects made
  MaxStores, \* bound: stores into objects
  MaxKept  \* bound: modules and callbacks kept at a time

VARIABLES
  engine,   \* "tree" or "machine"
  heap,     \* kind, owner and contents of the objects made so far
  hand,     \* the values the program has at hand
  kept,     \* module_cache, and the table of callbacks
  emptied,  \* the environments that the last collection has emptied
  swept,    \* "yes" when nothing has happened since it, "overflow" when it did not end
  work      \* history: objects made and stores so far

vars == <<engine, heap, hand, kept, emptied, swept, work>>

Globals == 0
AllKinds == {"environment", "closure", "bound", "box", "class", "instance", "module",
             "mapped", "walker", "task"}

\* What the owner of an object of a kind is: the parent of an environment, the
\* environment of a closure or module, the method of a bound method, the parent
\* of a class, the class of an instance, the source of an iterator, the
\* function of a task.
OwnerKinds(kind) ==
  CASE kind = "environment" -> {"environment"}
    [] kind = "closure" -> {"environment"}
    [] kind = "bound" -> {"closure"}
    [] kind = "class" -> {"class", "none"}
    [] kind = "instance" -> {"class"}
    [] kind = "module" -> {"environment"}
    [] kind = "mapped" -> {"box", "walker"}
    [] kind = "walker" -> {"instance"}
    [] kind = "task" -> {"closure"}
    [] OTHER -> {"none"}
\* What the content of an object of a kind may be: the variables, the receiver
\* of a bound method, the method of a class (its static field is apart), the
\* fields of an instance, the function of an iterator, the argument of a task.
ContentKinds(kind) ==
  CASE kind = "bound" -> {"instance"}
    [] kind = "class" -> {"closure"}
    [] kind = "mapped" -> {"closure", "bound"}
    [] kind \in {"module", "closure", "walker"} -> {}
    [] OTHER -> AllKinds \ {"environment"}
Needs(kind) == kind \in {"bound", "class", "mapped"}   \* content from the first
Mutable == {"environment", "box", "instance", "class"}
StoredKinds(kind) == IF kind = "class" THEN AllKinds \ {"environment"} ELSE ContentKinds(kind)

Owner(o) == IF heap[o].owner = -1 THEN {} ELSE {heap[o].owner}
Contents(o) == heap[o].contents
Static(o) == heap[o].static

\* What an object keeps alive, as its Rust value does.
Holds(o) == Owner(o) \cup Contents(o) \cup Static(o)

\* Mutant: the class of an instance is not marked.
MutTreeMarks(o) == IF heap[o].kind = "instance" THEN Contents(o) ELSE Holds(o)
\* mark_interpreter_value and its companions follow every reference.
TreeMarks(o) == Holds(o)

\* mark_value and mark_environment.
MachineMarks(o) ==
  CASE heap[o].kind \in {"bound", "closure", "module"} -> Owner(o)
    [] heap[o].kind \in {"instance", "class", "box"} -> Contents(o)
    [] heap[o].kind = "walker" -> {}
    [] OTHER -> Holds(o)

\* Everything that Follow leads to from S.
Closed(Follow(_), S) ==
  LET Further(T) == T \cup UNION {Follow(o) : o \in T}
      f[n \in 0 .. Cardinality(DOMAIN heap)] == IF n = 0 THEN S ELSE Further(f[n - 1])
  IN f[Cardinality(DOMAIN heap) - 1]
Cached == {o \in kept : heap[o].kind = "module"}
Alive == Closed(Holds, {Globals} \cup hand \cup kept)

Environments == {o \in DOMAIN heap : heap[o].kind = "environment"}

\* Only environments are marked as seen: a value that leads back to itself
\* without one is followed for ever.
Endless(o) == o \in Closed(LAMBDA x : MachineMarks(x) \ Environments, MachineMarks(o) \ Environments)

-----------------------------------------------------------------------------
Object(kind, owner, contents, static) ==
  [kind |-> kind, owner |-> owner, contents |-> contents, static |-> static]
Goes == swept' = "no" /\ emptied' = {}

\* child_env, make_closure, bind_function and the other makers.
Make(kind, owner, contents) ==
  LET new == Cardinality(DOMAIN heap)
  IN /\ work.made < MaxMade /\ work' = [work EXCEPT !.made = @ + 1]
     /\ heap' = [o \in DOMAIN heap \cup {new} |->
          IF o = new THEN Object(kind, owner, contents, {}) ELSE heap[o]]
     /\ hand' = hand \cup {new}
     /\ kept' = IF kind = "module" THEN kept \cup {new} ELSE kept
     /\ kind = "module" => Cardinality(kept) < MaxKept
     /\ Goes /\ UNCHANGED engine

\* An assignment to a variable, an element or a field.
Store(o, x) ==
  /\ work.stores < MaxStores /\ work' = [work EXCEPT !.stores = @ + 1]
  /\ heap[o].kind \in Mutable
  /\ heap' = IF heap[o].kind = "class" THEN [heap EXCEPT ![o].static = x] ELSE [heap EXCEPT ![o].contents = x]
  /\ Goes /\ UNCHANGED <<engine, hand, kept>>

\* A native call keeps a callback; one is released, or a module whose file has
\* changed leaves the cache.
Keep(o) ==
  /\ engine = "machine" /\ heap[o].kind \in {"closure", "bound"}
  /\ Cardinality(kept) < MaxKept
  /\ kept' = kept \cup {o}
  /\ Goes /\ UNCHANGED <<engine, heap, hand, work>>
Drop(o) ==
  /\ kept' = kept \ {o}
  /\ Goes /\ UNCHANGED <<engine, heap, hand, work>>

\* The program ends; its result is what the caller gets.
Return(result) ==
  /\ hand # {} /\ hand # result
  /\ hand' = result
  /\ Goes /\ UNCHANGED <<engine, heap, kept, work>>

\* collect_garbage, when no program runs: the interpreter marks from the
\* globals, the modules and the result, the machine only from the globals and
\* the modules.  What is not marked but alive loses its variables and parent.
Collect ==
  /\ Cardinality(hand) <= 1
  /\ LET marked == IF engine = "tree" THEN Closed(TreeMarks, {Globals} \cup Cached \cup hand)
                   ELSE Closed(MachineMarks, {Globals} \cup Cached)
         rest == Environments \ marked
     IN IF engine = "machine" /\ \E o \in marked : Endless(o)
        THEN swept' = "overflow" /\ UNCHANGED <<emptied, heap>>
        ELSE /\ swept' = "yes"
             /\ emptied' = rest
             /\ heap' = [o \in DOMAIN heap |->
                  IF o \in rest THEN [heap[o] EXCEPT !.owner = -1, !.contents = {}] ELSE heap[o]]
  /\ UNCHANGED <<engine, hand, kept, work>>

Init ==
  /\ engine \in {"tree", "machine"}
  /\ \E start \in Starts : heap = start.heap /\ hand = start.hand
  /\ kept = {} /\ emptied = {} /\ swept = "no" /\ work = [made |-> 0, stores |-> 0]

\* What a program can name: what it has at hand, the globals and their values.
Named == hand \cup {Globals} \cup Contents(Globals)
Next ==
  LET named == Named
      Values(kinds) == {{}} \cup {{x} : x \in {o \in named : heap[o].kind \in kinds}}
      Owners(kind) == {o \in named : heap[o].kind \in OwnerKinds(kind)}
                      \cup (IF "none" \in OwnerKinds(kind) THEN {-1} ELSE {})
  IN /\ swept # "overflow"
     /\ \/ \E kind \in AllKinds : \E owner \in Owners(kind), contents \in Values(ContentKinds(kind)) :
             (contents = {} => ~Needs(kind)) /\ Make(kind, owner, contents)
        \/ \E o \in named : \E x \in Values(StoredKinds(heap[o].kind)) : Store(o, x)
        \/ \E o \in hand : Keep(o)
        \/ \E o \in kept : Drop(o)
        \/ \E result \in {{}} \cup {{x} : x \in hand} : Return(result)
        \/ Collect

Spec == Init /\ [][Next]_vars

-----------------------------------------------------------------------------
\* Types.
TypeOK ==
  /\ \A o \in DOMAIN heap :
       /\ heap[o].kind \in AllKinds
       /\ Holds(o) \subseteq DOMAIN heap
  /\ hand \cup kept \subseteq DOMAIN heap /\ emptied \subseteq Environments
  /\ swept \in {"no", "yes", "overflow"}

\* What only the machine's marking passes over: the receiver of a bound method,
\* the class of an instance, the parent and the static field of a class, and
\* the instance behind an iterator.
PassedOver(o) ==
  IF engine = "tree" THEN {}
  ELSE CASE heap[o].kind \in {"instance", "walker"} -> Owner(o) \ Contents(o)
         [] heap[o].kind = "bound" -> Contents(o)
         [] heap[o].kind = "class" -> (Owner(o) \cup Static(o)) \ Contents(o)
         [] OTHER -> {}
\* Nor does it begin at the result or at the callbacks.
Follows(o) == Holds(o) \ PassedOver(o)
LedTo == Closed(Follows, {Globals} \cup IF engine = "tree" THEN kept \cup hand ELSE Cached)
ContainsItself(o) == o \in Closed(LAMBDA x : Follows(x) \ Environments, Follows(o) \ Environments)

\* A collection empties the environments that nothing leads to, and of those
\* that a variable, a value, a module, a callback or the result still leads to
\* none in the interpreter, and in the machine just those that are led to only
\* by what its marking passes over.  The machine's does not end, and just then,
\* when it is led to data that contains itself.
CollectionIsExact ==
  /\ swept = "yes" =>
       /\ \A o \in Environments \ Alive : Contents(o) = {}
       /\ emptied \cap Alive = (Environments \cap Alive) \ LedTo
       /\ engine = "tree" => emptied \cap Alive = {}
  /\ swept # "no" => (swept = "overflow" <=> engine = "machine" /\ \E o \in LedTo : ContainsItself(o))
=============================================================================

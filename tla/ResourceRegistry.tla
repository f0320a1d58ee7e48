--------------------------- MODULE ResourceRegistry ---------------------------
(***************************************************************************)
(* The forest of native resources of one VM: ResourceRegistry of           *)
(* src/host_handles.rs.                                                    *)
(*                                                                         *)
(* A resource may have a parent, which knows its children.  close is       *)
(* recursive: it closes the children, the youngest handle first, then      *)
(* takes the resource out of the table and runs its destructor, which may  *)
(* panic.  The recursion is the stack closing, so that the states a        *)
(* destructor runs in are states of the model; nothing else happens while  *)
(* it is under way, because the table is mutably borrowed.                 *)
(*                                                                         *)
(* A resource is the number of the create that registered it.              *)
(***************************************************************************)
EXTENDS Handles, Sequences, FiniteSets

CONSTANTS
  NoParent,
  MaxCreates   \* bound on the number of creates (model checking only)

VARIABLES
  slots,      \* the slots, numbered from 1
  free,       \* the stack of free slots, its top at the end
  count,      \* the field live
  closing,    \* the calls of close under way, the innermost at the end
  roots,      \* the roots close_all has yet to close
  closeAll,   \* close_all is under way
  issued,     \* history: issued[id] is the handle of resource id
  lineage,    \* history: lineage[id] is its parent, or 0
  destroyed   \* history: the resources whose destructor has run, in order

vars == <<slots, free, count, closing, roots, closeAll, issued, lineage, destroyed>>
history == <<issued, lineage, destroyed>>

Empty == [id |-> 0, parent |-> NoParent, children |-> {}]
Entry == [id : Nat, parent : Handle \cup {NoParent}, children : SUBSET Handle]
Slot == [gen : 1..MaxGeneration, entry : Entry]

Occupied(i) == slots[i].entry # Empty
OccupiedSlots == {i \in 1..Len(slots) : Occupied(i)}
HandleOf(i) == [slot |-> i, gen |-> slots[i].gen]

\* entry and entry_mut.
Resolves(h) ==
  /\ h.slot \in 1..Len(slots)
  /\ slots[h.slot].gen = h.gen
  /\ Occupied(h.slot)

EntryOf(h) == slots[h.slot].entry

Idle == closing = <<>> /\ ~closeAll
Top == closing[Len(closing)]

-----------------------------------------------------------------------------
\* Mutant: the parent does not learn of its child.
MutLink(table, parent, h) == table

\* The parent's entry with its new child.
Link(table, parent, h) ==
  IF parent = NoParent
  THEN table
  ELSE [table EXCEPT ![parent.slot].entry.children = @ \cup {h}]

\* create_native puts the resource in slot i under generation g.
CreateIn(i, g, parent) ==
  LET h == [slot |-> i, gen |-> g]
      slot == [gen |-> g,
               entry |-> [id |-> Len(issued) + 1, parent |-> parent, children |-> {}]]
      table == IF i \in 1..Len(slots) THEN [slots EXCEPT ![i] = slot]
                                      ELSE Append(slots, slot)
  IN  /\ slots' = Link(table, parent, h)
      /\ issued' = Append(issued, h)

\* create_native refuses a parent that is closed.
Create(parent) ==
  /\ Idle
  /\ Len(issued) < MaxCreates
  /\ parent # NoParent => Resolves(parent)
  /\ \/ /\ free # <<>>
        /\ LET i == free[Len(free)]
           IN  CreateIn(i, NextGeneration(slots[i].gen), parent)
        /\ free' = SubSeq(free, 1, Len(free) - 1)
     \/ /\ free = <<>>
        /\ CreateIn(Len(slots) + 1, 1, parent)
        /\ UNCHANGED free
  /\ lineage' = Append(lineage, IF parent = NoParent THEN 0 ELSE EntryOf(parent).id)
  /\ count' = count + 1
  /\ UNCHANGED <<closing, roots, closeAll, destroyed>>

\* A call of close enters with the children it will close.
Enter(h) ==
  /\ Resolves(h)
  /\ closing' = Append(closing, [handle |-> h, todo |-> EntryOf(h).children])

\* close, called by a program through the VM.
Close(h) ==
  /\ Idle
  /\ Enter(h)
  /\ UNCHANGED <<slots, free, count, roots, closeAll, history>>

\* Mutant: close_all leaves out the roots that have children.
MutRoots == {HandleOf(i) : i \in {j \in OccupiedSlots :
              slots[j].entry.parent = NoParent /\ slots[j].entry.children = {}}}

Roots == {HandleOf(i) : i \in {j \in OccupiedSlots : slots[j].entry.parent = NoParent}}

\* close_all, called when the VM or the registry is dropped.
CloseAll ==
  /\ Idle
  /\ closeAll' = TRUE
  /\ roots' = Roots
  /\ UNCHANGED <<slots, free, count, closing, history>>

\* close_all closes its roots from the last slot to the first, whatever the
\* outcome of each.
CloseRoot ==
  /\ closeAll /\ closing = <<>>
  /\ \E h \in roots :
       /\ \A k \in roots : k.slot <= h.slot
       /\ Enter(h)
       /\ roots' = roots \ {h}
  /\ UNCHANGED <<slots, free, count, closeAll, history>>

CloseAllEnds ==
  /\ closeAll /\ closing = <<>> /\ roots = {}
  /\ closeAll' = FALSE
  /\ UNCHANGED <<slots, free, count, closing, roots, history>>

\* close closes the greatest handle among the children left.
CloseChild ==
  /\ closing # <<>>
  /\ \E h \in Top.todo :
       /\ \A k \in Top.todo : ~Before(h, k)
       /\ Resolves(h)
       /\ closing' = Append([closing EXCEPT ![Len(closing)].todo = @ \ {h}],
                            [handle |-> h, todo |-> EntryOf(h).children])
  /\ UNCHANGED <<slots, free, count, roots, closeAll, history>>

\* Mutant: the entry is copied, not taken.
MutUnlink(table, h) ==
  LET parent == table[h.slot].entry.parent
  IN  IF parent # NoParent
      THEN [table EXCEPT ![parent.slot].entry.children = @ \ {h}]
      ELSE table

\* The table without the entry of h, of which its parent, if it is there,
\* no longer knows.
Unlink(table, h) ==
  LET parent == table[h.slot].entry.parent
      rest == [table EXCEPT ![h.slot].entry = Empty]
  IN  IF parent # NoParent /\ Resolves(parent)
      THEN [rest EXCEPT ![parent.slot].entry.children = @ \ {h}]
      ELSE rest

\* Mutant: the destructor runs before the children are closed.
MutDestroy ==
  /\ closing # <<>>
  /\ LET h == Top.handle
     IN  /\ slots' = Unlink(slots, h)
         /\ free' = Append(free, h.slot)
         /\ destroyed' = Append(destroyed, EntryOf(h).id)
  /\ count' = count - 1
  /\ closing' = SubSeq(closing, 1, Len(closing) - 1)
  /\ UNCHANGED <<roots, closeAll, issued, lineage>>

\* Mutant: the counter is left alone.
MutDestroyUncounted ==
  /\ closing # <<>> /\ Top.todo = {}
  /\ LET h == Top.handle
     IN  /\ slots' = Unlink(slots, h)
         /\ free' = Append(free, h.slot)
         /\ destroyed' = Append(destroyed, EntryOf(h).id)
  /\ closing' = SubSeq(closing, 1, Len(closing) - 1)
  /\ UNCHANGED <<roots, closeAll, issued, lineage, count>>

\* The children are closed: the entry is taken, the slot freed and the
\* destructor run.  A panic of the destructor is caught and only changes the
\* result, so the action is the same with and without it.
Destroy ==
  /\ closing # <<>> /\ Top.todo = {}
  /\ LET h == Top.handle
     IN  /\ Resolves(h)
         /\ slots' = Unlink(slots, h)
         /\ free' = Append(free, h.slot)
         /\ destroyed' = Append(destroyed, EntryOf(h).id)
  /\ count' = count - 1
  /\ closing' = SubSeq(closing, 1, Len(closing) - 1)
  /\ UNCHANGED <<roots, closeAll, issued, lineage>>

-----------------------------------------------------------------------------
Init ==
  /\ slots = <<>> /\ free = <<>> /\ count = 0
  /\ closing = <<>> /\ roots = {} /\ closeAll = FALSE
  /\ issued = <<>> /\ lineage = <<>> /\ destroyed = <<>>

Issued == {issued[id] : id \in 1..Len(issued)}

Next ==
  \/ \E parent \in Issued \cup {NoParent} : Create(parent)
  \/ \E h \in Issued : Close(h)
  \/ CloseAll
  \/ CloseRoot \/ CloseAllEnds \/ CloseChild \/ Destroy

Spec == Init /\ [][Next]_vars

-----------------------------------------------------------------------------
\* Type invariant of the registry.
TypeOK ==
  /\ slots \in Seq(Slot)
  /\ free \in Seq(Nat \ {0})
  /\ count \in Nat
  /\ closing \in Seq([handle : Handle, todo : SUBSET Handle])
  /\ roots \subseteq Handle
  /\ closeAll \in BOOLEAN
  /\ issued \in Seq(Handle)
  /\ lineage \in Seq(Nat)
  /\ destroyed \in Seq(Nat \ {0})

\* Parents and children agree at every moment, in the middle of a recursive
\* close too: a child's parent is alive and lists it, and a parent lists
\* nothing but live children of its own.
Forest ==
  \A i \in OccupiedSlots :
    /\ LET parent == slots[i].entry.parent
       IN  parent # NoParent =>
             Resolves(parent) /\ HandleOf(i) \in EntryOf(parent).children
    /\ \A child \in slots[i].entry.children :
         Resolves(child) /\ EntryOf(child).parent = HandleOf(i)

\* live_count, and through it the leak report, tells how many resources the
\* table holds; the free stack holds each of the other slots once.
Counted ==
  /\ count = Cardinality(OccupiedSlots)
  /\ Len(free) = Len(slots) - count
  /\ {free[i] : i \in 1..Len(free)} = (1..Len(slots)) \ OccupiedSlots

\* Every resource is either in the table or destroyed, and its destructor has
\* run at most once ("destroyed exactly once", reference/native-abi-v2.md:36).
ExactlyOnce ==
  \A id \in 1..Len(issued) :
    LET runs == Cardinality({n \in 1..Len(destroyed) : destroyed[n] = id})
    IN  runs = IF \E i \in OccupiedSlots : slots[i].entry.id = id THEN 0 ELSE 1

\* The table is a forest, fully counted, and each resource is in it or
\* destroyed, once.
RegistrySound == Forest /\ Counted /\ ExactlyOnce

\* No destructor runs while a child of the resource is still there: children
\* are destroyed before their parents, over any depth (reference/gui-architecture.md:37).
ChildrenFirst ==
  \A m, n \in 1..Len(destroyed) :
    m < n => lineage[destroyed[n]] # destroyed[m]

\* When close_all is over the table is empty, even if destructors panicked.
Cleared == closeAll /\ ~closeAll' => OccupiedSlots' = {}
CloseAllClears == [][Cleared]_vars

=============================================================================

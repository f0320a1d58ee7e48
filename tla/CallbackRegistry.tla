--------------------------- MODULE CallbackRegistry ---------------------------
(***************************************************************************)
(* The table of persistent callbacks of one VM: CallbackRegistry and       *)
(* CallbackValidity of src/host_handles.rs.                                *)
(*                                                                         *)
(* A handle is a slot and a generation.  The slot is reused after its      *)
(* callback is released, under the next generation, so an old handle no    *)
(* longer matches.  Only the owner thread changes the table; other threads *)
(* see nothing but live, the set of handles they may post.                 *)
(*                                                                         *)
(* A callback is the number of the create that registered it.  The actions *)
(* are stated for the variables of the table alone, so that NativeHost can *)
(* use them in its own steps.                                              *)
(***************************************************************************)
EXTENDS Handles, Sequences, FiniteSets

CONSTANTS
  MaxReferences,   \* u32::MAX, the limit of a reference count
  MaxCreates       \* bound on the number of creates (model checking only)

ASSUME LimitsAssumption ==
  /\ MaxReferences \in Nat \ {0}
  /\ MaxCreates \in Nat

VARIABLES
  slots,    \* the slots, numbered from 1 (encode_handle stores index + 1)
  free,     \* the stack of free slots, its top at the end
  live,     \* the handles other threads see
  closed,   \* the VM is shutting down
  issued    \* history: issued[id] is the handle that create number id returned

table == <<slots, free, live, closed, issued>>

Empty == [refs |-> 0, callback |-> 0]
Entry == {Empty} \cup [refs : 1..MaxReferences, callback : Nat \ {0}]
Slot == [gen : 1..MaxGeneration, entry : Entry]

Occupied(i) == slots[i].entry # Empty

\* Mutant: the generation is not compared.
MutResolves(h) == h.slot \in 1..Len(slots) /\ Occupied(h.slot)

\* entry_mut and get: the handle's slot exists, is of its generation and is
\* occupied.
Resolves(h) ==
  /\ h.slot \in 1..Len(slots)
  /\ slots[h.slot].gen = h.gen
  /\ Occupied(h.slot)

EntryOf(h) == slots[h.slot].entry

-----------------------------------------------------------------------------
\* create: the free slot on top of the stack, or a new one.
CreateIn(i, g) ==
  LET id == Len(issued) + 1
      slot == [gen |-> g, entry |-> [refs |-> 1, callback |-> id]]
      handle == [slot |-> i, gen |-> g]
  IN  /\ slots' = IF i \in 1..Len(slots) THEN [slots EXCEPT ![i] = slot]
                                         ELSE Append(slots, slot)
      /\ issued' = Append(issued, handle)
      /\ live' = live \cup {handle}

Create ==
  /\ Len(issued) < MaxCreates
  /\ ~closed
  /\ \/ /\ free # <<>>
        /\ LET i == free[Len(free)] IN CreateIn(i, NextGeneration(slots[i].gen))
        /\ free' = SubSeq(free, 1, Len(free) - 1)
     \/ /\ free = <<>>
        /\ CreateIn(Len(slots) + 1, 1)
        /\ UNCHANGED free
  /\ UNCHANGED closed

\* Mutant: the reference count is not checked.
MutRetain(h) ==
  /\ Resolves(h)
  /\ slots' = [slots EXCEPT ![h.slot].entry.refs = @ + 1]
  /\ UNCHANGED <<free, live, closed, issued>>

\* retain fails on a handle that does not resolve and at the reference limit.
Retain(h) ==
  /\ Resolves(h)
  /\ EntryOf(h).refs < MaxReferences
  /\ slots' = [slots EXCEPT ![h.slot].entry.refs = @ + 1]
  /\ UNCHANGED <<free, live, closed, issued>>

\* Mutant: the last release leaves the handle visible to other threads.
MutRelease(h) ==
  /\ Resolves(h)
  /\ \/ /\ EntryOf(h).refs > 1
        /\ slots' = [slots EXCEPT ![h.slot].entry.refs = @ - 1]
        /\ UNCHANGED free
     \/ /\ EntryOf(h).refs = 1
        /\ slots' = [slots EXCEPT ![h.slot].entry = Empty]
        /\ free' = Append(free, h.slot)
  /\ UNCHANGED <<live, closed, issued>>

\* release: the last reference empties the slot and frees it.
Release(h) ==
  /\ Resolves(h)
  /\ \/ /\ EntryOf(h).refs > 1
        /\ slots' = [slots EXCEPT ![h.slot].entry.refs = @ - 1]
        /\ UNCHANGED <<free, live>>
     \/ /\ EntryOf(h).refs = 1
        /\ slots' = [slots EXCEPT ![h.slot].entry = Empty]
        /\ free' = Append(free, h.slot)
        /\ live' = live \ {h}
  /\ UNCHANGED <<closed, issued>>

\* Mutant: close adds the slots to the free stack instead of replacing it.
MutClose ==
  /\ closed' = TRUE
  /\ slots' = [i \in 1..Len(slots) |-> [slots[i] EXCEPT !.entry = Empty]]
  /\ free' = free \o [i \in 1..Len(slots) |-> i]
  /\ live' = {}
  /\ UNCHANGED issued

\* close: every slot is emptied and free, nothing is created any more.
Close ==
  /\ closed' = TRUE
  /\ slots' = [i \in 1..Len(slots) |-> [slots[i] EXCEPT !.entry = Empty]]
  /\ free' = [i \in 1..Len(slots) |-> i]
  /\ live' = {}
  /\ UNCHANGED issued

-----------------------------------------------------------------------------
Init ==
  /\ slots = <<>>
  /\ free = <<>>
  /\ live = {}
  /\ closed = FALSE
  /\ issued = <<>>

\* A client may use any handle it has ever been given, however old.
Issued == {issued[id] : id \in 1..Len(issued)}

Next ==
  \/ Create
  \/ \E h \in Issued : Retain(h) \/ Release(h)
  \/ Close

Spec == Init /\ [][Next]_table

-----------------------------------------------------------------------------
\* Type invariant of the table.  An occupied slot is referenced and a count
\* stays within its type: no addition or subtraction on it overflows.
TypeOK ==
  /\ slots \in Seq(Slot)
  /\ free \in Seq(Nat \ {0})
  /\ live \subseteq Handle
  /\ closed \in BOOLEAN
  /\ issued \in Seq(Handle)

\* The free stack holds every empty slot, once, and no occupied one: create
\* never overwrites a callback and no slot is lost.
FreeSlots ==
  /\ \A i \in 1..Len(free) :
       free[i] \in 1..Len(slots) /\ ~Occupied(free[i])
  /\ \A i, j \in 1..Len(free) : free[i] = free[j] => i = j
  /\ \A i \in 1..Len(slots) : ~Occupied(i) => \E j \in 1..Len(free) : free[j] = i

\* What the posting threads see is what the table holds: a handle is in live
\* exactly while the table resolves it.
ThreadsAgree ==
  /\ \A h \in live : Resolves(h)
  /\ \A i \in 1..Len(slots) :
       Occupied(i) => [slot |-> i, gen |-> slots[i].gen] \in live

\* A handle never reaches another callback than the one it was issued for, as
\* long as no slot can have been reused 2^32 - 1 times
\* ("a use after release never lands on a new object", reference/gui-security.md:22).
NeverAnotherCallback ==
  Len(issued) <= MaxGeneration =>
    \A id \in 1..Len(issued) :
      Resolves(issued[id]) => EntryOf(issued[id]).callback = id

\* The three together.
TableIsSound == FreeSlots /\ ThreadsAgree /\ NeverAnotherCallback

=============================================================================

------------------------- MODULE ResourceRegistryProofs -------------------------
(***************************************************************************)
(* Proofs about ResourceRegistry for any number of creates, trees of any   *)
(* depth and width, and every limit of the generations.                    *)
(*                                                                         *)
(* Two facts carry the argument.  A parent is older than its children      *)
(* (Lineage), so the forest has no cycles and its oldest resource is a     *)
(* root.  And the calls of close under way follow one path downwards       *)
(* (Descent), each with the children it has left, so that the resource     *)
(* that is destroyed has none.                                             *)
(***************************************************************************)
EXTENDS ResourceRegistry, TLAPS, SequenceTheorems, FiniteSetTheorems, WellFoundedInduction

\* The free stack holds the empty slots, each once.
FreeSlots ==
  /\ \A n \in 1..Len(free) : free[n] \in 1..Len(slots) /\ ~Occupied(free[n])
  /\ \A m, n \in 1..Len(free) : free[m] = free[n] => m = n
  /\ \A i \in 1..Len(slots) : ~Occupied(i) => \E n \in 1..Len(free) : free[n] = i

\* The resources in the table are different, and each has the lineage it was
\* created with: its parent is older, and no child is known of what stands
\* for no parent.
Lineage ==
  /\ Len(lineage) = Len(issued)
  /\ \A i \in OccupiedSlots :
       /\ slots[i].entry.id \in 1..Len(issued)
       /\ lineage[slots[i].entry.id] =
            IF slots[i].entry.parent = NoParent THEN 0 ELSE EntryOf(slots[i].entry.parent).id
       /\ slots[i].entry.parent # NoParent =>
            EntryOf(slots[i].entry.parent).id < slots[i].entry.id
       /\ slots[i].entry.children # {} => HandleOf(i) # NoParent
  /\ \A i, j \in OccupiedSlots : slots[i].entry.id = slots[j].entry.id => i = j

\* What is destroyed was created, is destroyed once and is not in the table;
\* what was created is in the table or destroyed.
Ends ==
  /\ \A n \in 1..Len(destroyed) :
       /\ destroyed[n] \in 1..Len(issued)
       /\ \A i \in OccupiedSlots : slots[i].entry.id # destroyed[n]
  /\ \A m, n \in 1..Len(destroyed) : destroyed[m] = destroyed[n] => m = n
  /\ \A id \in 1..Len(issued) :
       \/ \E i \in OccupiedSlots : slots[i].entry.id = id
       \/ \E n \in 1..Len(destroyed) : destroyed[n] = id

\* The calls of close follow one path of the forest downwards: what a call has
\* yet to close and what the next call closes are its children.
Descent ==
  \A n \in 1..Len(closing) :
    LET h == closing[n].handle IN
    /\ Resolves(h)
    /\ n = Len(closing) => EntryOf(h).children = closing[n].todo
    /\ n < Len(closing) =>
         /\ EntryOf(h).children = closing[n].todo \cup {closing[n + 1].handle}
         /\ closing[n + 1].handle \notin closing[n].todo
    /\ \A m \in 1..Len(closing) : m < n => EntryOf(closing[m].handle).id < EntryOf(h).id

\* close_all has each root left before it, or under way.
RootsLeft ==
  closeAll =>
    \A i \in OccupiedSlots :
      slots[i].entry.parent = NoParent =>
        HandleOf(i) \in roots \/ (closing # <<>> /\ closing[1].handle = HandleOf(i))

CountRight == count = Cardinality(OccupiedSlots)

IInv ==
  /\ TypeOK /\ Forest /\ FreeSlots /\ CountRight
  /\ Lineage /\ Ends /\ ChildrenFirst
  /\ Descent /\ RootsLeft

-----------------------------------------------------------------------------
\* The table seen entry by entry.
LEMMA TableTypes ==
  ASSUME TypeOK
  PROVE  /\ Len(slots) \in Nat /\ Len(free) \in Nat /\ Len(issued) \in Nat
         /\ Len(destroyed) \in Nat /\ Len(closing) \in Nat
         /\ \A i \in 1..Len(slots) :
              /\ slots[i] \in Slot
              /\ slots[i].gen \in 1..MaxGeneration
              /\ slots[i].entry \in Entry
              /\ slots[i].entry.id \in Nat
              /\ slots[i].entry.children \subseteq Handle
              /\ slots[i].entry.parent \in Handle \cup {NoParent}
         /\ \A id \in 1..Len(issued) : issued[id] \in Handle
         /\ \A n \in 1..Len(closing) :
              closing[n].handle \in Handle /\ closing[n].todo \subseteq Handle
<1>1. \A i \in 1..Len(slots) : slots[i] \in Slot
  BY ElementOfSeq DEF TypeOK
<1>2. \A id \in 1..Len(issued) : issued[id] \in Handle
  BY ElementOfSeq DEF TypeOK
<1>3. \A n \in 1..Len(closing) : closing[n] \in [handle : Handle, todo : SUBSET Handle]
  BY ElementOfSeq DEF TypeOK
<1>4. \A i \in 1..Len(slots) :
        /\ slots[i].gen \in 1..MaxGeneration
        /\ slots[i].entry \in Entry
  BY <1>1 DEF Slot
<1>5. \A i \in 1..Len(slots) :
        /\ slots[i].entry.id \in Nat
        /\ slots[i].entry.children \subseteq Handle
        /\ slots[i].entry.parent \in Handle \cup {NoParent}
  BY <1>4 DEF Entry
<1> QED
  BY <1>1, <1>2, <1>3, <1>4, <1>5, LenProperties DEF TypeOK

\* A handle that resolves is the handle of its slot.
LEMMA ResolvedHandle ==
  ASSUME NEW h \in Handle, Resolves(h)
  PROVE  h.slot \in OccupiedSlots /\ HandleOf(h.slot) = h
  BY DEF Resolves, OccupiedSlots, HandleOf, Handle

\* The handle of an occupied slot resolves.
LEMMA OccupiedResolves ==
  ASSUME TypeOK, NEW i \in OccupiedSlots
  PROVE  /\ i \in 1..Len(slots)
         /\ HandleOf(i) \in Handle /\ Resolves(HandleOf(i))
         /\ HandleOf(i).slot = i /\ HandleOf(i).gen = slots[i].gen
<1>1. i \in 1..Len(slots) /\ Occupied(i)
  BY DEF OccupiedSlots
<1>2. i \in Nat \ {0} /\ slots[i].gen \in 1..MaxGeneration
  BY <1>1, TableTypes
<1> QED
  BY <1>1, <1>2 DEF HandleOf, Handle, Resolves

\* A sequence without its last element.
LEMMA FrontOfSeq ==
  ASSUME NEW S, NEW s \in Seq(S), s # <<>>
  PROVE  /\ SubSeq(s, 1, Len(s) - 1) \in Seq(S)
         /\ Len(SubSeq(s, 1, Len(s) - 1)) = Len(s) - 1
         /\ \A j \in 1..(Len(s) - 1) : SubSeq(s, 1, Len(s) - 1)[j] = s[j]
         /\ Len(s) \in Nat \ {0} /\ Len(s) \in 1..Len(s)
<1> DEFINE n == Len(s) - 1
<1>1. Len(s) \in Nat \ {0} /\ \A j \in 1..Len(s) : s[j] \in S
  BY EmptySeq, ElementOfSeq, LenProperties
<1>2. n \in Nat /\ 1 \in Int /\ n \in Int /\ \A j \in 1..n : s[j] \in S
  BY <1>1
<1> HIDE DEF n
<1>3. /\ SubSeq(s, 1, n) \in Seq(S)
      /\ Len(SubSeq(s, 1, n)) = IF 1 <= n THEN n - 1 + 1 ELSE 0
      /\ \A j \in 1..(n - 1 + 1) : SubSeq(s, 1, n)[j] = s[1 + j - 1]
  BY <1>2, SubSeqProperties
<1>4. Len(SubSeq(s, 1, n)) = n /\ n - 1 + 1 = n /\ \A j \in 1..n : 1 + j - 1 = j
  BY <1>2, <1>3
<1>5. \A j \in 1..n : SubSeq(s, 1, n)[j] = s[j]
  BY <1>3, <1>4
<1> QED
  BY <1>1, <1>3, <1>4, <1>5 DEF n

\* Another entry for one slot.
LEMMA EntryReplaced ==
  ASSUME NEW table \in Seq(Slot), NEW i \in 1..Len(table), NEW x \in Entry
  PROVE  LET new == [table EXCEPT ![i].entry = x]
         IN  /\ new \in Seq(Slot) /\ Len(new) = Len(table)
             /\ new[i].entry = x /\ new[i].gen = table[i].gen
             /\ \A j \in 1..Len(table) : j # i => new[j] = table[j]
<1> DEFINE s == [table[i] EXCEPT !.entry = x]
           new == [table EXCEPT ![i] = s]
<1>1. table[i] \in Slot
  BY ElementOfSeq
<1>2. s \in Slot /\ s.entry = x /\ s.gen = table[i].gen
  BY <1>1 DEF Slot
<1>3. [table EXCEPT ![i].entry = x] = new
  OBVIOUS
<1> HIDE DEF s
<1>4. /\ new \in Seq(Slot) /\ Len(new) = Len(table) /\ new[i] = s
      /\ \A j \in 1..Len(table) : j # i => new[j] = table[j]
  BY <1>2, ExceptSeq
<1> QED
  BY <1>2, <1>3, <1>4

-----------------------------------------------------------------------------
(***************************************************************************)
(* How create and destroy change the table.                                *)
(***************************************************************************)
\* Outside of slot i the table stays, except that slot k has the children x.
Others(i, k, x) ==
  \A j \in 1..Len(slots') : j # i =>
    /\ j \in 1..Len(slots)
    /\ slots'[j].gen = slots[j].gen
    /\ slots'[j].entry.id = slots[j].entry.id
    /\ slots'[j].entry.parent = slots[j].entry.parent
    /\ slots'[j].entry.children = (IF j = k THEN x ELSE slots[j].entry.children)
    /\ slots'[j].entry = Empty <=> slots[j].entry = Empty

\* The slot of a parent, 0 of none.
ParentSlot(parent) == IF parent = NoParent THEN 0 ELSE parent.slot

\* Slot i has a new resource, and its parent knows it.
Created(i, g, parent) ==
  /\ slots' \in Seq(Slot)
  /\ i \in 1..Len(slots') /\ slots'[i].gen = g
  /\ slots'[i].entry = [id |-> Len(issued) + 1, parent |-> parent, children |-> {}]
  /\ \A j \in 1..Len(slots) : j \in 1..Len(slots')
  /\ Others(i, ParentSlot(parent),
            slots[ParentSlot(parent)].entry.children \cup {[slot |-> i, gen |-> g]})
  /\ issued' = Append(issued, [slot |-> i, gen |-> g])

\* A create in a given slot.
LEMMA CreateInShape ==
  ASSUME TypeOK, \A j \in OccupiedSlots : slots[j].entry.id # 0,
         NEW i \in 1..Len(slots) + 1, NEW g \in 1..MaxGeneration,
         NEW parent \in Handle \cup {NoParent}, CreateIn(i, g, parent),
         parent # NoParent => parent \in Handle /\ Resolves(parent),
         i \in 1..Len(slots) => ~Occupied(i)
  PROVE  /\ Created(i, g, parent)
         /\ Len(slots') = IF i \in 1..Len(slots) THEN Len(slots) ELSE Len(slots) + 1
<1> DEFINE id == Len(issued) + 1
           x == [id |-> id, parent |-> parent, children |-> {}]
           s == [gen |-> g, entry |-> x]
           h == [slot |-> i, gen |-> g]
           table == IF i \in 1..Len(slots) THEN [slots EXCEPT ![i] = s] ELSE Append(slots, s)
<1>1. Len(slots) \in Nat /\ Len(issued) \in Nat /\ slots \in Seq(Slot)
  BY TableTypes DEF TypeOK
<1>2. x \in Entry /\ h \in Handle
  BY <1>1 DEF Entry, Handle
<1>3. s \in Slot /\ s.gen = g /\ s.entry = x
  BY <1>2 DEF Slot
<1>4. slots' = Link(table, parent, h) /\ issued' = Append(issued, h)
  BY DEF CreateIn
<1>5. x.children = {} /\ x.id = id /\ x.parent = parent
  OBVIOUS
<1> HIDE DEF s, x, table
<1>6. /\ table \in Seq(Slot)
      /\ Len(table) = IF i \in 1..Len(slots) THEN Len(slots) ELSE Len(slots) + 1
      /\ i \in 1..Len(table) /\ table[i] = s
      /\ \A j \in 1..Len(table) : j # i => j \in 1..Len(slots) /\ table[j] = slots[j]
      /\ \A j \in 1..Len(slots) : j \in 1..Len(table)
  <2>1. CASE i \in 1..Len(slots)
    BY <1>1, <1>3, <2>1, ExceptSeq DEF table
  <2>2. CASE i = Len(slots) + 1
    <3>1. table = Append(slots, s)
      BY <1>1, <2>2 DEF table
    <3>2. /\ table \in Seq(Slot)
          /\ Len(table) = Len(slots) + 1
          /\ table[Len(slots) + 1] = s
          /\ \A j \in 1..Len(slots) : table[j] = slots[j]
      BY <1>1, <1>3, <3>1, AppendProperties
    <3> QED
      BY <1>1, <2>2, <3>2
  <2> QED
    BY <1>1, <2>1, <2>2
<1>7. CASE parent = NoParent
  <2>1. slots' = table
    BY <1>4, <1>7 DEF Link
  <2>2. \A j \in 1..Len(slots) : j # ParentSlot(parent)
    BY <1>1, <1>7 DEF ParentSlot
  <2>3. \A y : Others(i, ParentSlot(parent), y)
    BY <1>6, <2>1, <2>2 DEF Others
  <2> QED
    BY <1>3, <1>4, <1>6, <2>1, <2>3 DEF Created, x, id
<1>8. CASE parent # NoParent
  <2> DEFINE k == parent.slot
             y == [slots[k].entry EXCEPT !.children = slots[k].entry.children \cup {h}]
             new == [table EXCEPT ![k].entry = y]
  <2>1. k \in OccupiedSlots /\ k \in 1..Len(slots) /\ Occupied(k) /\ ParentSlot(parent) = k
    BY <1>8, ResolvedHandle DEF OccupiedSlots, ParentSlot
  <2>2. k # i /\ k \in 1..Len(table) /\ table[k] = slots[k]
    BY <1>6, <2>1
  <2>3. slots[k].entry \in Entry /\ slots[k].entry.children \subseteq Handle
    BY <2>1, TableTypes
  <2>4. /\ y \in Entry
        /\ y.id = slots[k].entry.id /\ y.parent = slots[k].entry.parent
        /\ y.children = slots[k].entry.children \cup {h}
    BY <1>2, <2>3 DEF Entry
  <2>5. slots' = [table EXCEPT ![k].entry.children = table[k].entry.children \cup {h}]
    BY <1>4, <1>8 DEF Link
  <2>6. slots' = new
    BY <2>2, <2>5
  <2> HIDE DEF y
  <2>7. /\ slots' \in Seq(Slot) /\ Len(slots') = Len(table)
        /\ slots'[k].entry = y /\ slots'[k].gen = table[k].gen
        /\ \A j \in 1..Len(table) : j # k => slots'[j] = table[j]
    BY <1>6, <2>2, <2>4, <2>6, EntryReplaced
  <2>8. y # Empty /\ slots[k].entry # Empty
    <3>1. slots[k].entry.id # 0 /\ Occupied(k)
      BY <2>1
    <3> QED
      BY <2>4, <3>1 DEF Empty, Occupied
  <2>9. Others(i, k, slots[k].entry.children \cup {h})
    BY <1>6, <2>2, <2>4, <2>7, <2>8 DEF Others
  <2>10. slots'[i] = s
    BY <1>6, <2>2, <2>7
  <2> QED
    BY <1>3, <1>4, <1>6, <2>1, <2>7, <2>9, <2>10 DEF Created, x, id
<1> QED
  BY <1>7, <1>8

\* Slot i is empty, and its parent no longer knows what it held.
Emptied(i) ==
  LET parent == slots[i].entry.parent IN
  /\ slots' \in Seq(Slot) /\ Len(slots') = Len(slots)
  /\ slots'[i].entry = Empty /\ slots'[i].gen = slots[i].gen
  /\ Others(i, ParentSlot(parent), slots[ParentSlot(parent)].entry.children \ {HandleOf(i)})

\* Taking an entry out of the table.
LEMMA UnlinkShape ==
  ASSUME TypeOK, Forest, Lineage, NEW h \in Handle, Resolves(h), slots' = Unlink(slots, h)
  PROVE  Emptied(h.slot)
<1> DEFINE i == h.slot
           parent == slots[i].entry.parent
           rest == [slots EXCEPT ![i].entry = Empty]
<1>1. i \in OccupiedSlots /\ i \in 1..Len(slots) /\ HandleOf(i) = h /\ slots \in Seq(Slot)
  BY ResolvedHandle DEF OccupiedSlots, TypeOK
<1>2. Empty \in Entry
  BY DEF Empty, Entry
<1>3. /\ rest \in Seq(Slot) /\ Len(rest) = Len(slots)
      /\ rest[i].entry = Empty /\ rest[i].gen = slots[i].gen
      /\ \A j \in 1..Len(slots) : j # i => rest[j] = slots[j]
  BY <1>1, <1>2, EntryReplaced
<1>4. parent # NoParent => parent \in Handle /\ Resolves(parent)
  BY <1>1, TableTypes DEF Forest
<1>5. slots' = IF parent # NoParent
               THEN [rest EXCEPT ![parent.slot].entry.children =
                       rest[parent.slot].entry.children \ {h}]
               ELSE rest
  BY <1>4 DEF Unlink
<1> HIDE DEF rest
<1>6. CASE parent = NoParent
  <2>1. \A j \in 1..Len(slots) : j # ParentSlot(parent)
    BY <1>6, TableTypes DEF ParentSlot
  <2>2. slots' = rest
    BY <1>5, <1>6
  <2>3. \A y : Others(i, ParentSlot(parent), y)
    BY <1>1, <1>3, <2>1, <2>2 DEF Others
  <2> QED
    BY <1>3, <2>2, <2>3 DEF Emptied
<1>7. CASE parent # NoParent
  <2> DEFINE k == parent.slot
             y == [slots[k].entry EXCEPT !.children = slots[k].entry.children \ {h}]
             new == [rest EXCEPT ![k].entry = y]
  <2>1. k \in OccupiedSlots /\ k \in 1..Len(slots) /\ Occupied(k) /\ ParentSlot(parent) = k
    BY <1>4, <1>7, ResolvedHandle DEF OccupiedSlots, ParentSlot
  <2>2. k # i
    <3>1. EntryOf(parent).id < slots[i].entry.id
      BY <1>1, <1>7 DEF Lineage
    <3>2. EntryOf(parent) = slots[k].entry /\ slots[i].entry.id \in Nat
      BY <1>1, TableTypes DEF EntryOf
    <3> QED
      BY <3>1, <3>2
  <2>3. k \in 1..Len(rest) /\ rest[k] = slots[k]
    BY <1>3, <2>1, <2>2
  <2>4. slots[k].entry \in Entry /\ slots[k].entry.children \subseteq Handle
    BY <2>1, TableTypes
  <2>5. /\ y \in Entry
        /\ y.id = slots[k].entry.id /\ y.parent = slots[k].entry.parent
        /\ y.children = slots[k].entry.children \ {h}
    BY <2>4 DEF Entry
  <2>6. slots' = new
    BY <1>5, <1>7, <2>3
  <2> HIDE DEF y
  <2> HIDE DEF k, parent, i
  <2>7. /\ slots' \in Seq(Slot) /\ Len(slots') = Len(rest)
        /\ slots'[k].entry = y /\ slots'[k].gen = rest[k].gen
        /\ \A j \in 1..Len(rest) : j # k => slots'[j] = rest[j]
    BY <1>3, <2>3, <2>5, <2>6, EntryReplaced
  <2>8. y # Empty /\ slots[k].entry # Empty
    <3>1. slots[k].entry.id \in 1..Len(issued) /\ Occupied(k)
      BY <2>1 DEF Lineage
    <3>2. y.id # 0 /\ Empty.id = 0
      BY <2>5, <3>1 DEF Empty
    <3> QED
      BY <3>1, <3>2 DEF Occupied
  <2>9. Others(i, k, slots[k].entry.children \ {h})
    BY <1>3, <2>2, <2>3, <2>5, <2>7, <2>8 DEF Others
  <2>10. slots'[i] = rest[i]
    BY <1>1, <1>3, <2>2, <2>7
  <2> QED
    BY <1>1, <1>3, <2>1, <2>7, <2>9, <2>10 DEF Emptied, i, parent
<1> QED
  BY <1>6, <1>7

\* What stays of a resource in another slot.
LEMMA OthersKeep ==
  ASSUME NEW i, NEW k, NEW x, Others(i, k, x),
         \A j \in 1..Len(slots) : j \in 1..Len(slots'),
         NEW h, Resolves(h), h.slot # i
  PROVE  /\ Resolves(h)'
         /\ EntryOf(h)'.id = EntryOf(h).id /\ EntryOf(h)'.parent = EntryOf(h).parent
         /\ EntryOf(h)'.children = IF h.slot = k THEN x ELSE EntryOf(h).children
  BY DEF Others, Resolves, Occupied, EntryOf

-----------------------------------------------------------------------------
(***************************************************************************)
(* create.                                                                 *)
(***************************************************************************)
\* The slot that create has filled is a new one among the occupied.
LEMMA CreatedOccupies ==
  ASSUME TypeOK, NEW i \in Nat, NEW g, NEW parent, Created(i, g, parent),
         i \in 1..Len(slots) => ~Occupied(i)
  PROVE  OccupiedSlots' = OccupiedSlots \cup {i} /\ i \notin OccupiedSlots
<1>1. slots'[i].entry.id # 0
  BY TableTypes DEF Created
<1>2. slots'[i].entry # Empty
  BY <1>1 DEF Empty
<1>3. i \notin OccupiedSlots
  BY DEF OccupiedSlots
<1>4. \A j \in 1..Len(slots') : slots'[j].entry # Empty <=> j = i \/ j \in OccupiedSlots
  BY <1>2, <1>3 DEF Created, Others, OccupiedSlots, Occupied
<1>5. \A j \in OccupiedSlots \cup {i} : j \in 1..Len(slots')
  BY DEF Created, OccupiedSlots
<1> QED
  BY <1>3, <1>4, <1>5 DEF OccupiedSlots, Occupied

\* A create leaves a forest.
LEMMA CreatedKeepsForest ==
  ASSUME TypeOK, Forest, NEW i \in Nat \ {0}, NEW g \in 1..MaxGeneration,
         NEW parent \in Handle \cup {NoParent}, Created(i, g, parent),
         i \in 1..Len(slots) => ~Occupied(i),
         parent # NoParent => parent \in Handle /\ Resolves(parent)
  PROVE  Forest'
<1> DEFINE h == [slot |-> i, gen |-> g]
<1>1. OccupiedSlots' = OccupiedSlots \cup {i} /\ i \notin OccupiedSlots
  BY CreatedOccupies
<1>2. /\ i \in 1..Len(slots') /\ slots'[i].gen = g
      /\ slots'[i].entry.parent = parent /\ slots'[i].entry.children = {}
  BY DEF Created
<1>3. h \in Handle /\ h.slot = i /\ h.gen = g /\ HandleOf(i)' = h
  BY <1>2 DEF Handle, HandleOf
<1>4. Resolves(h)' /\ EntryOf(h)' = slots'[i].entry
  BY <1>1, <1>2, <1>3 DEF Resolves, EntryOf, OccupiedSlots
<1> HIDE DEF h
<1>5. ASSUME NEW c \in Handle, Resolves(c)
      PROVE  /\ Resolves(c)' /\ EntryOf(c)'.parent = EntryOf(c).parent
             /\ EntryOf(c)'.children =
                  IF c.slot = ParentSlot(parent) THEN EntryOf(c).children \cup {h}
                                                 ELSE EntryOf(c).children
  <2>1. c.slot # i
    BY <1>1, <1>5, ResolvedHandle
  <2>2. \A j \in 1..Len(slots) : j \in 1..Len(slots')
    BY DEF Created
  <2>3. PICK x : x = slots[ParentSlot(parent)].entry.children \cup {h}
    OBVIOUS
  <2>4. Others(i, ParentSlot(parent), x)
    BY <2>3 DEF Created, Others, h
  <2>5. /\ Resolves(c)' /\ EntryOf(c)'.parent = EntryOf(c).parent
        /\ EntryOf(c)'.children = IF c.slot = ParentSlot(parent) THEN x ELSE EntryOf(c).children
    BY <1>5, <2>1, <2>2, <2>4, OthersKeep
  <2> QED
    BY <2>3, <2>5 DEF EntryOf
<1>6. parent # NoParent => Resolves(parent)' /\ h \in EntryOf(parent)'.children
  BY <1>5 DEF ParentSlot
<1> SUFFICES ASSUME NEW j \in OccupiedSlots'
             PROVE  /\ \A p : p = slots'[j].entry.parent /\ p # NoParent =>
                         Resolves(p)' /\ HandleOf(j)' \in EntryOf(p)'.children
                    /\ \A c \in slots'[j].entry.children :
                         Resolves(c)' /\ EntryOf(c)'.parent = HandleOf(j)'
  BY DEF Forest, Resolves, EntryOf, Occupied
<1>7. CASE j = i
  <2>1. slots'[j].entry.parent = parent /\ slots'[j].entry.children = {} /\ HandleOf(j)' = h
    BY <1>2, <1>3, <1>7
  <2> QED
    BY <1>6, <2>1
<1>8. CASE j # i
  <2> DEFINE p == slots[j].entry.parent
  <2>1. /\ j \in OccupiedSlots /\ j \in 1..Len(slots) /\ j \in 1..Len(slots')
        /\ p \in Handle \cup {NoParent} /\ slots[j].entry.children \subseteq Handle
    BY <1>1, <1>8, TableTypes DEF OccupiedSlots
  <2>2. /\ slots'[j].entry.parent = p /\ slots'[j].gen = slots[j].gen
        /\ slots'[j].entry.children =
             IF j = ParentSlot(parent) THEN slots[j].entry.children \cup {h}
                                       ELSE slots[j].entry.children
    BY <1>8, <2>1 DEF Created, Others, h
  <2>3. HandleOf(j)' = HandleOf(j)
    BY <2>2 DEF HandleOf
  <2>4. /\ p # NoParent => Resolves(p) /\ HandleOf(j) \in EntryOf(p).children
        /\ \A c \in slots[j].entry.children : Resolves(c) /\ EntryOf(c).parent = HandleOf(j)
    BY <2>1 DEF Forest
  <2>5. \A c \in Handle : Resolves(c) =>
          /\ Resolves(c)' /\ EntryOf(c)'.parent = EntryOf(c).parent
          /\ EntryOf(c).children \subseteq EntryOf(c)'.children
    BY <1>5
  <2>6. \A q : q = p /\ q # NoParent => Resolves(q)' /\ HandleOf(j)' \in EntryOf(q)'.children
    BY <2>1, <2>3, <2>4, <2>5
  <2>7. j = ParentSlot(parent) => parent # NoParent /\ parent = HandleOf(j)
    <3>1. j # 0
      BY <2>1, TableTypes
    <3> QED
      BY <2>1, <3>1, ResolvedHandle DEF ParentSlot
  <2>8. \A c \in slots'[j].entry.children : Resolves(c)' /\ EntryOf(c)'.parent = HandleOf(j)'
    <3> TAKE c \in slots'[j].entry.children
    <3>1. CASE c \in slots[j].entry.children
      BY <2>1, <2>3, <2>4, <2>5, <3>1
    <3>2. CASE c = h /\ j = ParentSlot(parent)
      <4>1. EntryOf(h)'.parent = parent
        BY <1>2, <1>4
      <4> QED
        BY <1>4, <2>3, <2>7, <3>2, <4>1
    <3> QED
      BY <2>2, <3>1, <3>2
  <2> QED
    BY <2>2, <2>6, <2>8
<1> QED
  BY <1>7, <1>8

\* A create records the lineage, and its resource is new.
LEMMA CreatedKeepsHistory ==
  ASSUME TypeOK, Forest, Lineage, Ends, ChildrenFirst,
         NEW i \in Nat \ {0}, NEW g \in 1..MaxGeneration,
         NEW parent \in Handle \cup {NoParent}, Created(i, g, parent),
         i \in 1..Len(slots) => ~Occupied(i),
         parent # NoParent => parent \in Handle /\ Resolves(parent),
         lineage' = Append(lineage, IF parent = NoParent THEN 0 ELSE EntryOf(parent).id),
         destroyed' = destroyed
  PROVE  /\ issued' \in Seq(Handle) /\ lineage' \in Seq(Nat)
         /\ Lineage' /\ Ends' /\ ChildrenFirst'
<1> DEFINE h == [slot |-> i, gen |-> g]
           id == Len(issued) + 1
<1>1. OccupiedSlots' = OccupiedSlots \cup {i} /\ i \notin OccupiedSlots
  BY CreatedOccupies
<1>2. /\ i \in 1..Len(slots') /\ slots'[i].gen = g /\ slots'[i].entry.id = id
      /\ slots'[i].entry.parent = parent /\ slots'[i].entry.children = {}
  BY DEF Created
<1>3. h \in Handle
  BY <1>2 DEF Handle
<1>4. Len(issued) \in Nat /\ issued \in Seq(Handle) /\ Len(lineage) = Len(issued)
      /\ lineage \in Seq(Nat)
  BY TableTypes DEF TypeOK, Lineage
<1>5. PICK a : a = IF parent = NoParent THEN 0 ELSE EntryOf(parent).id
  OBVIOUS
<1>6. a \in Nat
  BY <1>5, TableTypes DEF EntryOf, Resolves
<1>7. /\ issued' \in Seq(Handle) /\ Len(issued') = id
      /\ lineage' \in Seq(Nat) /\ Len(lineage') = id /\ lineage'[id] = a
      /\ \A n \in 1..Len(issued) : lineage'[n] = lineage[n]
  <2>1. issued' = Append(issued, h) /\ lineage' = Append(lineage, a)
    BY <1>5 DEF Created
  <2> HIDE DEF h
  <2> QED
    BY <1>3, <1>4, <1>6, <2>1, AppendProperties
<1>8. \A j \in OccupiedSlots :
        /\ j # i /\ j \in 1..Len(slots) /\ j \in 1..Len(slots')
        /\ slots[j].entry.id \in 1..Len(issued)
        /\ slots'[j].gen = slots[j].gen
        /\ slots'[j].entry.id = slots[j].entry.id
        /\ slots'[j].entry.parent = slots[j].entry.parent
        /\ j # ParentSlot(parent) => slots'[j].entry.children = slots[j].entry.children
  BY <1>1 DEF Lineage, Created, Others, OccupiedSlots
<1>9. \A p \in Handle : Resolves(p) => p.slot \in OccupiedSlots /\ EntryOf(p) = slots[p.slot].entry
  BY ResolvedHandle DEF EntryOf
<1>10. ASSUME NEW j \in OccupiedSlots'
       PROVE  /\ slots'[j].entry.id \in 1..Len(issued')
              /\ \A p : p = slots'[j].entry.parent =>
                   /\ lineage'[slots'[j].entry.id] = IF p = NoParent THEN 0 ELSE EntryOf(p)'.id
                   /\ p # NoParent => EntryOf(p)'.id < slots'[j].entry.id
              /\ slots'[j].entry.children # {} => HandleOf(j)' # NoParent
  <2>1. CASE j = i
    <3>1. parent # NoParent =>
            /\ parent.slot \in OccupiedSlots
            /\ a = slots[parent.slot].entry.id /\ a \in 1..Len(issued)
            /\ slots'[parent.slot].entry.id = a
      BY <1>5, <1>8, <1>9
    <3>2. parent # NoParent => EntryOf(parent)'.id = a /\ a < id
      BY <1>4, <3>1 DEF EntryOf
    <3>3. id \in 1..Len(issued') /\ lineage'[id] = a
      BY <1>4, <1>7
    <3> QED
      BY <1>2, <1>5, <2>1, <3>2, <3>3
  <2>2. CASE j # i
    <3>1. j \in OccupiedSlots /\ slots[j].entry.id \in 1..Len(issued)
      BY <1>1, <1>8, <2>2
    <3>2. slots[j].entry.id \in 1..Len(issued') /\ slots'[j].entry.id = slots[j].entry.id
      BY <1>4, <1>7, <1>8, <3>1
    <3>3. ASSUME NEW p, p = slots'[j].entry.parent
          PROVE  /\ lineage'[slots'[j].entry.id] = IF p = NoParent THEN 0 ELSE EntryOf(p)'.id
                 /\ p # NoParent => EntryOf(p)'.id < slots'[j].entry.id
      <4>1. p = slots[j].entry.parent /\ p \in Handle \cup {NoParent}
        BY <1>8, <3>1, <3>3, TableTypes
      <4>2. /\ lineage[slots[j].entry.id] = IF p = NoParent THEN 0 ELSE EntryOf(p).id
            /\ p # NoParent => EntryOf(p).id < slots[j].entry.id
        BY <3>1, <4>1 DEF Lineage
      <4>3. p # NoParent => p \in Handle /\ Resolves(p)
        BY <3>1, <4>1 DEF Forest
      <4>4. p # NoParent => EntryOf(p)'.id = EntryOf(p).id
        BY <1>8, <1>9, <4>3 DEF EntryOf
      <4> QED
        BY <1>7, <3>1, <3>2, <4>2, <4>4
    <3>4. slots'[j].entry.children # {} => HandleOf(j)' # NoParent
      <4>1. HandleOf(j)' = HandleOf(j)
        BY <1>8, <3>1 DEF HandleOf
      <4>2. CASE j = ParentSlot(parent)
        <5>1. j # 0
          BY <1>8, <3>1, TableTypes
        <5> QED
          BY <4>1, <4>2, <5>1, ResolvedHandle DEF ParentSlot
      <4>3. CASE j # ParentSlot(parent)
        BY <1>8, <3>1, <4>1, <4>3 DEF Lineage
      <4> QED
        BY <4>2, <4>3
    <3> QED
      BY <3>2, <3>3, <3>4
  <2> QED
    BY <2>1, <2>2
<1>11. \A j, m \in OccupiedSlots' : slots'[j].entry.id = slots'[m].entry.id => j = m
  <2>1. \A j \in OccupiedSlots : slots'[j].entry.id # id
    BY <1>4, <1>8
  <2> QED
    BY <1>1, <1>2, <1>8, <2>1 DEF Lineage
<1>12. Lineage'
  BY <1>7, <1>10, <1>11 DEF Lineage, EntryOf
<1>13. Ends'
  <2>1. \A n \in 1..Len(destroyed) : destroyed[n] \in 1..Len(issued) /\ destroyed[n] # id
    BY <1>4 DEF Ends
  <2>2. \A n \in 1..Len(destroyed') :
          /\ destroyed'[n] \in 1..Len(issued')
          /\ \A j \in OccupiedSlots' : slots'[j].entry.id # destroyed'[n]
    BY <1>1, <1>2, <1>4, <1>7, <1>8, <2>1 DEF Ends
  <2>3. ASSUME NEW n \in 1..Len(issued')
        PROVE  \/ \E j \in OccupiedSlots' : slots'[j].entry.id = n
               \/ \E m \in 1..Len(destroyed') : destroyed'[m] = n
    <3>1. CASE n = id
      BY <1>1, <1>2, <3>1
    <3>2. CASE n # id
      <4>1. n \in 1..Len(issued)
        BY <1>4, <1>7, <3>2
      <4>2. CASE \E j \in OccupiedSlots : slots[j].entry.id = n
        BY <1>1, <1>8, <4>2
      <4>3. CASE \E m \in 1..Len(destroyed) : destroyed[m] = n
        BY <4>3
      <4> QED
        BY <4>1, <4>2, <4>3 DEF Ends
    <3> QED
      BY <3>1, <3>2
  <2> QED
    BY <2>2, <2>3 DEF Ends
<1>14. ChildrenFirst'
  <2>1. \A n \in 1..Len(destroyed) : lineage'[destroyed[n]] = lineage[destroyed[n]]
    BY <1>7 DEF Ends
  <2>2. \A m, n \in 1..Len(destroyed) : m < n => lineage'[destroyed[n]] # destroyed[m]
    BY <2>1 DEF ChildrenFirst
  <2> QED
    BY <2>2 DEF ChildrenFirst
<1> QED
  BY <1>7, <1>12, <1>13, <1>14

\* The stack of free slots without its top, which is no longer empty.
LEMMA FreePopped ==
  ASSUME TypeOK, FreeSlots, free # <<>>, free' = SubSeq(free, 1, Len(free) - 1),
         Len(slots') = Len(slots),
         OccupiedSlots' = OccupiedSlots \cup {free[Len(free)]}
  PROVE  free' \in Seq(Nat \ {0}) /\ FreeSlots'
<1> DEFINE top == free[Len(free)]
<1>1. /\ free' \in Seq(Nat \ {0}) /\ Len(free') = Len(free) - 1
      /\ \A j \in 1..(Len(free) - 1) : free'[j] = free[j]
      /\ Len(free) \in Nat \ {0} /\ Len(free) \in 1..Len(free)
  BY FrontOfSeq DEF TypeOK
<1>2. \A j \in 1..Len(free') :
        j \in 1..Len(free) /\ j # Len(free) /\ free'[j] = free[j] /\ free'[j] # top
  BY <1>1 DEF FreeSlots
<1>3. \A j \in 1..Len(free') : free'[j] \in 1..Len(slots') /\ free'[j] \notin OccupiedSlots'
  BY <1>2 DEF FreeSlots, OccupiedSlots
<1>4. \A m, n \in 1..Len(free') : free'[m] = free'[n] => m = n
  BY <1>2 DEF FreeSlots
<1>5. \A i \in 1..Len(slots') : i \notin OccupiedSlots' => \E n \in 1..Len(free') : free'[n] = i
  <2> TAKE i \in 1..Len(slots')
  <2> HAVE i \notin OccupiedSlots'
  <2>1. i # top /\ i \in 1..Len(slots) /\ ~Occupied(i)
    BY DEF OccupiedSlots
  <2>2. PICK n \in 1..Len(free) : free[n] = i
    BY <2>1 DEF FreeSlots
  <2>3. n \in 1..Len(free') /\ n \in 1..(Len(free) - 1)
    BY <1>1, <2>1, <2>2
  <2> QED
    BY <1>1, <2>2, <2>3
<1> QED
  BY <1>1, <1>3, <1>4, <1>5 DEF FreeSlots, OccupiedSlots, Occupied

\* The table has finitely many resources.
LEMMA TableIsFinite == ASSUME TypeOK PROVE IsFiniteSet(OccupiedSlots)
<1>1. IsFiniteSet(1..Len(slots))
  BY TableTypes, FS_Interval
<1> QED
  BY <1>1, FS_Subset DEF OccupiedSlots

\* create keeps the invariant.
LEMMA CreateKeeps ==
  ASSUME IInv, NEW parent \in Issued \cup {NoParent}, Create(parent)
  PROVE  IInv'
<1> USE DEF IInv
<1>1. /\ Len(slots) \in Nat /\ Len(free) \in Nat /\ 1 \in 1..MaxGeneration
      /\ \A j \in 1..Len(slots) : slots[j].gen \in 1..MaxGeneration
      /\ free \in Seq(Nat \ {0}) /\ count \in Nat /\ destroyed \in Seq(Nat \ {0})
      /\ roots \subseteq Handle
  BY TableTypes, GenerationAssumption DEF TypeOK
<1>2. parent \in Handle \cup {NoParent} /\ (parent # NoParent => parent \in Handle /\ Resolves(parent))
  BY TableTypes DEF Issued, Create
<1>3. /\ closing = <<>> /\ ~closeAll /\ closing' = closing /\ closeAll' = closeAll
      /\ roots' = roots /\ destroyed' = destroyed /\ count' = count + 1
      /\ lineage' = Append(lineage, IF parent = NoParent THEN 0 ELSE EntryOf(parent).id)
  BY DEF Create, Idle
<1>4. \A j \in OccupiedSlots : slots[j].entry.id # 0
  <2>1. \A j \in OccupiedSlots : slots[j].entry.id \in 1..Len(issued)
    BY DEF Lineage
  <2> QED
    BY <2>1
<1>5. \E i \in Nat \ {0}, g \in 1..MaxGeneration :
        /\ Created(i, g, parent) /\ (i \in 1..Len(slots) => ~Occupied(i))
        /\ free' \in Seq(Nat \ {0}) /\ FreeSlots'
  <2>1. CASE free # <<>>
    <3> DEFINE top == free[Len(free)]
               g == NextGeneration(slots[top].gen)
    <3>1. CreateIn(top, g, parent) /\ free' = SubSeq(free, 1, Len(free) - 1)
      BY <2>1 DEF Create
    <3>2. top \in 1..Len(slots) /\ ~Occupied(top)
      BY <1>1, <2>1, FrontOfSeq DEF FreeSlots
    <3>3. g \in 1..MaxGeneration
      BY <1>1, <3>2, GenerationAssumption DEF NextGeneration
    <3>4. top \in 1..Len(slots) + 1 /\ top \in Nat \ {0}
      BY <1>1, <3>2
    <3> HIDE DEF top, g
    <3>5. Created(top, g, parent) /\ Len(slots') = Len(slots)
      BY <1>2, <1>4, <3>1, <3>2, <3>3, <3>4, CreateInShape
    <3>6. OccupiedSlots' = OccupiedSlots \cup {top}
      BY <3>2, <3>4, <3>5, CreatedOccupies
    <3>7. free' \in Seq(Nat \ {0}) /\ FreeSlots'
      BY <2>1, <3>1, <3>5, <3>6, FreePopped DEF top
    <3> QED
      BY <3>2, <3>3, <3>4, <3>5, <3>7
  <2>2. CASE free = <<>>
    <3> DEFINE i == Len(slots) + 1
    <3>1. CreateIn(i, 1, parent) /\ free' = free
      BY <2>2 DEF Create
    <3>2. i \in 1..Len(slots) + 1 /\ i \notin 1..Len(slots) /\ i \in Nat \ {0}
      BY <1>1
    <3> HIDE DEF i
    <3>3. Created(i, 1, parent) /\ Len(slots') = Len(slots) + 1
      BY <1>1, <1>2, <1>4, <3>1, <3>2, CreateInShape
    <3>4. OccupiedSlots' = OccupiedSlots \cup {i}
      BY <3>2, <3>3, CreatedOccupies
    <3>5. Len(free') = 0
      BY <2>2, <3>1, EmptySeq
    <3>6. \A j \in 1..Len(slots) : j \in OccupiedSlots
      BY <1>1, <2>2, EmptySeq DEF FreeSlots, OccupiedSlots
    <3>7. \A j \in 1..Len(slots') : j \in OccupiedSlots'
      BY <1>1, <3>3, <3>4, <3>6 DEF i
    <3>8. FreeSlots'
      BY <3>5, <3>7 DEF FreeSlots, OccupiedSlots, Occupied
    <3> QED
      BY <1>1, <3>1, <3>2, <3>3, <3>8
  <2> QED
    BY <2>1, <2>2
<1>6. PICK i \in Nat \ {0}, g \in 1..MaxGeneration :
        /\ Created(i, g, parent) /\ (i \in 1..Len(slots) => ~Occupied(i))
        /\ free' \in Seq(Nat \ {0}) /\ FreeSlots'
  BY <1>5
<1>7. Forest'
  BY <1>2, <1>6, CreatedKeepsForest
<1>8. /\ issued' \in Seq(Handle) /\ lineage' \in Seq(Nat)
      /\ Lineage' /\ Ends' /\ ChildrenFirst'
  BY <1>2, <1>3, <1>6, CreatedKeepsHistory
<1>9. CountRight' /\ count' \in Nat
  <2>1. OccupiedSlots' = OccupiedSlots \cup {i} /\ i \notin OccupiedSlots
    BY <1>6, CreatedOccupies
  <2>2. Cardinality(OccupiedSlots \cup {i}) = Cardinality(OccupiedSlots) + 1
    BY <2>1, TableIsFinite, FS_AddElement
  <2> QED
    BY <1>1, <1>3, <2>1, <2>2 DEF CountRight
<1>10. Descent' /\ RootsLeft'
  BY <1>3, EmptySeq DEF Descent, RootsLeft
<1>11. TypeOK'
  BY <1>1, <1>3, <1>6, <1>8, <1>9 DEF TypeOK, Created
<1> QED
  BY <1>6, <1>7, <1>8, <1>9, <1>10, <1>11

-----------------------------------------------------------------------------
(***************************************************************************)
(* The calls of close.                                                     *)
(***************************************************************************)
Frame == [handle : Handle, todo : SUBSET Handle]

\* What is about the table alone stays with the table.
LEMMA SameTable ==
  ASSUME IInv, UNCHANGED <<slots, free, count, history>>,
         closing' \in Seq(Frame), roots' \subseteq Handle, closeAll' \in BOOLEAN,
         Descent', RootsLeft'
  PROVE  IInv'
<1> USE DEF IInv, history
<1>1. OccupiedSlots' = OccupiedSlots
  BY DEF OccupiedSlots, Occupied
<1>2. TypeOK'
  BY DEF TypeOK, Frame
<1>3. Forest'
  BY <1>1 DEF Forest, Resolves, Occupied, EntryOf, HandleOf
<1>4. FreeSlots' /\ CountRight'
  BY <1>1 DEF FreeSlots, CountRight, Occupied
<1>5. Lineage'
  BY <1>1 DEF Lineage, EntryOf, HandleOf
<1>6. Ends' /\ ChildrenFirst'
  BY <1>1 DEF Ends, ChildrenFirst
<1> QED
  BY <1>2, <1>3, <1>4, <1>5, <1>6

\* The first call of close.
LEMMA FirstCall ==
  ASSUME TypeOK, closing = <<>>, NEW h \in Handle, Enter(h), slots' = slots
  PROVE  /\ Resolves(h) /\ closing' \in Seq(Frame) /\ Len(closing') = 1
         /\ closing'[1].handle = h /\ closing' # <<>>
         /\ Descent'
<1> DEFINE f == [handle |-> h, todo |-> EntryOf(h).children]
<1>1. Resolves(h) /\ EntryOf(h).children \subseteq Handle
  BY TableTypes DEF Enter, Resolves, EntryOf
<1>2. f \in Frame /\ f.handle = h /\ f.todo = EntryOf(h).children
  BY <1>1 DEF Frame
<1>3. closing' = Append(closing, f) /\ closing \in Seq(Frame) /\ Len(closing) = 0
  BY EmptySeq DEF Enter, TypeOK
<1> HIDE DEF f
<1>4. closing' \in Seq(Frame) /\ Len(closing') = 1 /\ closing'[1] = f
  BY <1>2, <1>3, AppendProperties
<1>5. closing' # <<>> /\ \A n \in 1..Len(closing') : n = 1
  BY <1>4, EmptySeq
<1>6. Resolves(h)' /\ EntryOf(h)' = EntryOf(h)
  BY <1>1 DEF Resolves, Occupied, EntryOf
<1>7. Descent'
  <2> SUFFICES ASSUME NEW n \in 1..Len(closing')
               PROVE  /\ \A k : k = closing'[n].handle =>
                           Resolves(k)' /\ EntryOf(k)'.children = closing'[n].todo
                      /\ n = Len(closing')
                      /\ \A m \in 1..Len(closing') : ~(m < n)
    <3>1. Len(closing') = 1
      BY <1>4
    <3> QED
      BY <3>1 DEF Descent, Resolves, Occupied, EntryOf
  <2>1. n = 1
    BY <1>5
  <2> QED
    BY <1>2, <1>4, <1>5, <1>6, <2>1
<1> QED
  BY <1>1, <1>2, <1>4, <1>5, <1>7

\* A program closes a resource.
LEMMA CloseKeeps == ASSUME IInv, NEW h \in Issued, Close(h) PROVE IInv'
<1>1. h \in Handle
  BY TableTypes DEF Issued, IInv
<1>2. /\ closing = <<>> /\ ~closeAll /\ Enter(h)
      /\ UNCHANGED <<slots, free, count, roots, closeAll, history>>
  BY DEF Close, Idle
<1>3. closing' \in Seq(Frame) /\ Descent'
  BY <1>1, <1>2, FirstCall DEF IInv
<1>4. RootsLeft'
  BY <1>2 DEF RootsLeft
<1> QED
  BY <1>2, <1>3, <1>4, SameTable DEF IInv, TypeOK

\* close_all begins with all roots.
LEMMA CloseAllKeeps == ASSUME IInv, CloseAll PROVE IInv'
<1>1. /\ closing = <<>> /\ closing' = closing /\ closeAll' = TRUE /\ roots' = Roots
      /\ UNCHANGED <<slots, free, count, history>>
  BY DEF CloseAll, Idle
<1>2. Roots \subseteq Handle
  BY OccupiedResolves DEF IInv, Roots
<1>3. Descent'
  BY <1>1, EmptySeq DEF Descent
<1>4. RootsLeft'
  BY <1>1 DEF RootsLeft, Roots, OccupiedSlots, Occupied, HandleOf
<1> QED
  BY <1>1, <1>2, <1>3, <1>4, SameTable DEF IInv, TypeOK, Frame

\* close_all closes a root.
LEMMA CloseRootKeeps == ASSUME IInv, CloseRoot PROVE IInv'
<1>1. PICK h \in roots : Enter(h) /\ roots' = roots \ {h}
  BY DEF CloseRoot
<1>2. closing = <<>> /\ closeAll /\ UNCHANGED <<slots, free, count, closeAll, history>>
  BY DEF CloseRoot
<1>3. h \in Handle /\ roots' \subseteq Handle
  BY <1>1 DEF IInv, TypeOK
<1>4. /\ closing' \in Seq(Frame) /\ closing'[1].handle = h /\ closing' # <<>>
      /\ Descent'
  BY <1>1, <1>2, <1>3, FirstCall DEF IInv
<1>5. \A i \in OccupiedSlots : slots[i].entry.parent = NoParent => HandleOf(i) \in roots
  BY <1>2 DEF IInv, RootsLeft
<1>6. RootsLeft'
  BY <1>1, <1>2, <1>4, <1>5 DEF RootsLeft, OccupiedSlots, Occupied, HandleOf
<1> QED
  BY <1>2, <1>3, <1>4, <1>6, SameTable DEF IInv, TypeOK

\* close_all returns.
LEMMA CloseAllEndsKeeps == ASSUME IInv, CloseAllEnds PROVE IInv'
<1>1. /\ closing' = closing /\ closeAll' = FALSE /\ roots' = roots
      /\ UNCHANGED <<slots, free, count, history>>
  BY DEF CloseAllEnds
<1>2. Descent'
  BY <1>1 DEF IInv, Descent, Resolves, Occupied, EntryOf
<1>3. RootsLeft'
  BY <1>1 DEF RootsLeft
<1> QED
  BY <1>1, <1>2, <1>3, SameTable DEF IInv, TypeOK, Frame

\* A child of a resource that is there is younger and knows its parent.
LEMMA ChildIsYounger ==
  ASSUME IInv, NEW h \in Handle, Resolves(h), NEW c \in EntryOf(h).children
  PROVE  /\ c \in Handle /\ Resolves(c) /\ h # NoParent
         /\ EntryOf(c).parent = h
         /\ EntryOf(h).id \in Nat /\ EntryOf(c).id \in Nat
         /\ EntryOf(h).id < EntryOf(c).id
<1> USE DEF IInv
<1>1. h.slot \in OccupiedSlots /\ HandleOf(h.slot) = h /\ h.slot \in 1..Len(slots)
  BY ResolvedHandle DEF OccupiedSlots
<1>2. c \in slots[h.slot].entry.children /\ c \in Handle
  BY <1>1, TableTypes DEF EntryOf
<1>3. Resolves(c) /\ EntryOf(c).parent = h
  BY <1>1, <1>2 DEF Forest
<1>4. h # NoParent
  BY <1>1, <1>2 DEF Lineage
<1>5. c.slot \in OccupiedSlots /\ c.slot \in 1..Len(slots)
  BY <1>2, <1>3, ResolvedHandle DEF OccupiedSlots
<1>6. EntryOf(h).id < slots[c.slot].entry.id
  BY <1>3, <1>4, <1>5 DEF Lineage, EntryOf
<1> QED
  BY <1>1, <1>2, <1>3, <1>4, <1>5, <1>6, TableTypes DEF EntryOf

\* What the calls under way know of the table.
LEMMA CallTypes ==
  ASSUME IInv, closing # <<>>
  PROVE  /\ Len(closing) \in Nat \ {0} /\ Len(closing) \in 1..Len(closing)
         /\ closing \in Seq(Frame)
         /\ \A n \in 1..Len(closing) :
              /\ closing[n] \in Frame /\ closing[n].handle \in Handle
              /\ Resolves(closing[n].handle) /\ EntryOf(closing[n].handle).id \in Nat
         /\ EntryOf(Top.handle).children = Top.todo
<1>1. closing \in Seq(Frame) /\ Len(closing) \in Nat \ {0} /\ Len(closing) \in 1..Len(closing)
  BY FrontOfSeq DEF IInv, TypeOK, Frame
<1>2. \A n \in 1..Len(closing) : closing[n] \in Frame /\ closing[n].handle \in Handle
  <2>1. \A n \in 1..Len(closing) : closing[n] \in Frame
    BY <1>1, ElementOfSeq
  <2> QED
    BY <2>1 DEF Frame
<1>3. \A n \in 1..Len(closing) : Resolves(closing[n].handle)
  BY DEF IInv, Descent
<1>4. \A n \in 1..Len(closing) : EntryOf(closing[n].handle).id \in Nat
  BY <1>3, TableTypes DEF IInv, Resolves, EntryOf
<1>5. EntryOf(Top.handle).children = Top.todo
  BY <1>1 DEF IInv, Descent, Top
<1> QED
  BY <1>1, <1>2, <1>3, <1>4, <1>5

\* close goes down to a child.
LEMMA CloseChildKeeps == ASSUME IInv, CloseChild PROVE IInv'
<1> DEFINE n == Len(closing)
           h == closing[n].handle
<1>1. closing # <<>> /\ UNCHANGED <<slots, free, count, roots, closeAll, history>>
  BY DEF CloseChild
<1>2. PICK c \in Top.todo :
        closing' = Append([closing EXCEPT ![Len(closing)].todo = @ \ {c}],
                          [handle |-> c, todo |-> EntryOf(c).children])
  BY DEF CloseChild
<1> DEFINE f == [closing[n] EXCEPT !.todo = closing[n].todo \ {c}]
           s == [closing EXCEPT ![n] = f]
           new == [handle |-> c, todo |-> EntryOf(c).children]
<1>3. /\ n \in Nat \ {0} /\ n \in 1..Len(closing) /\ closing \in Seq(Frame)
      /\ closing[n] \in Frame /\ h \in Handle /\ Resolves(h)
      /\ EntryOf(h).children = closing[n].todo /\ c \in closing[n].todo
  BY <1>1, CallTypes DEF Top
<1>4. /\ c \in Handle /\ Resolves(c) /\ EntryOf(h).id \in Nat /\ EntryOf(c).id \in Nat
      /\ EntryOf(h).id < EntryOf(c).id
  BY <1>3, ChildIsYounger
<1>5. EntryOf(c).children \subseteq Handle
  BY <1>4, TableTypes DEF IInv, Resolves, EntryOf
<1>6. f \in Frame /\ f.handle = h /\ f.todo = closing[n].todo \ {c}
  BY <1>3 DEF Frame
<1>7. new \in Frame /\ new.handle = c /\ new.todo = EntryOf(c).children
  BY <1>4, <1>5 DEF Frame
<1>8. closing' = Append(s, new)
  BY <1>2, <1>3
<1> HIDE DEF f, new
<1>9. /\ s \in Seq(Frame) /\ Len(s) = n /\ s[n] = f
      /\ \A j \in 1..n : j # n => s[j] = closing[j]
  BY <1>3, <1>6, ExceptSeq
<1> HIDE DEF s
<1>10. /\ closing' \in Seq(Frame) /\ Len(closing') = n + 1
       /\ closing'[n + 1] = new
       /\ \A j \in 1..n : closing'[j] = s[j]
  BY <1>3, <1>7, <1>8, <1>9, AppendProperties
<1>11. \A j \in 1..Len(closing') :
         \/ j \in 1..n /\ j # n /\ j < n /\ j + 1 \in 1..n /\ closing'[j] = closing[j]
         \/ j = n /\ closing'[j] = f
         \/ j = n + 1 /\ closing'[j] = new
  BY <1>3, <1>9, <1>10
<1>12. \A j \in 1..n : closing'[j].handle = closing[j].handle
  BY <1>3, <1>6, <1>9, <1>10
<1>13. Descent'
  <2> SUFFICES ASSUME NEW j \in 1..Len(closing')
               PROVE  /\ Resolves(closing'[j].handle)
                      /\ j = Len(closing') => EntryOf(closing'[j].handle).children = closing'[j].todo
                      /\ j < Len(closing') =>
                           /\ EntryOf(closing'[j].handle).children =
                                closing'[j].todo \cup {closing'[j + 1].handle}
                           /\ closing'[j + 1].handle \notin closing'[j].todo
                      /\ \A m \in 1..Len(closing') : m < j =>
                           EntryOf(closing'[m].handle).id < EntryOf(closing'[j].handle).id
    BY <1>1 DEF Descent, Resolves, Occupied, EntryOf
  <2>1. CASE j \in 1..n /\ j < n /\ j + 1 \in 1..n /\ closing'[j] = closing[j]
    <3>1. /\ Resolves(closing[j].handle)
          /\ EntryOf(closing[j].handle).children = closing[j].todo \cup {closing[j + 1].handle}
          /\ closing[j + 1].handle \notin closing[j].todo
          /\ \A m \in 1..n : m < j => EntryOf(closing[m].handle).id < EntryOf(closing[j].handle).id
      BY <2>1 DEF IInv, Descent
    <3>2. j # Len(closing') /\ \A m \in 1..Len(closing') : m < j => m \in 1..n
      BY <1>3, <1>10, <2>1
    <3> QED
      BY <1>12, <2>1, <3>1, <3>2
  <2>2. CASE j = n /\ closing'[j] = f
    <3>1. \A m \in 1..n : m < n => EntryOf(closing[m].handle).id < EntryOf(h).id
      BY <1>3 DEF IInv, Descent
    <3>2. closing'[j + 1].handle = c /\ j # Len(closing')
      BY <1>3, <1>7, <1>10, <2>2
    <3>3. \A m \in 1..Len(closing') : m < j => m \in 1..n /\ m < n
      BY <1>3, <1>10, <2>2
    <3> QED
      BY <1>3, <1>6, <1>12, <2>2, <3>1, <3>2, <3>3
  <2>3. CASE j = n + 1 /\ closing'[j] = new
    <3>1. \A m \in 1..n : EntryOf(closing[m].handle).id < EntryOf(c).id
      <4>1. \A m \in 1..n : m # n => EntryOf(closing[m].handle).id < EntryOf(h).id
        <5>1. \A m \in 1..n : m # n => m < n
          BY <1>3
        <5> QED
          BY <1>3, <5>1 DEF IInv, Descent
      <4>2. \A m \in 1..n : EntryOf(closing[m].handle).id \in Nat
        BY <1>1, CallTypes
      <4> QED
        BY <1>4, <4>1, <4>2
    <3>2. j = Len(closing') /\ \A m \in 1..Len(closing') : m < j => m \in 1..n
      BY <1>3, <1>10, <2>3
    <3> QED
      BY <1>4, <1>7, <1>12, <2>3, <3>1, <3>2
  <2> QED
    BY <1>11, <2>1, <2>2, <2>3
<1>14. RootsLeft'
  <2>1. closing' # <<>> /\ closing'[1].handle = closing[1].handle
    BY <1>3, <1>10, <1>12, EmptySeq
  <2> QED
    BY <1>1, <2>1 DEF IInv, RootsLeft, OccupiedSlots, Occupied, HandleOf
<1> QED
  BY <1>1, <1>10, <1>13, <1>14, SameTable DEF IInv, TypeOK

-----------------------------------------------------------------------------
(***************************************************************************)
(* destroy.                                                                *)
(***************************************************************************)
\* The slot that is emptied is gone from the occupied.
LEMMA EmptiedOccupies ==
  ASSUME TypeOK, NEW i \in OccupiedSlots, Emptied(i)
  PROVE  /\ OccupiedSlots' = OccupiedSlots \ {i}
         /\ \A j \in OccupiedSlots' :
              /\ j \in OccupiedSlots /\ j # i
              /\ slots'[j].gen = slots[j].gen /\ HandleOf(j)' = HandleOf(j)
              /\ slots'[j].entry.id = slots[j].entry.id
              /\ slots'[j].entry.parent = slots[j].entry.parent
              /\ slots'[j].entry.children =
                   IF j = ParentSlot(slots[i].entry.parent)
                   THEN slots[j].entry.children \ {HandleOf(i)} ELSE slots[j].entry.children
<1>1. /\ Len(slots') = Len(slots) /\ i \in 1..Len(slots) /\ slots'[i].entry = Empty
      /\ \A j \in 1..Len(slots') : j # i => (slots'[j].entry = Empty <=> slots[j].entry = Empty)
  BY DEF Emptied, Others, OccupiedSlots
<1>2. OccupiedSlots' = OccupiedSlots \ {i}
  BY <1>1 DEF OccupiedSlots, Occupied
<1>3. \A j \in OccupiedSlots' :
        /\ j \in OccupiedSlots /\ j # i /\ j \in 1..Len(slots')
  BY <1>1, <1>2 DEF OccupiedSlots
<1>4. \A j \in OccupiedSlots' :
        /\ slots'[j].gen = slots[j].gen
        /\ slots'[j].entry.id = slots[j].entry.id
        /\ slots'[j].entry.parent = slots[j].entry.parent
        /\ slots'[j].entry.children =
             IF j = ParentSlot(slots[i].entry.parent)
             THEN slots[j].entry.children \ {HandleOf(i)} ELSE slots[j].entry.children
  BY <1>3 DEF Emptied, Others
<1>5. \A j \in OccupiedSlots' : HandleOf(j)' = HandleOf(j)
  BY <1>4 DEF HandleOf
<1> QED
  BY <1>2, <1>3, <1>4, <1>5

\* What stays of a handle that resolves, in another slot.
LEMMA EmptiedKeeps ==
  ASSUME TypeOK, NEW i \in OccupiedSlots, Emptied(i),
         NEW h \in Handle, Resolves(h), h.slot # i
  PROVE  /\ Resolves(h)' /\ h.slot \in OccupiedSlots'
         /\ EntryOf(h)'.id = EntryOf(h).id /\ EntryOf(h)'.parent = EntryOf(h).parent
         /\ EntryOf(h)'.children =
              IF h.slot = ParentSlot(slots[i].entry.parent)
              THEN EntryOf(h).children \ {HandleOf(i)} ELSE EntryOf(h).children
<1>1. h.slot \in OccupiedSlots /\ HandleOf(h.slot) = h
  BY ResolvedHandle
<1>2. h.slot \in OccupiedSlots'
  BY <1>1, EmptiedOccupies
<1>3. /\ slots'[h.slot].gen = slots[h.slot].gen
      /\ slots'[h.slot].entry.id = slots[h.slot].entry.id
      /\ slots'[h.slot].entry.parent = slots[h.slot].entry.parent
      /\ slots'[h.slot].entry.children =
           IF h.slot = ParentSlot(slots[i].entry.parent)
           THEN slots[h.slot].entry.children \ {HandleOf(i)} ELSE slots[h.slot].entry.children
  BY <1>2, EmptiedOccupies
<1>4. Resolves(h)'
  BY <1>2, <1>3 DEF Resolves, OccupiedSlots
<1> QED
  BY <1>2, <1>3, <1>4 DEF EntryOf

\* Without a resource that has no children it is a forest still.
LEMMA EmptiedKeepsForest ==
  ASSUME TypeOK, Forest, Lineage, NEW i \in OccupiedSlots, Emptied(i),
         slots[i].entry.children = {}
  PROVE  Forest'
<1> SUFFICES ASSUME NEW j \in OccupiedSlots'
             PROVE  /\ \A p : p = slots'[j].entry.parent /\ p # NoParent =>
                         Resolves(p)' /\ HandleOf(j)' \in EntryOf(p)'.children
                    /\ \A c \in slots'[j].entry.children :
                         Resolves(c)' /\ EntryOf(c)'.parent = HandleOf(j)'
  BY DEF Forest, Resolves, EntryOf, Occupied
<1>1. /\ j \in OccupiedSlots /\ j # i /\ j \in 1..Len(slots)
      /\ HandleOf(j)' = HandleOf(j) /\ HandleOf(j).slot = j /\ HandleOf(i).slot = i
      /\ slots'[j].entry.parent = slots[j].entry.parent
      /\ slots'[j].entry.children =
           IF j = ParentSlot(slots[i].entry.parent)
           THEN slots[j].entry.children \ {HandleOf(i)} ELSE slots[j].entry.children
  BY EmptiedOccupies, OccupiedResolves
<1>2. ASSUME NEW p, p = slots'[j].entry.parent, p # NoParent
      PROVE  Resolves(p)' /\ HandleOf(j)' \in EntryOf(p)'.children
  <2>1. p \in Handle /\ Resolves(p) /\ HandleOf(j) \in EntryOf(p).children
    BY <1>1, <1>2, TableTypes DEF Forest
  <2>2. p.slot # i
    BY <2>1 DEF EntryOf
  <2>3. HandleOf(j) # HandleOf(i)
    BY <1>1
  <2> QED
    BY <1>1, <2>1, <2>2, <2>3, EmptiedKeeps
<1>3. ASSUME NEW c \in slots'[j].entry.children
      PROVE  Resolves(c)' /\ EntryOf(c)'.parent = HandleOf(j)'
  <2>1. c \in slots[j].entry.children /\ c \in Handle
    BY <1>1, TableTypes
  <2>2. Resolves(c) /\ EntryOf(c).parent = HandleOf(j)
    BY <1>1, <2>1 DEF Forest
  <2>3. c.slot # i
    <3> SUFFICES ASSUME c.slot = i PROVE FALSE
      OBVIOUS
    <3>1. c = HandleOf(i) /\ slots[i].entry.parent = HandleOf(j)
      BY <2>1, <2>2, ResolvedHandle DEF EntryOf
    <3>2. HandleOf(j) # NoParent
      BY <1>1, <2>1 DEF Lineage
    <3>3. ParentSlot(slots[i].entry.parent) = j
      BY <1>1, <3>1, <3>2 DEF ParentSlot
    <3> QED
      BY <1>1, <3>1, <3>3
  <2> QED
    BY <1>1, <2>1, <2>2, <2>3, EmptiedKeeps
<1> QED
  BY <1>2, <1>3

\* What is destroyed is destroyed for the first time, and its parent is there.
LEMMA EmptiedKeepsHistory ==
  ASSUME TypeOK, Forest, Lineage, Ends, ChildrenFirst,
         NEW i \in OccupiedSlots, Emptied(i), slots[i].entry.children = {},
         issued' = issued, lineage' = lineage,
         destroyed' = Append(destroyed, slots[i].entry.id)
  PROVE  destroyed' \in Seq(Nat \ {0}) /\ Lineage' /\ Ends' /\ ChildrenFirst'
<1>1. PICK id : id = slots[i].entry.id
  OBVIOUS
<1>2. id \in 1..Len(issued) /\ Len(issued) \in Nat
  BY <1>1, TableTypes DEF Lineage
<1>3. /\ destroyed' \in Seq(Nat \ {0}) /\ Len(destroyed) \in Nat
      /\ Len(destroyed') = Len(destroyed) + 1 /\ destroyed'[Len(destroyed) + 1] = id
      /\ \A n \in 1..Len(destroyed) : destroyed'[n] = destroyed[n]
  <2>1. destroyed \in Seq(Nat \ {0}) /\ id \in Nat \ {0}
    BY <1>2 DEF TypeOK
  <2> QED
    BY <1>1, <2>1, AppendProperties, LenProperties
<1>4. \A n \in 1..Len(destroyed') :
        \/ n \in 1..Len(destroyed) /\ destroyed'[n] = destroyed[n] /\ n # Len(destroyed) + 1
        \/ n = Len(destroyed) + 1 /\ destroyed'[n] = id
  BY <1>3
<1>5. \A j \in OccupiedSlots' :
        /\ j \in OccupiedSlots /\ j # i /\ j \in 1..Len(slots)
        /\ HandleOf(j)' = HandleOf(j)
        /\ slots'[j].entry.id = slots[j].entry.id
        /\ slots'[j].entry.parent = slots[j].entry.parent
        /\ slots'[j].entry.children # {} => slots[j].entry.children # {}
  BY EmptiedOccupies DEF OccupiedSlots
<1>6. Lineage'
  <2>1. ASSUME NEW j \in OccupiedSlots'
        PROVE  /\ slots'[j].entry.id \in 1..Len(issued)
               /\ \A p : p = slots'[j].entry.parent =>
                    /\ lineage[slots'[j].entry.id] = IF p = NoParent THEN 0 ELSE EntryOf(p)'.id
                    /\ p # NoParent => EntryOf(p)'.id < slots'[j].entry.id
               /\ slots'[j].entry.children # {} => HandleOf(j)' # NoParent
    <3>1. slots'[j].entry.id \in 1..Len(issued)
      BY <1>5 DEF Lineage
    <3>2. slots'[j].entry.children # {} => HandleOf(j)' # NoParent
      BY <1>5 DEF Lineage
    <3>3. ASSUME NEW p, p = slots'[j].entry.parent
          PROVE  /\ lineage[slots'[j].entry.id] = IF p = NoParent THEN 0 ELSE EntryOf(p)'.id
                 /\ p # NoParent => EntryOf(p)'.id < slots'[j].entry.id
      <4>1. /\ lineage[slots[j].entry.id] = IF p = NoParent THEN 0 ELSE EntryOf(p).id
            /\ p # NoParent => EntryOf(p).id < slots[j].entry.id
        BY <1>5, <3>3 DEF Lineage
      <4>2. p # NoParent => p \in Handle /\ Resolves(p) /\ HandleOf(j) \in EntryOf(p).children
        BY <1>5, <3>3, TableTypes DEF Forest
      <4>3. p # NoParent => p.slot # i
        BY <4>2 DEF EntryOf
      <4>4. p # NoParent => EntryOf(p)'.id = EntryOf(p).id
        BY <4>2, <4>3, EmptiedKeeps
      <4> QED
        BY <1>5, <4>1, <4>4
    <3> QED
      BY <3>1, <3>2, <3>3
  <2>2. \A j, m \in OccupiedSlots' : slots'[j].entry.id = slots'[m].entry.id => j = m
    BY <1>5 DEF Lineage
  <2> QED
    BY <2>1, <2>2 DEF Lineage, EntryOf
<1>7. \A j \in OccupiedSlots : j # i => j \in OccupiedSlots' /\ slots[j].entry.id # id
  BY <1>1, EmptiedOccupies DEF Lineage
<1>8. Ends'
  <2>1. \A n \in 1..Len(destroyed) :
          destroyed[n] \in 1..Len(issued) /\ destroyed[n] # id
    BY <1>1 DEF Ends
  <2>2. \A n \in 1..Len(destroyed') :
          /\ destroyed'[n] \in 1..Len(issued)
          /\ \A j \in OccupiedSlots' : slots'[j].entry.id # destroyed'[n]
    <3> TAKE n \in 1..Len(destroyed')
    <3>1. CASE n \in 1..Len(destroyed) /\ destroyed'[n] = destroyed[n]
      BY <1>5, <2>1, <3>1 DEF Ends
    <3>2. CASE n = Len(destroyed) + 1 /\ destroyed'[n] = id
      BY <1>2, <1>5, <1>7, <3>2
    <3> QED
      BY <1>4, <3>1, <3>2
  <2>3. \A m, n \in 1..Len(destroyed') : destroyed'[m] = destroyed'[n] => m = n
    BY <1>4, <2>1 DEF Ends
  <2>4. ASSUME NEW a \in 1..Len(issued)
        PROVE  \/ \E j \in OccupiedSlots' : slots'[j].entry.id = a
               \/ \E m \in 1..Len(destroyed') : destroyed'[m] = a
    <3>1. CASE a = id
      BY <1>3, <3>1
    <3>2. CASE a # id /\ \E j \in OccupiedSlots : slots[j].entry.id = a
      BY <1>1, <1>5, <1>7, <3>2
    <3>3. CASE \E m \in 1..Len(destroyed) : destroyed[m] = a
      <4>1. PICK m \in 1..Len(destroyed) : destroyed[m] = a
        BY <3>3
      <4>2. m \in 1..Len(destroyed') /\ destroyed'[m] = a
        BY <1>3, <4>1
      <4> QED
        BY <4>2
    <3> QED
      BY <3>1, <3>2, <3>3 DEF Ends
  <2> QED
    BY <2>2, <2>3, <2>4 DEF Ends
<1>9. ChildrenFirst'
  <2>1. \A m \in 1..Len(destroyed) : destroyed[m] # 0 /\ destroyed[m] # lineage[id]
    <3> TAKE m \in 1..Len(destroyed)
    <3>1. destroyed[m] \in 1..Len(issued)
      BY DEF Ends
    <3>2. CASE slots[i].entry.parent = NoParent
      BY <1>1, <3>1, <3>2 DEF Lineage
    <3>3. CASE slots[i].entry.parent # NoParent
      <4>1. PICK p : p = slots[i].entry.parent
        OBVIOUS
      <4>2. p \in Handle /\ Resolves(p)
        BY <3>3, <4>1, TableTypes DEF Forest, OccupiedSlots
      <4>3. p.slot \in OccupiedSlots /\ lineage[id] = slots[p.slot].entry.id
        BY <1>1, <3>3, <4>1, <4>2, ResolvedHandle DEF Lineage, EntryOf
      <4> QED
        BY <3>1, <4>3 DEF Ends
    <3> QED
      BY <3>2, <3>3
  <2>2. ASSUME NEW m \in 1..Len(destroyed'), NEW n \in 1..Len(destroyed'), m < n
        PROVE  lineage[destroyed'[n]] # destroyed'[m]
    <3>1. m \in 1..Len(destroyed) /\ destroyed'[m] = destroyed[m]
      BY <1>3, <2>2
    <3>2. CASE n \in 1..Len(destroyed) /\ destroyed'[n] = destroyed[n]
      BY <2>2, <3>1, <3>2 DEF ChildrenFirst
    <3>3. CASE n = Len(destroyed) + 1 /\ destroyed'[n] = id
      BY <2>1, <3>1, <3>3
    <3> QED
      BY <1>4, <3>2, <3>3
  <2> QED
    BY <2>2 DEF ChildrenFirst
<1> QED
  BY <1>3, <1>6, <1>8, <1>9

\* The stack of free slots with the slot that is emptied on its top.
LEMMA FreePushed ==
  ASSUME TypeOK, FreeSlots, NEW i \in OccupiedSlots, free' = Append(free, i),
         Len(slots') = Len(slots), OccupiedSlots' = OccupiedSlots \ {i}
  PROVE  free' \in Seq(Nat \ {0}) /\ FreeSlots'
<1>1. /\ i \in 1..Len(slots) /\ i \in Nat \ {0} /\ Len(free) \in Nat
      /\ free \in Seq(Nat \ {0})
  BY TableTypes DEF OccupiedSlots, TypeOK
<1>2. /\ free' \in Seq(Nat \ {0}) /\ Len(free') = Len(free) + 1
      /\ free'[Len(free) + 1] = i
      /\ \A j \in 1..Len(free) : free'[j] = free[j]
  BY <1>1, AppendProperties
<1>3. \A j \in 1..Len(free') :
        \/ j \in 1..Len(free) /\ free'[j] = free[j]
        \/ j = Len(free) + 1 /\ free'[j] = i
  BY <1>1, <1>2
<1>4. \A j \in 1..Len(free) : free[j] \in 1..Len(slots) /\ free[j] \notin OccupiedSlots
  BY DEF FreeSlots, OccupiedSlots
<1>5. \A j \in 1..Len(free') : free'[j] \in 1..Len(slots') /\ free'[j] \notin OccupiedSlots'
  BY <1>1, <1>3, <1>4
<1>6. \A m, n \in 1..Len(free') : free'[m] = free'[n] => m = n
  <2>1. \A m, n \in 1..Len(free) : free[m] = free[n] => m = n
    BY DEF FreeSlots
  <2> QED
    BY <1>3, <1>4, <2>1
<1>7. \A j \in 1..Len(slots') : j \notin OccupiedSlots' => \E n \in 1..Len(free') : free'[n] = j
  <2> TAKE j \in 1..Len(slots')
  <2> HAVE j \notin OccupiedSlots'
  <2>1. CASE j = i
    BY <1>1, <1>2, <2>1
  <2>2. CASE j # i
    <3>1. j \in 1..Len(slots) /\ ~Occupied(j)
      BY <2>2 DEF OccupiedSlots
    <3>2. PICK n \in 1..Len(free) : free[n] = j
      BY <3>1 DEF FreeSlots
    <3>3. n \in 1..Len(free')
      BY <1>1, <1>2
    <3> QED
      BY <1>2, <3>2, <3>3
  <2> QED
    BY <2>1, <2>2
<1> QED
  BY <1>2, <1>5, <1>6, <1>7 DEF FreeSlots, OccupiedSlots, Occupied

\* The call that has destroyed its resource returns to the one that holds its
\* parent.
LEMMA DestroyKeepsDescent ==
  ASSUME IInv, Destroy, Emptied(Top.handle.slot)
  PROVE  closing' \in Seq(Frame) /\ Descent' /\ RootsLeft'
<1> DEFINE n == Len(closing)
           h == closing[n].handle
           i == h.slot
<1>1. /\ closing # <<>> /\ closing' = SubSeq(closing, 1, n - 1) /\ Top = closing[n]
      /\ roots' = roots /\ closeAll' = closeAll
  BY DEF Destroy, Top
<1>2. /\ n \in Nat \ {0} /\ n \in 1..Len(closing) /\ closing \in Seq(Frame)
      /\ \A j \in 1..n : closing[j].handle \in Handle /\ Resolves(closing[j].handle)
                         /\ EntryOf(closing[j].handle).id \in Nat
  BY <1>1, CallTypes
<1>3. /\ closing' \in Seq(Frame) /\ Len(closing') = n - 1
      /\ \A j \in 1..(n - 1) : closing'[j] = closing[j]
  BY <1>1, <1>2, FrontOfSeq
<1>4. h \in Handle /\ Resolves(h) /\ i \in OccupiedSlots /\ HandleOf(i) = h /\ Emptied(i)
  BY <1>1, <1>2, ResolvedHandle
<1>5. ASSUME NEW j \in 1..(n - 1)
      PROVE  /\ j \in 1..n /\ j < n /\ j + 1 \in 1..n
             /\ closing[j].handle.slot # i
             /\ Resolves(closing[j].handle)
             /\ EntryOf(closing[j].handle).children = closing[j].todo \cup {closing[j + 1].handle}
             /\ closing[j + 1].handle \notin closing[j].todo
             /\ closing[j + 1].handle \in Handle
             /\ \A m \in 1..(n - 1) : m < j =>
                  EntryOf(closing[m].handle).id < EntryOf(closing[j].handle).id
  <2>1. j \in 1..n /\ j < n /\ j + 1 \in 1..n /\ \A m \in 1..(n - 1) : m \in 1..n
    BY <1>2
  <2>2. EntryOf(closing[j].handle).id < EntryOf(h).id
    BY <1>2, <2>1 DEF IInv, Descent
  <2>3. closing[j].handle.slot # i
    BY <1>2, <2>1, <2>2 DEF EntryOf
  <2> QED
    BY <1>2, <2>1, <2>3 DEF IInv, Descent
<1>6. ASSUME NEW j \in 1..(n - 1), NEW k, k = closing[j].handle
      PROVE  /\ Resolves(k)' /\ EntryOf(k)'.id = EntryOf(k).id
             /\ j = n - 1 => EntryOf(k)'.children = closing[j].todo
             /\ j # n - 1 => EntryOf(k)'.children = EntryOf(k).children
  <2> DEFINE c == closing[j + 1].handle
  <2>1. /\ k \in Handle /\ k.slot # i /\ Resolves(k)
        /\ EntryOf(k).children = closing[j].todo \cup {c} /\ c \notin closing[j].todo
        /\ c \in Handle
    BY <1>2, <1>5, <1>6
  <2>2. /\ Resolves(k)' /\ EntryOf(k)'.id = EntryOf(k).id
        /\ EntryOf(k)'.children = IF k.slot = ParentSlot(slots[i].entry.parent)
                                  THEN EntryOf(k).children \ {h} ELSE EntryOf(k).children
    BY <1>4, <2>1, EmptiedKeeps DEF IInv
  <2>3. Resolves(c) /\ EntryOf(c).parent = k /\ k # NoParent
    BY <2>1, ChildIsYounger
  <2>4. CASE j = n - 1
    <3>1. c = h
      BY <1>2, <2>4
    <3>2. ParentSlot(slots[i].entry.parent) = k.slot
      BY <2>3, <3>1 DEF EntryOf, ParentSlot
    <3> QED
      BY <2>1, <2>2, <2>4, <3>1, <3>2
  <2>5. CASE j # n - 1
    <3>1. k.slot # ParentSlot(slots[i].entry.parent)
      <4> SUFFICES ASSUME k.slot = ParentSlot(slots[i].entry.parent) PROVE FALSE
        OBVIOUS
      <4>1. n - 1 \in 1..(n - 1) /\ n - 1 + 1 = n /\ j < n - 1
        BY <1>2, <2>5
      <4>2. PICK q : q = closing[n - 1].handle
        OBVIOUS
      <4>3. q \in Handle /\ Resolves(q) /\ h \in EntryOf(q).children
        BY <1>2, <1>5, <4>1, <4>2
      <4>4. EntryOf(h).parent = q /\ q # NoParent
        BY <4>3, ChildIsYounger
      <4>5. q.slot = k.slot
        BY <4>4 DEF EntryOf, ParentSlot
      <4>6. EntryOf(closing[j].handle).id < EntryOf(closing[n - 1].handle).id
        BY <1>5, <4>1
      <4>7. EntryOf(k).id < EntryOf(q).id /\ EntryOf(k).id \in Nat
        BY <1>2, <1>5, <1>6, <4>2, <4>6
      <4> QED
        BY <4>5, <4>7 DEF EntryOf
    <3> QED
      BY <2>2, <2>5, <3>1
  <2> QED
    BY <2>4, <2>5
<1>7. Descent'
  <2> SUFFICES ASSUME NEW j \in 1..Len(closing'), NEW k, k = closing'[j].handle
               PROVE  /\ Resolves(k)'
                      /\ j = Len(closing') => EntryOf(k)'.children = closing'[j].todo
                      /\ j < Len(closing') =>
                           /\ EntryOf(k)'.children = closing'[j].todo \cup {closing'[j + 1].handle}
                           /\ closing'[j + 1].handle \notin closing'[j].todo
                      /\ \A m \in 1..Len(closing') : m < j =>
                           slots'[closing'[m].handle.slot].entry.id < EntryOf(k)'.id
    BY DEF Descent, Resolves, Occupied, EntryOf
  <2>1. /\ j \in 1..(n - 1) /\ closing'[j] = closing[j] /\ k = closing[j].handle
        /\ Len(closing') = n - 1
    BY <1>3
  <2>2. /\ Resolves(k)' /\ EntryOf(k)'.id = EntryOf(k).id
        /\ j = n - 1 => EntryOf(k)'.children = closing[j].todo
    BY <1>6, <2>1
  <2>3. ASSUME j < n - 1
        PROVE  /\ EntryOf(k)'.children = closing[j].todo \cup {closing'[j + 1].handle}
               /\ closing'[j + 1].handle \notin closing[j].todo
    <3>1. j + 1 \in 1..(n - 1) /\ j # n - 1
      BY <1>2, <2>1, <2>3
    <3>2. closing'[j + 1] = closing[j + 1]
      BY <1>3, <3>1
    <3>3. EntryOf(k)'.children = EntryOf(k).children
      BY <1>6, <2>1, <3>1
    <3>4. /\ EntryOf(k).children = closing[j].todo \cup {closing[j + 1].handle}
          /\ closing[j + 1].handle \notin closing[j].todo
      BY <1>5, <2>1
    <3> QED
      BY <3>2, <3>3, <3>4
  <2>4. ASSUME NEW m \in 1..(n - 1), m < j
        PROVE  slots'[closing'[m].handle.slot].entry.id < EntryOf(k)'.id
    <3>1. PICK q : q = closing[m].handle
      OBVIOUS
    <3>2. EntryOf(q).id < EntryOf(k).id
      BY <1>5, <2>1, <2>4, <3>1
    <3>3. EntryOf(q)'.id = EntryOf(q).id /\ closing'[m].handle = q
      BY <1>3, <1>6, <3>1
    <3> QED
      BY <2>2, <3>2, <3>3 DEF EntryOf
  <2> QED
    BY <2>1, <2>2, <2>3, <2>4
<1>8. RootsLeft'
  <2> SUFFICES ASSUME closeAll, NEW j \in OccupiedSlots', slots'[j].entry.parent = NoParent
               PROVE  \/ HandleOf(j)' \in roots
                      \/ closing' # <<>> /\ closing'[1].handle = HandleOf(j)'
    BY <1>1 DEF RootsLeft
  <2>1. /\ j \in OccupiedSlots /\ j # i /\ HandleOf(j)' = HandleOf(j)
        /\ slots[j].entry.parent = NoParent /\ HandleOf(j).slot = j
    BY <1>4, EmptiedOccupies, OccupiedResolves DEF IInv
  <2>2. CASE HandleOf(j) \in roots
    BY <2>1, <2>2
  <2>3. CASE closing[1].handle = HandleOf(j)
    <3>1. n # 1
      BY <2>1, <2>3
    <3>2. 1 \in 1..(n - 1) /\ n - 1 # 0
      <4>1. \A k \in Nat \ {0} : k # 1 => 1 \in 1..(k - 1) /\ k - 1 # 0
        OBVIOUS
      <4>2. n \in Nat \ {0}
        BY <1>2
      <4> HIDE DEF n
      <4> QED
        BY <3>1, <4>1, <4>2
    <3> QED
      BY <1>3, <2>1, <2>3, <3>2, EmptySeq
  <2> QED
    BY <2>1, <2>2, <2>3 DEF IInv, RootsLeft
<1> QED
  BY <1>3, <1>7, <1>8

\* destroy keeps the invariant.
LEMMA DestroyKeeps == ASSUME IInv, Destroy PROVE IInv'
<1> USE DEF IInv
<1> DEFINE h == Top.handle
           i == h.slot
<1>1. /\ closing # <<>> /\ Resolves(h) /\ Top.todo = {} /\ slots' = Unlink(slots, h)
      /\ free' = Append(free, i) /\ destroyed' = Append(destroyed, EntryOf(h).id)
      /\ count' = count - 1 /\ UNCHANGED <<roots, closeAll, issued, lineage>>
  BY DEF Destroy
<1>2. h \in Handle /\ EntryOf(h).children = {}
  BY <1>1, CallTypes DEF Top
<1>3. i \in OccupiedSlots /\ EntryOf(h) = slots[i].entry
  BY <1>1, <1>2, ResolvedHandle DEF EntryOf
<1>4. Emptied(i)
  BY <1>1, <1>2, UnlinkShape
<1>5. closing' \in Seq(Frame) /\ Descent' /\ RootsLeft'
  BY <1>4, DestroyKeepsDescent
<1> HIDE DEF h, i
<1>6. OccupiedSlots' = OccupiedSlots \ {i} /\ Len(slots') = Len(slots) /\ slots' \in Seq(Slot)
  BY <1>3, <1>4, EmptiedOccupies DEF Emptied
<1>7. free' \in Seq(Nat \ {0}) /\ FreeSlots'
  BY <1>1, <1>3, <1>6, FreePushed
<1>8. Forest'
  BY <1>2, <1>3, <1>4, EmptiedKeepsForest
<1>9. destroyed' \in Seq(Nat \ {0}) /\ Lineage' /\ Ends' /\ ChildrenFirst'
  BY <1>1, <1>2, <1>3, <1>4, EmptiedKeepsHistory
<1>10. CountRight' /\ count' \in Nat
  <2>1. /\ Cardinality(OccupiedSlots \ {i}) = Cardinality(OccupiedSlots) - 1
        /\ IsFiniteSet(OccupiedSlots \ {i})
    BY <1>3, TableIsFinite, FS_RemoveElement
  <2>2. Cardinality(OccupiedSlots \ {i}) \in Nat
    BY <2>1, FS_CardinalityType
  <2> QED
    BY <1>1, <1>6, <2>1, <2>2 DEF CountRight
<1>11. TypeOK'
  BY <1>1, <1>5, <1>6, <1>7, <1>9, <1>10 DEF TypeOK, Frame
<1> QED
  BY <1>5, <1>7, <1>8, <1>9, <1>10, <1>11

-----------------------------------------------------------------------------
(***************************************************************************)
(* The theorems.                                                           *)
(***************************************************************************)
\* An empty registry has the invariant.
LEMMA InitHasInvariant == Init => IInv
<1> SUFFICES ASSUME Init PROVE IInv
  OBVIOUS
<1>1. /\ slots = <<>> /\ free = <<>> /\ closing = <<>> /\ issued = <<>>
      /\ lineage = <<>> /\ destroyed = <<>> /\ roots = {} /\ closeAll = FALSE /\ count = 0
  BY DEF Init
<1>2. OccupiedSlots = {}
  BY <1>1, EmptySeq DEF OccupiedSlots
<1>3. TypeOK
  BY <1>1, EmptySeq DEF TypeOK
<1>4. Forest /\ FreeSlots /\ Lineage /\ Ends /\ ChildrenFirst /\ Descent /\ RootsLeft
  BY <1>1, <1>2, EmptySeq
     DEF Forest, FreeSlots, Lineage, Ends, ChildrenFirst, Descent, RootsLeft
<1>5. CountRight
  BY <1>1, <1>2, FS_EmptySet DEF CountRight
<1> QED
  BY <1>3, <1>4, <1>5 DEF IInv

\* Every step keeps it.
LEMMA StepKeepsInvariant == IInv /\ [Next]_vars => IInv'
<1> SUFFICES ASSUME IInv, [Next]_vars PROVE IInv'
  OBVIOUS
<1>1. ASSUME NEW parent \in Issued \cup {NoParent}, Create(parent) PROVE IInv'
  BY <1>1, CreateKeeps
<1>2. ASSUME NEW h \in Issued, Close(h) PROVE IInv'
  BY <1>2, CloseKeeps
<1>3. CASE UNCHANGED vars
  <2>1. Descent' /\ RootsLeft'
    BY <1>3 DEF vars, IInv, Descent, RootsLeft, Resolves, Occupied, EntryOf, OccupiedSlots, HandleOf
  <2> QED
    BY <1>3, <2>1, SameTable DEF vars, history, IInv, TypeOK, Frame
<1> QED
  BY <1>1, <1>2, <1>3, CloseAllKeeps, CloseRootKeeps, CloseAllEndsKeeps, CloseChildKeeps,
     DestroyKeeps DEF Next

\* The inductive invariant holds.
THEOREM Invariance == Spec => []IInv
<1> QED
  BY InitHasInvariant, StepKeepsInvariant, PTL DEF Spec

\* The registry keeps its types: a generation within its word, a parent that
\* is a handle or none.
THEOREM TypesCorrect == Spec => []TypeOK
<1>1. IInv => TypeOK
  BY DEF IInv
<1> QED
  BY <1>1, Invariance, PTL

\* Parents and children agree at every moment, in the middle of a recursive
\* close and in a destructor too.
THEOREM ForestSound == Spec => []Forest
<1>1. IInv => Forest
  BY DEF IInv
<1> QED
  BY <1>1, Invariance, PTL

\* A parent is destroyed after its children, over any depth.
THEOREM ChildrenBeforeParents == Spec => []ChildrenFirst
<1>1. IInv => ChildrenFirst
  BY DEF IInv
<1> QED
  BY <1>1, Invariance, PTL

\* The free stack holds each empty slot once, so that the count is what is
\* left of the table.
LEMMA CountsAgree == IInv => Counted
<1> SUFFICES ASSUME IInv PROVE Counted
  OBVIOUS
<1> DEFINE F == [n \in 1..Len(free) |-> free[n]]
           E == (1..Len(slots)) \ OccupiedSlots
<1>1. Len(free) \in Nat /\ Len(slots) \in Nat /\ FreeSlots /\ count = Cardinality(OccupiedSlots)
  BY TableTypes DEF IInv, CountRight
<1>2. {free[n] : n \in 1..Len(free)} = E
  BY <1>1 DEF FreeSlots, OccupiedSlots
<1>3. F \in Surjection(1..Len(free), E) /\ F \in Injection(1..Len(free), E)
  <2>1. F \in [1..Len(free) -> E]
    BY <1>2
  <2>2. \A m, n \in 1..Len(free) : F[m] = F[n] => m = n
    BY <1>1 DEF FreeSlots
  <2>3. \A e \in E : \E n \in 1..Len(free) : F[n] = e
    BY <1>2
  <2> HIDE DEF F, E
  <2> QED
    BY <2>1, <2>2, <2>3 DEF Injection, Surjection, IsInjective
<1>4. /\ IsFiniteSet(1..Len(free)) /\ Cardinality(1..Len(free)) = Len(free)
      /\ IsFiniteSet(1..Len(slots)) /\ Cardinality(1..Len(slots)) = Len(slots)
  <2>1. ASSUME NEW n \in Nat PROVE IsFiniteSet(1..n) /\ Cardinality(1..n) = n
    BY FS_Interval
  <2> QED
    BY <1>1, <2>1
<1>5. Cardinality(E) = Len(free)
  <2> HIDE DEF F, E
  <2> QED
    BY <1>3, <1>4, FS_Surjection
<1>6. Cardinality(E) = Len(slots) - count
  <2>1. (1..Len(slots)) \cap OccupiedSlots = OccupiedSlots
    BY DEF OccupiedSlots
  <2>2. Cardinality(E) = Cardinality(1..Len(slots)) - Cardinality((1..Len(slots)) \cap OccupiedSlots)
    BY <1>4, FS_Difference
  <2> QED
    BY <1>1, <1>4, <2>1, <2>2
<1> QED
  BY <1>1, <1>2, <1>5, <1>6 DEF Counted

\* A destructor has run at most once, and not for what is in the table.
LEMMA RunsAgree == IInv => ExactlyOnce
<1> SUFFICES ASSUME IInv, NEW id \in 1..Len(issued)
             PROVE  Cardinality({n \in 1..Len(destroyed) : destroyed[n] = id})
                      = IF \E i \in OccupiedSlots : slots[i].entry.id = id THEN 0 ELSE 1
  BY DEF ExactlyOnce
<1> DEFINE R == {n \in 1..Len(destroyed) : destroyed[n] = id}
<1>1. Ends
  BY DEF IInv
<1>2. CASE \E i \in OccupiedSlots : slots[i].entry.id = id
  <2>1. R = {}
    BY <1>1, <1>2 DEF Ends
  <2> QED
    BY <1>2, <2>1, FS_EmptySet
<1>3. CASE ~ \E i \in OccupiedSlots : slots[i].entry.id = id
  <2>1. PICK n \in 1..Len(destroyed) : destroyed[n] = id
    BY <1>1, <1>3 DEF Ends
  <2>2. R = {n}
    BY <1>1, <2>1 DEF Ends
  <2> QED
    BY <1>3, <2>2, FS_Singleton
<1> QED
  BY <1>2, <1>3

\* The count and the free stack tell what is in the table, and the destructor
\* of a resource runs once, however its close has come about.
THEOREM RegistryIsSound == Spec => []RegistrySound
<1>1. IInv => RegistrySound
  BY CountsAgree, RunsAgree DEF IInv, RegistrySound
<1> QED
  BY <1>1, Invariance, PTL

-----------------------------------------------------------------------------
\* A set of numbers that is not empty has a least one.
LEMMA LeastExists ==
  ASSUME NEW S \in SUBSET Nat, S # {}
  PROVE  \E x \in S : \A y \in S : x <= y
<1>1. PICK x \in S : \A y \in S : ~ (<<y, x>> \in OpToRel(<, Nat))
  <2>1. \E x \in S : \A y \in S : ~ (<<y, x>> \in OpToRel(<, Nat))
    BY NatLessThanWellFounded, WFMin
  <2> QED
    BY <2>1
<1>2. \A y \in S : <<y, x>> \in Nat \X Nat /\ <<y, x>>[1] = y /\ <<y, x>>[2] = x
  OBVIOUS
<1>3. \A y \in S : ~(y < x)
  BY <1>1, <1>2 DEF OpToRel
<1> QED
  BY <1>3

\* A table without roots is empty: its oldest resource would be one.
LEMMA RootsReachAll ==
  ASSUME IInv, \A i \in OccupiedSlots : slots[i].entry.parent # NoParent
  PROVE  OccupiedSlots = {}
<1> SUFFICES ASSUME OccupiedSlots # {} PROVE FALSE
  OBVIOUS
<1> DEFINE Ids == {slots[i].entry.id : i \in OccupiedSlots}
<1>1. Ids \in SUBSET Nat /\ Ids # {}
  BY TableTypes DEF IInv, OccupiedSlots
<1>2. PICK x \in Ids : \A y \in Ids : x <= y
  BY <1>1, LeastExists
<1>3. PICK i \in OccupiedSlots : slots[i].entry.id = x
  BY <1>2
<1>4. PICK p : p = slots[i].entry.parent
  OBVIOUS
<1>5. p \in Handle /\ Resolves(p) /\ EntryOf(p).id < x
  BY <1>3, <1>4, TableTypes DEF IInv, OccupiedSlots, Forest, Lineage
<1>6. p.slot \in OccupiedSlots /\ EntryOf(p).id = slots[p.slot].entry.id
  BY <1>5, ResolvedHandle DEF EntryOf
<1>7. PICK y : y = EntryOf(p).id
  OBVIOUS
<1>8. y \in Ids /\ x \in Nat /\ y \in Nat
  BY <1>1, <1>2, <1>6, <1>7
<1> HIDE DEF Ids
<1> QED
  BY <1>2, <1>5, <1>7, <1>8

\* When close_all returns, nothing is left, whatever shape the forest had and
\* whatever its destructors did.
THEOREM CloseAllClearsTable == Spec => CloseAllClears
<1>1. IInv /\ [Next]_vars => [Cleared]_vars
  <2> SUFFICES ASSUME IInv, Next, closeAll, ~closeAll' PROVE OccupiedSlots' = {}
    BY DEF Cleared
  <2>1. ~ \E parent \in Issued \cup {NoParent} : Create(parent)
    BY DEF Create, Idle
  <2>2. ~ \E h \in Issued : Close(h)
    BY DEF Close, Idle
  <2>3. ~CloseAll /\ ~CloseRoot /\ ~CloseChild /\ ~Destroy
    BY DEF CloseAll, Idle, CloseRoot, CloseChild, Destroy
  <2>4. CloseAllEnds
    BY <2>1, <2>2, <2>3 DEF Next
  <2>5. closing = <<>> /\ roots = {} /\ slots' = slots
    BY <2>4 DEF CloseAllEnds
  <2>6. \A i \in OccupiedSlots : slots[i].entry.parent # NoParent
    BY <2>5 DEF IInv, RootsLeft
  <2>7. OccupiedSlots = {}
    BY <2>6, RootsReachAll
  <2> QED
    BY <2>5, <2>7 DEF OccupiedSlots, Occupied
<1> QED
  BY <1>1, Invariance, PTL DEF Spec, CloseAllClears

=============================================================================

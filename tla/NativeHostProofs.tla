--------------------------- MODULE NativeHostProofs ---------------------------
(***************************************************************************)
(* Proofs about CallbackRegistry, then about NativeHost, for any number of *)
(* threads, callbacks, creates, queued events and temporaries, and for     *)
(* every limit of the generations and the reference counts.                *)
(*                                                                         *)
(* What makes the second part possible is Nested: the pump refuses to be   *)
(* entered from inside, so the stack is a native call, its pump and a      *)
(* native call of the callback the pump runs, and never deeper.            *)
(***************************************************************************)
EXTENDS NativeHost, TLAPS, SequenceTheorems, FiniteSetTheorems

-----------------------------------------------------------------------------
(* The registry alone: its specification is Spec, its invariant IInv.      *)

\* As long as generations cannot have wrapped around: a slot is younger than
\* the number of creates, and no handle is younger than its slot.
Ages ==
  Len(issued) <= MaxGeneration =>
    /\ \A i \in 1..Len(slots) : slots[i].gen <= Len(issued)
    /\ \A id \in 1..Len(issued) :
         /\ issued[id].slot \in 1..Len(slots)
         /\ issued[id].gen <= slots[issued[id].slot].gen

IInv ==
  /\ TypeOK
  /\ FreeSlots
  /\ ThreadsAgree
  /\ Ages
  /\ NeverAnotherCallback

-----------------------------------------------------------------------------
\* A function on an interval that starts at 1 is a sequence of that length.
LEMMA IntervalIsSeq ==
  ASSUME NEW S, NEW n \in Nat, NEW f \in [1..n -> S]
  PROVE  f \in Seq(S) /\ Len(f) = n
<1>1. f \in Seq(S)
  BY SeqDef
<1>2. Len(f) \in Nat /\ DOMAIN f = 1..Len(f)
  BY <1>1, LenProperties
<1>3. 1..Len(f) = 1..n
  BY <1>2
<1> QED
  BY <1>1, <1>2, <1>3

\* The next generation fits its word, and exceeds the last unless that was
\* the limit.
LEMMA NextGenerationGrows ==
  ASSUME NEW g \in 1..MaxGeneration
  PROVE  /\ NextGeneration(g) \in 1..MaxGeneration
         /\ g # MaxGeneration => NextGeneration(g) = g + 1
  BY GenerationAssumption DEF NextGeneration

\* The table seen entry by entry.
LEMMA SlotTypes ==
  ASSUME TypeOK
  PROVE  /\ Len(slots) \in Nat /\ Len(free) \in Nat /\ Len(issued) \in Nat
         /\ \A i \in 1..Len(slots) :
              /\ slots[i] \in Slot
              /\ slots[i].gen \in 1..MaxGeneration
              /\ slots[i].entry \in Entry
         /\ \A id \in 1..Len(issued) : issued[id] \in Handle
<1>1. \A i \in 1..Len(slots) : slots[i] \in Slot
  BY ElementOfSeq DEF TypeOK
<1>2. \A id \in 1..Len(issued) : issued[id] \in Handle
  BY ElementOfSeq DEF TypeOK
<1> QED
  BY <1>1, <1>2, LenProperties DEF TypeOK, Slot

\* A create in an empty slot, under a generation the slot has not had.
LEMMA CreateInKeeps ==
  ASSUME IInv,
         NEW i \in 1..Len(slots) + 1,
         NEW g \in 1..MaxGeneration,
         CreateIn(i, g),
         i \in 1..Len(slots) => ~Occupied(i) /\ g = NextGeneration(slots[i].gen),
         i = Len(slots) + 1 => g = 1
  PROVE  /\ slots' \in Seq(Slot) /\ issued' \in Seq(Handle) /\ live' \subseteq Handle
         /\ Len(slots') = IF i \in 1..Len(slots) THEN Len(slots) ELSE Len(slots) + 1
         /\ \A j \in 1..Len(slots') : j # i => j \in 1..Len(slots) /\ slots'[j] = slots[j]
         /\ slots'[i].entry # Empty
         /\ ThreadsAgree'
         /\ Ages'
         /\ NeverAnotherCallback'
<1> DEFINE id == Len(issued) + 1
           slot == [gen |-> g, entry |-> [refs |-> 1, callback |-> id]]
           handle == [slot |-> i, gen |-> g]
<1> USE DEF IInv
<1>1. /\ Len(slots) \in Nat /\ Len(issued) \in Nat
      /\ slots \in Seq(Slot) /\ issued \in Seq(Handle)
      /\ MaxGeneration \in Nat /\ MaxReferences \in Nat \ {0}
  BY SlotTypes, GenerationAssumption, LimitsAssumption DEF TypeOK
<1>2. slot \in Slot /\ handle \in Handle
  BY <1>1 DEF Slot, Entry, Handle
<1>3. /\ slots' = IF i \in 1..Len(slots) THEN [slots EXCEPT ![i] = slot]
                                         ELSE Append(slots, slot)
      /\ issued' = Append(issued, handle)
      /\ live' = live \cup {handle}
  BY DEF CreateIn
<1>4. slot.gen = g /\ slot.entry # Empty /\ slot.entry.callback = id
  BY DEF Empty
<1>5. handle.slot = i /\ handle.gen = g
  OBVIOUS
<1> HIDE DEF slot, handle
<1>6. /\ slots' \in Seq(Slot)
      /\ Len(slots') = IF i \in 1..Len(slots) THEN Len(slots) ELSE Len(slots) + 1
      /\ i \in 1..Len(slots')
      /\ slots'[i] = slot
      /\ \A j \in 1..Len(slots') : j # i => j \in 1..Len(slots) /\ slots'[j] = slots[j]
      /\ \A j \in 1..Len(slots) : j \in 1..Len(slots')
  <2>1. CASE i \in 1..Len(slots)
    BY <1>1, <1>2, <1>3, <2>1, ExceptSeq
  <2>2. CASE i = Len(slots) + 1
    <3>1. slots' = Append(slots, slot)
      BY <1>1, <1>3, <2>2
    <3>2. /\ slots' \in Seq(Slot)
          /\ Len(slots') = Len(slots) + 1
          /\ slots'[Len(slots) + 1] = slot
          /\ \A j \in 1..Len(slots) : slots'[j] = slots[j]
      BY <1>1, <1>2, <3>1, AppendProperties
    <3> QED
      BY <1>1, <2>2, <3>2
  <2> QED
    BY <1>1, <2>1, <2>2
<1>7. /\ issued' \in Seq(Handle)
      /\ Len(issued') = id
      /\ issued'[id] = handle
      /\ \A n \in 1..Len(issued) : issued'[n] = issued[n]
  BY <1>1, <1>2, <1>3, AppendProperties
<1>8. \A n \in 1..Len(issued') : n \in 1..Len(issued) \/ n = id
  BY <1>1, <1>7
<1>9. live' \subseteq Handle
  BY <1>2, <1>3 DEF TypeOK
<1>10. slots'[i].entry # Empty
  BY <1>4, <1>6
<1>11. ThreadsAgree'
  <2>1. Resolves(handle)'
    BY <1>4, <1>5, <1>6, <1>10 DEF Resolves, Occupied
  <2>2. \A h \in live : h.slot \in 1..Len(slots) /\ Occupied(h.slot) /\ Resolves(h)
    BY DEF ThreadsAgree, Resolves
  <2>3. \A h \in live : h.slot # i
    BY <2>2
  <2>4. \A h \in live : Resolves(h)'
    BY <1>6, <2>2, <2>3 DEF Resolves, Occupied
  <2>5. \A j \in 1..Len(slots') :
          Occupied(j)' => [slot |-> j, gen |-> slots'[j].gen] \in live'
    BY <1>3, <1>4, <1>6 DEF handle, Occupied, ThreadsAgree
  <2> QED
    BY <1>3, <2>1, <2>4, <2>5 DEF ThreadsAgree
<1>12. Ages' /\ NeverAnotherCallback'
  <2> DEFINE Fits(h, n) ==   \* what the new table owes to the handle of create n
        /\ h.slot \in 1..Len(slots')
        /\ h.gen <= slots'[h.slot].gen
        /\ slots'[h.slot].gen = h.gen /\ slots'[h.slot].entry # Empty
             => slots'[h.slot].entry.callback = n
  <2> SUFFICES ASSUME Len(issued') <= MaxGeneration
               PROVE  /\ \A j \in 1..Len(slots') : slots'[j].gen <= Len(issued')
                      /\ \A n \in 1..Len(issued') : Fits(issued'[n], n)
    BY DEF Ages, NeverAnotherCallback, EntryOf, Resolves, Occupied
  <2>1. Len(issued) < MaxGeneration
    BY <1>1, <1>7
  <2>2. \A j \in 1..Len(slots) : slots[j].gen <= Len(issued) /\ slots[j].gen \in Nat
    BY <1>1, <2>1, SlotTypes DEF Ages
  <2>3. \A n \in 1..Len(issued) :
          /\ issued[n].slot \in 1..Len(slots)
          /\ issued[n].gen <= slots[issued[n].slot].gen
          /\ issued[n].gen \in Nat
    <3>1. \A n \in 1..Len(issued) : issued[n] \in Handle
      BY SlotTypes
    <3>2. \A n \in 1..Len(issued) : issued[n].gen \in Nat
      BY <1>1, <3>1 DEF Handle
    <3> QED
      BY <1>1, <2>1, <3>2 DEF Ages
  <2>4. \A n \in 1..Len(issued) :
          LET h == issued[n]
          IN  slots[h.slot].gen = h.gen /\ slots[h.slot].entry # Empty
                => slots[h.slot].entry.callback = n
    BY <1>1, <2>1, <2>3 DEF NeverAnotherCallback, Resolves, EntryOf, Occupied
  <2>5. i \in 1..Len(slots) => g = slots[i].gen + 1
    <3> SUFFICES ASSUME i \in 1..Len(slots) PROVE g = slots[i].gen + 1
      OBVIOUS
    <3>1. slots[i].gen \in 1..MaxGeneration /\ slots[i].gen # MaxGeneration
      BY <1>1, <2>1, <2>2, SlotTypes
    <3> QED
      BY <3>1, NextGenerationGrows
  <2>6. \A j \in 1..Len(slots') : slots'[j].gen <= Len(issued')
    <3> SUFFICES ASSUME NEW j \in 1..Len(slots') PROVE slots'[j].gen <= Len(issued')
      OBVIOUS
    <3>1. CASE j = i
      BY <1>1, <1>4, <1>6, <1>7, <2>2, <2>5, <3>1
    <3>2. CASE j # i
      BY <1>1, <1>6, <1>7, <2>2, <3>2
    <3> QED
      BY <3>1, <3>2
  <2>7. ASSUME NEW n \in 1..Len(issued)
        PROVE  Fits(issued[n], n)
    <3>1. CASE issued[n].slot = i
      <4>1. issued[n].gen < g
        BY <1>1, <2>2, <2>3, <2>5, <3>1
      <4> QED
        BY <1>1, <1>4, <1>6, <2>3, <3>1, <4>1
    <3>2. CASE issued[n].slot # i
      <4>1. /\ issued[n].slot \in 1..Len(slots')
            /\ slots'[issued[n].slot] = slots[issued[n].slot]
        BY <1>6, <2>3, <3>2
      <4> QED
        BY <2>3, <2>4, <4>1
    <3> QED
      BY <3>1, <3>2
  <2>8. Fits(handle, id)
    BY <1>1, <1>4, <1>5, <1>6
  <2> HIDE DEF Fits
  <2>9. \A n \in 1..Len(issued') : Fits(issued'[n], n)
    BY <1>7, <1>8, <2>7, <2>8
  <2> QED
    BY <2>6, <2>9
<1> QED
  BY <1>6, <1>7, <1>9, <1>10, <1>11, <1>12

\* create in the slot on top of the free stack, or in a new one.
LEMMA CreateKeeps == ASSUME IInv, Create PROVE IInv'
<1> USE DEF IInv
<1>1. /\ Len(slots) \in Nat /\ Len(free) \in Nat
      /\ free \in Seq(Nat \ {0})
      /\ closed \in BOOLEAN /\ closed' = closed
  BY SlotTypes DEF TypeOK, Create
<1>2. CASE free # <<>>
  <2> DEFINE top == free[Len(free)]
  <2>1. Len(free) \in 1..Len(free)
    BY <1>1, <1>2, EmptySeq
  <2>2. top \in 1..Len(slots) /\ ~Occupied(top)
    BY <2>1 DEF FreeSlots
  <2>3. CreateIn(top, NextGeneration(slots[top].gen))
    BY <1>2 DEF Create
  <2>4. free' = SubSeq(free, 1, Len(free) - 1)
    BY <1>2 DEF Create
  <2>5. NextGeneration(slots[top].gen) \in 1..MaxGeneration
    BY <2>2, SlotTypes, NextGenerationGrows
  <2> HIDE DEF top
  <2>6. /\ slots' \in Seq(Slot) /\ issued' \in Seq(Handle) /\ live' \subseteq Handle
        /\ Len(slots') = Len(slots)
        /\ \A j \in 1..Len(slots') : j # top => slots'[j] = slots[j]
        /\ slots'[top].entry # Empty
        /\ ThreadsAgree' /\ Ages' /\ NeverAnotherCallback'
    BY <1>1, <2>2, <2>3, <2>5, CreateInKeeps
  <2>7. \A j \in 1..Len(free) : free[j] \in Nat \ {0}
    BY <1>1, ElementOfSeq
  <2>8. /\ free' \in Seq(Nat \ {0})
        /\ Len(free') = Len(free) - 1
        /\ \A j \in 1..Len(free') : free'[j] = free[j]
    <3> DEFINE n == Len(free) - 1
    <3>1. n \in Nat /\ 1 \in Int /\ n \in Int /\ \A j \in 1..n : free[j] \in Nat \ {0}
      BY <1>1, <2>1, <2>7
    <3> HIDE DEF n
    <3>2. /\ SubSeq(free, 1, n) \in Seq(Nat \ {0})
          /\ Len(SubSeq(free, 1, n)) = IF 1 <= n THEN n - 1 + 1 ELSE 0
          /\ \A j \in 1..(n - 1 + 1) : SubSeq(free, 1, n)[j] = free[1 + j - 1]
      BY <3>1, SubSeqProperties
    <3>3. Len(SubSeq(free, 1, n)) = n /\ n - 1 + 1 = n
      BY <3>1, <3>2
    <3>4. \A j \in 1..n : SubSeq(free, 1, n)[j] = free[j]
      <4>1. \A j \in 1..n : 1 + j - 1 = j
        BY <3>1
      <4> QED
        BY <3>2, <3>3, <4>1
    <3> QED
      BY <2>4, <3>2, <3>3, <3>4 DEF n
  <2>9. FreeSlots'
    <3>1. \A j \in 1..Len(free') : j \in 1..Len(free) /\ j # Len(free)
      BY <1>1, <2>8
    <3>2. \A j \in 1..Len(free') : free'[j] # top
      BY <2>1, <2>8, <3>1 DEF FreeSlots, top
    <3>3. \A j \in 1..Len(free') :
            free'[j] \in 1..Len(slots') /\ slots'[free'[j]].entry = Empty
      <4> SUFFICES ASSUME NEW j \in 1..Len(free')
                   PROVE  /\ free'[j] \in 1..Len(slots')
                          /\ slots'[free'[j]].entry = Empty
        OBVIOUS
      <4>1. j \in 1..Len(free)
        BY <3>1
      <4>2. free[j] \in 1..Len(slots) /\ slots[free[j]].entry = Empty
        BY <1>1, <4>1 DEF FreeSlots, Occupied
      <4>3. free'[j] = free[j]
        BY <2>8
      <4>4. free[j] \in 1..Len(slots') /\ free[j] # top
        BY <2>6, <3>2, <4>2, <4>3
      <4> QED
        BY <2>6, <4>2, <4>3, <4>4
    <3>4. \A n \in 1..Len(slots') :
            slots'[n].entry = Empty => \E j \in 1..Len(free') : free'[j] = n
      <4> SUFFICES ASSUME NEW n \in 1..Len(slots'), slots'[n].entry = Empty
                   PROVE  \E j \in 1..Len(free') : free'[j] = n
        OBVIOUS
      <4>1. n # top /\ slots[n].entry = Empty
        BY <2>6
      <4>2. PICK j \in 1..Len(free) : free[j] = n
        BY <2>6, <4>1 DEF FreeSlots, Occupied
      <4>3. j # Len(free)
        BY <4>1, <4>2 DEF top
      <4>4. j \in 1..Len(free')
        BY <1>1, <2>8, <4>3
      <4>5. free'[j] = n
        BY <2>8, <4>2, <4>4
      <4> QED
        BY <4>4, <4>5
    <3>5. \A j, m \in 1..Len(free') : free'[j] = free'[m] => j = m
      BY <2>8, <3>1 DEF FreeSlots
    <3> QED
      BY <3>3, <3>4, <3>5 DEF FreeSlots, Occupied
  <2> QED
    BY <1>1, <2>6, <2>8, <2>9 DEF TypeOK
<1>3. CASE free = <<>>
  <2>1. Len(free) = 0 /\ free' = free
    BY <1>3, EmptySeq DEF Create
  <2>2. CreateIn(Len(slots) + 1, 1)
    BY <1>3 DEF Create
  <2>3. 1 \in 1..MaxGeneration
    BY GenerationAssumption
  <2>4. /\ slots' \in Seq(Slot) /\ issued' \in Seq(Handle) /\ live' \subseteq Handle
        /\ \A j \in 1..Len(slots') :
             j # Len(slots) + 1 => j \in 1..Len(slots) /\ slots'[j] = slots[j]
        /\ slots'[Len(slots) + 1].entry # Empty
        /\ ThreadsAgree' /\ Ages' /\ NeverAnotherCallback'
    BY <1>1, <2>2, <2>3, CreateInKeeps
  <2>5. FreeSlots'
    BY <1>1, <2>1, <2>4 DEF FreeSlots, Occupied
  <2> QED
    BY <1>1, <2>1, <2>4, <2>5 DEF TypeOK
<1> QED
  BY <1>2, <1>3

\* A change of one entry leaves the generations, and with them the ages.
LEMMA EntryKeeps ==
  ASSUME IInv, NEW i \in 1..Len(slots), NEW x \in Entry,
         slots' = [slots EXCEPT ![i].entry = x],
         issued' = issued,
         x # Empty => slots[i].entry # Empty /\ x.callback = slots[i].entry.callback
  PROVE  /\ slots' \in Seq(Slot) /\ Len(slots') = Len(slots)
         /\ slots'[i].entry = x
         /\ \A j \in 1..Len(slots) :
              /\ slots'[j].gen = slots[j].gen
              /\ j # i => slots'[j].entry = slots[j].entry
         /\ Ages'
         /\ NeverAnotherCallback'
<1> DEFINE s == [slots[i] EXCEPT !.entry = x]
<1>1. slots \in Seq(Slot) /\ slots[i] \in Slot
  BY SlotTypes DEF IInv, TypeOK
<1>2. s \in Slot /\ s.gen = slots[i].gen /\ s.entry = x
  BY <1>1 DEF Slot
<1>3. slots' = [slots EXCEPT ![i] = s]
  OBVIOUS
<1> HIDE DEF s
<1>4. /\ slots' \in Seq(Slot)
      /\ Len(slots') = Len(slots)
      /\ \A j \in 1..Len(slots) : slots'[j] = IF j = i THEN s ELSE slots[j]
  BY <1>1, <1>2, <1>3, ExceptSeq
<1>5. /\ slots'[i].entry = x
      /\ \A j \in 1..Len(slots) :
           /\ slots'[j].gen = slots[j].gen
           /\ j # i => slots'[j].entry = slots[j].entry
  BY <1>2, <1>4
<1>6. Ages'
  BY <1>4, <1>5 DEF IInv, Ages
<1>7. NeverAnotherCallback'
  <2> SUFFICES ASSUME Len(issued) <= MaxGeneration,
                      NEW id \in 1..Len(issued),
                      issued[id].slot \in 1..Len(slots),
                      slots'[issued[id].slot].gen = issued[id].gen,
                      slots'[issued[id].slot].entry # Empty
               PROVE  slots'[issued[id].slot].entry.callback = id
    BY <1>4 DEF NeverAnotherCallback, Resolves, Occupied, EntryOf
  <2>1. slots[issued[id].slot].entry # Empty
    BY <1>5
  <2>2. slots[issued[id].slot].entry.callback = id
    BY <1>5, <2>1 DEF IInv, NeverAnotherCallback, Resolves, Occupied, EntryOf
  <2> QED
    BY <1>5, <2>2
<1> QED
  BY <1>4, <1>5, <1>6, <1>7

\* One more or one reference less on an occupied slot.
LEMMA CountKeeps ==
  ASSUME IInv, NEW i \in 1..Len(slots), Occupied(i), NEW n \in 1..MaxReferences,
         slots' = [slots EXCEPT ![i].entry.refs = n],
         UNCHANGED <<free, live, closed, issued>>
  PROVE  IInv'
<1> DEFINE x == [slots[i].entry EXCEPT !.refs = n]
<1>1. slots[i] \in Slot /\ slots[i].entry \in Entry /\ slots[i].entry # Empty
  BY SlotTypes DEF IInv, Occupied
<1>2. /\ x \in Entry
      /\ x # Empty
      /\ x.callback = slots[i].entry.callback
  BY <1>1, LimitsAssumption DEF Entry, Empty
<1>3. slots' = [slots EXCEPT ![i].entry = x]
  <2>1. slots \in Seq(Slot)
    BY DEF IInv, TypeOK
  <2> QED
    BY <1>1, <2>1 DEF Slot
<1> HIDE DEF x
<1>4. /\ slots' \in Seq(Slot) /\ Len(slots') = Len(slots)
      /\ slots'[i].entry = x
      /\ \A j \in 1..Len(slots) :
           /\ slots'[j].gen = slots[j].gen
           /\ j # i => slots'[j].entry = slots[j].entry
      /\ Ages' /\ NeverAnotherCallback'
  BY <1>1, <1>2, <1>3, EntryKeeps
<1>5. \A j \in 1..Len(slots) : slots'[j].entry = Empty <=> slots[j].entry = Empty
  BY <1>1, <1>2, <1>4
<1>6. FreeSlots' /\ ThreadsAgree'
  BY <1>4, <1>5 DEF IInv, FreeSlots, ThreadsAgree, Occupied, Resolves
<1> QED
  BY <1>4, <1>6 DEF IInv, TypeOK

\* retain counts one reference more, below the limit.
LEMMA RetainKeeps == ASSUME IInv, NEW h \in Handle, Retain(h) PROVE IInv'
<1>1. h.slot \in 1..Len(slots) /\ Occupied(h.slot)
  BY DEF Retain, Resolves
<1>2. slots[h.slot].entry \in Entry /\ slots[h.slot].entry # Empty
  BY <1>1, SlotTypes DEF IInv, Occupied
<1>3. slots[h.slot].entry.refs + 1 \in 1..MaxReferences
  BY <1>2, LimitsAssumption DEF Retain, EntryOf, Entry
<1>4. slots' = [slots EXCEPT ![h.slot].entry.refs = slots[h.slot].entry.refs + 1]
  BY DEF Retain
<1> QED
  BY <1>1, <1>3, <1>4, CountKeeps DEF Retain

\* release counts one reference less, or empties the slot and frees it.
LEMMA ReleaseKeeps == ASSUME IInv, NEW h \in Handle, Release(h) PROVE IInv'
<1>1. /\ h.slot \in 1..Len(slots) /\ Occupied(h.slot)
      /\ slots[h.slot].gen = h.gen
  BY DEF Release, Resolves
<1>2. slots[h.slot].entry \in Entry /\ slots[h.slot].entry # Empty
  BY <1>1, SlotTypes DEF IInv, Occupied
<1>3. CASE EntryOf(h).refs > 1
  <2>1. slots[h.slot].entry.refs - 1 \in 1..MaxReferences
    BY <1>2, <1>3, LimitsAssumption DEF EntryOf, Entry
  <2>2. slots' = [slots EXCEPT ![h.slot].entry.refs = slots[h.slot].entry.refs - 1]
    BY <1>3 DEF Release
  <2>3. UNCHANGED <<free, live, closed, issued>>
    BY <1>3 DEF Release
  <2> QED
    BY <1>1, <2>1, <2>2, <2>3, CountKeeps
<1>4. CASE EntryOf(h).refs = 1
  <2>1. /\ slots' = [slots EXCEPT ![h.slot].entry = Empty]
        /\ free' = Append(free, h.slot)
        /\ live' = live \ {h}
        /\ UNCHANGED <<closed, issued>>
    BY <1>4 DEF Release
  <2>2. /\ slots' \in Seq(Slot) /\ Len(slots') = Len(slots)
        /\ slots'[h.slot].entry = Empty
        /\ \A j \in 1..Len(slots) :
             /\ slots'[j].gen = slots[j].gen
             /\ j # h.slot => slots'[j].entry = slots[j].entry
        /\ Ages' /\ NeverAnotherCallback'
    BY <1>1, <2>1, EntryKeeps DEF Entry
  <2>3. /\ free \in Seq(Nat \ {0}) /\ Len(free) \in Nat
        /\ h.slot \in Nat \ {0}
    BY SlotTypes DEF IInv, TypeOK, Handle
  <2>4. /\ free' \in Seq(Nat \ {0})
        /\ Len(free') = Len(free) + 1
        /\ \A j \in 1..Len(free) : free'[j] = free[j]
        /\ free'[Len(free) + 1] = h.slot
    BY <2>1, <2>3, AppendProperties
  <2>5. \A j \in 1..Len(free) : free[j] # h.slot
    BY <1>1 DEF IInv, FreeSlots
  <2>6. \A j \in 1..Len(free') : j \in 1..Len(free) \/ j = Len(free) + 1
    BY <2>3, <2>4
  <2>7. \A j \in 1..Len(free) : j \in 1..Len(free')
    BY <2>3, <2>4
  <2>8. FreeSlots'
    <3>1. \A j \in 1..Len(free') :
            free'[j] \in 1..Len(slots') /\ slots'[free'[j]].entry = Empty
      <4>1. \A j \in 1..Len(free) :
              free[j] \in 1..Len(slots) /\ slots[free[j]].entry = Empty
        BY DEF IInv, FreeSlots, Occupied
      <4>2. \A j \in 1..Len(free) :
              free'[j] \in 1..Len(slots') /\ slots'[free'[j]].entry = Empty
        BY <2>2, <2>4, <2>5, <4>1
      <4>3. /\ free'[Len(free) + 1] \in 1..Len(slots')
            /\ slots'[free'[Len(free) + 1]].entry = Empty
        BY <1>1, <2>2, <2>4
      <4> QED
        BY <2>6, <4>2, <4>3
    <3>2. \A j, m \in 1..Len(free') : free'[j] = free'[m] => j = m
      BY <2>4, <2>5, <2>6 DEF IInv, FreeSlots
    <3>3. ASSUME NEW n \in 1..Len(slots), slots'[n].entry = Empty
          PROVE  \E j \in 1..Len(free') : free'[j] = n
      <4>1. CASE n = h.slot
        BY <2>3, <2>4, <4>1
      <4>2. CASE n # h.slot
        BY <2>2, <2>4, <2>7, <3>3, <4>2 DEF IInv, FreeSlots, Occupied
      <4> QED
        BY <4>1, <4>2
    <3> QED
      BY <2>2, <3>1, <3>2, <3>3 DEF FreeSlots, Occupied
  <2>9. ThreadsAgree'
    <3>1. \A k \in live : k # h => k.slot # h.slot
      BY <1>1 DEF IInv, TypeOK, ThreadsAgree, Resolves, Handle
    <3>2. \A k \in live' : Resolves(k)'
      BY <2>1, <2>2, <3>1 DEF IInv, ThreadsAgree, Resolves, Occupied
    <3>3. \A j \in 1..Len(slots) :
            slots'[j].entry # Empty => [slot |-> j, gen |-> slots'[j].gen] \in live'
      BY <2>1, <2>2 DEF IInv, ThreadsAgree, Occupied
    <3> QED
      BY <2>2, <3>2, <3>3 DEF ThreadsAgree, Occupied
  <2> QED
    BY <2>1, <2>2, <2>4, <2>8, <2>9 DEF IInv, TypeOK
<1> QED
  BY <1>3, <1>4 DEF Release

\* close empties every slot and puts it on the free stack.
LEMMA CloseKeeps == ASSUME IInv, Close PROVE IInv'
<1> DEFINE n == Len(slots)
           S == [i \in 1..n |-> [slots[i] EXCEPT !.entry = Empty]]
<1>1. /\ n \in Nat
      /\ \A i \in 1..n : slots[i] \in Slot
  BY SlotTypes DEF IInv
<1>2. \A i \in 1..n :
        /\ [slots[i] EXCEPT !.entry = Empty] \in Slot
        /\ S[i].gen = slots[i].gen
        /\ S[i].entry = Empty
  BY <1>1 DEF Slot, Entry
<1>3. S \in [1..n -> Slot] /\ [i \in 1..n |-> i] \in [1..n -> Nat \ {0}]
  BY <1>1, <1>2
<1>4. /\ slots' = S /\ free' = [i \in 1..n |-> i]
      /\ live' = {} /\ closed' = TRUE /\ issued' = issued
  BY DEF Close
<1> HIDE DEF S
<1>5. slots' \in Seq(Slot) /\ Len(slots') = n
  BY <1>1, <1>3, <1>4, IntervalIsSeq
<1>6. free' \in Seq(Nat \ {0}) /\ Len(free') = n
  BY <1>1, <1>3, <1>4, IntervalIsSeq
<1>7. TypeOK'
  BY <1>4, <1>5, <1>6 DEF IInv, TypeOK
<1>8. FreeSlots'
  BY <1>2, <1>4, <1>5, <1>6 DEF FreeSlots, Occupied
<1>9. ThreadsAgree'
  BY <1>2, <1>4, <1>5 DEF ThreadsAgree, Occupied
<1>10. Ages'
  BY <1>2, <1>4, <1>5 DEF IInv, Ages
<1>11. NeverAnotherCallback'
  BY <1>2, <1>4, <1>5 DEF NeverAnotherCallback, Resolves, Occupied
<1> QED
  BY <1>7, <1>8, <1>9, <1>10, <1>11 DEF IInv

-----------------------------------------------------------------------------
\* The empty table satisfies the invariant.
LEMMA InitHasInvariant == Init => IInv
<1> SUFFICES ASSUME Init PROVE IInv
  OBVIOUS
<1>1. /\ slots = <<>> /\ Len(slots) = 0
      /\ free = <<>> /\ Len(free) = 0
      /\ issued = <<>> /\ Len(issued) = 0
  BY EmptySeq DEF Init
<1>2. /\ 1..Len(slots) = {} /\ 1..Len(free) = {} /\ 1..Len(issued) = {}
      /\ live = {}
  BY <1>1 DEF Init
<1>3. TypeOK
  BY <1>1, EmptySeq DEF Init, TypeOK
<1> QED
  BY <1>2, <1>3 DEF IInv, FreeSlots, ThreadsAgree, Ages, NeverAnotherCallback

\* Every operation of the table preserves the invariant.
LEMMA StepKeepsInvariant == IInv /\ [Next]_table => IInv'
<1> SUFFICES ASSUME IInv, [Next]_table PROVE IInv'
  OBVIOUS
<1>1. CASE UNCHANGED table
  BY <1>1 DEF table, IInv, TypeOK, FreeSlots, ThreadsAgree, Ages,
              NeverAnotherCallback, Resolves, Occupied, EntryOf
<1>2. \A h \in Issued : h \in Handle
  BY SlotTypes DEF IInv, Issued
<1> QED
  BY <1>1, <1>2, CreateKeeps, RetainKeeps, ReleaseKeeps, CloseKeeps DEF Next

\* The invariant holds always.
THEOREM Invariance == Spec => []IInv
  BY InitHasInvariant, StepKeepsInvariant, PTL DEF Spec

\* The table keeps its types: no reference count leaves its word, and an
\* occupied slot has at least one reference.
THEOREM TypeCorrect == Spec => []TypeOK
<1>1. IInv => TypeOK
  BY DEF IInv
<1> QED
  BY <1>1, Invariance, PTL

\* The free stack holds exactly the empty slots, each once, whatever handles
\* the clients use and however often.
THEOREM FreeStackIsRight == Spec => []FreeSlots
<1>1. IInv => FreeSlots
  BY DEF IInv
<1> QED
  BY <1>1, Invariance, PTL

\* The threads that post see exactly the handles that resolve.
THEOREM LiveSetIsRight == Spec => []ThreadsAgree
<1>1. IInv => ThreadsAgree
  BY DEF IInv
<1> QED
  BY <1>1, Invariance, PTL

\* A handle reaches the callback it was issued for or none, for as long as the
\* creates do not exceed the number of generations (2^32 - 1 in the code).
THEOREM HandlesAreSafe == Spec => []NeverAnotherCallback
<1>1. IInv => NeverAnotherCallback
  BY DEF IInv
<1> QED
  BY <1>1, Invariance, PTL

\* Slots, free stack and live set agree and no handle reaches another
\* callback, whatever the number of references and of generations.
THEOREM TableSound == Spec => []TableIsSound
<1>1. IInv => TableIsSound
  BY DEF IInv, TableIsSound
<1> QED
  BY <1>1, Invariance, PTL

-----------------------------------------------------------------------------
(* The host on top of it: HostSpec, HostInv.                               *)

\* A callback in the table is one that was created, under the handle its slot
\* has now.
TenantsKnown ==
  \A i \in 1..Len(slots) :
    Occupied(i) =>
      /\ slots[i].entry.callback \in 1..Len(issued)
      /\ issued[slots[i].entry.callback] = [slot |-> i, gen |-> slots[i].gen]

\* A call, its pump, a call of the callback that runs.
Nested ==
  /\ Len(calls) \in 0..3
  /\ Len(calls) >= 1 => calls[1] \in CallFrame
  /\ Len(calls) >= 2 => calls[2] \in PumpFrame /\ calls[1].phase = "native"
  /\ Len(calls) = 3 => calls[3] \in CallFrame /\ calls[2].running # 0
  /\ pumping <=> Len(calls) >= 2

\* What a call has put aside is what held outside of it.
Restores ==
  /\ Len(calls) >= 1 => calls[1].vm = FALSE /\ calls[1].error = 0
  /\ Len(calls) = 3 /\ calls[3].phase = "native" =>
       calls[3].vm = TRUE /\ calls[3].error \in {0, 1} /\ pumpError = 0
  /\ vmSet <=> Len(calls) >= 1 /\ calls[1].phase = "native"
  /\ pumpError \in {0, 1}
  /\ pumpError = 1 => Len(calls) >= 1 /\ calls[1].phase = "native"

\* The run of the event loop is held by one call, which is in the extension.
RunHeld ==
  /\ \A n \in 1..Len(calls) : IsCall(calls[n]) /\ calls[n].run => calls[n].phase = "native"
  /\ Len(calls) = 3 => ~(calls[1].run /\ calls[3].run)
  /\ lifecycle = "Running" <=> \E n \in 1..Len(calls) : IsCall(calls[n]) /\ calls[n].run

\* The host is dropped as a whole, between two programs.
Drops ==
  /\ lifecycle = "Closed" <=> dropped
  /\ dropped => calls = <<>> /\ closed /\ queue = <<>> /\ live = {}

StackInv == Nested /\ Restores /\ RunHeld /\ Drops

-----------------------------------------------------------------------------
\* A sequence without its last element.
LEMMA FrontOfSeq ==
  ASSUME NEW S, NEW s \in Seq(S), s # <<>>
  PROVE  /\ SubSeq(s, 1, Len(s) - 1) \in Seq(S)
         /\ Len(SubSeq(s, 1, Len(s) - 1)) = Len(s) - 1
         /\ \A j \in 1..(Len(s) - 1) : SubSeq(s, 1, Len(s) - 1)[j] = s[j]
<1> DEFINE n == Len(s) - 1
<1>1. Len(s) \in Nat \ {0} /\ \A j \in 1..Len(s) : s[j] \in S
  BY EmptySeq, ElementOfSeq, LenProperties
<1>2. n \in Nat /\ 1 \in Int /\ n \in Int /\ \A j \in 1..n : s[j] \in S
  BY <1>1
<1> HIDE DEF n
<1>3. /\ SubSeq(s, 1, n) \in Seq(S)
      /\ Len(SubSeq(s, 1, n)) = IF 1 <= n THEN n - 1 + 1 ELSE 0
      /\ \A j \in 1..(n - 1 + 1) : SubSeq(s, 1, n)[j] = s[1 + j - 1]
  BY <1>2, SubSeqProperties
<1>4. Len(SubSeq(s, 1, n)) = n /\ n - 1 + 1 = n /\ \A j \in 1..n : 1 + j - 1 = j
  BY <1>2, <1>3
<1>5. \A j \in 1..n : SubSeq(s, 1, n)[j] = s[j]
  BY <1>3, <1>4
<1> QED
  BY <1>3, <1>4, <1>5 DEF n

\* The stack with another frame on its top.
LEMMA TopReplaced ==
  ASSUME NEW S, calls \in Seq(S), calls # <<>>, NEW f \in S, SetTop(f)
  PROVE  /\ calls' \in Seq(S) /\ Len(calls') = Len(calls) /\ Len(calls) \in Nat \ {0}
         /\ calls'[Len(calls)] = f
         /\ \A j \in 1..Len(calls) : j # Len(calls) => calls'[j] = calls[j]
<1>1. /\ Below \in Seq(S) /\ Len(Below) = Len(calls) - 1
      /\ \A j \in 1..(Len(calls) - 1) : Below[j] = calls[j]
  BY FrontOfSeq DEF Below
<1>2. Len(calls) \in Nat \ {0}
  BY EmptySeq, LenProperties
<1>3. /\ calls' \in Seq(S) /\ Len(calls') = Len(Below) + 1
      /\ \A j \in 1..Len(Below) : calls'[j] = Below[j]
      /\ calls'[Len(Below) + 1] = f
  BY <1>1, AppendProperties DEF SetTop
<1>4. \A j \in 1..Len(calls) : j # Len(calls) => j \in 1..(Len(calls) - 1)
  BY <1>2
<1> QED
  BY <1>1, <1>2, <1>3, <1>4

\* The stack without its top.
LEMMA TopGone ==
  ASSUME NEW S, calls \in Seq(S), calls # <<>>, calls' = Below
  PROVE  /\ calls' \in Seq(S) /\ Len(calls') = Len(calls) - 1 /\ Len(calls) \in Nat \ {0}
         /\ \A j \in 1..(Len(calls) - 1) : calls'[j] = calls[j]
<1>1. Len(calls) \in Nat \ {0}
  BY EmptySeq, LenProperties
<1> QED
  BY <1>1, FrontOfSeq DEF Below

\* What the types say of the stack.
LEMMA StackTypes ==
  ASSUME HostTypeOK
  PROVE  /\ calls \in Seq(CallFrame \cup PumpFrame)
         /\ Len(calls) \in Nat
         /\ calls = <<>> <=> Len(calls) = 0
         /\ vmSet \in BOOLEAN /\ pumping \in BOOLEAN /\ dropped \in BOOLEAN
         /\ \A f \in CallFrame : IsCall(f)
         /\ \A f \in PumpFrame : ~IsCall(f)
  BY EmptySeq, LenProperties DEF HostTypeOK, CallFrame, PumpFrame, IsCall

\* A program starts a native call.
LEMMA CallKeepsStack ==
  ASSUME HostTypeOK, StackInv, CallNative
  PROVE  StackInv' /\ calls' \in Seq(CallFrame \cup PumpFrame)
<1> DEFINE f == Call("arguments", <<>>)
<1> USE DEF StackInv
<1>1. f \in CallFrame /\ f.run = FALSE /\ f.vm = FALSE /\ f.error = 0 /\ f.phase = "arguments"
  BY EmptySeq DEF Call, CallFrame
<1> HIDE DEF f
<1>2. /\ calls' = Append(calls, f) /\ calls \in Seq(CallFrame \cup PumpFrame)
      /\ ~dropped
      /\ UNCHANGED <<vmSet, pumping, pumpError, lifecycle, queue, dropped>>
  BY StackTypes DEF CallNative, f, cells, queueVars
<1>3. /\ calls' \in Seq(CallFrame \cup PumpFrame) /\ Len(calls') = Len(calls) + 1
      /\ \A j \in 1..Len(calls) : calls'[j] = calls[j]
      /\ calls'[Len(calls) + 1] = f
  BY <1>1, <1>2, AppendProperties
<1>4. Len(calls) = 0 \/ (Len(calls) = 2 /\ calls[2].running # 0)
  BY StackTypes DEF CallNative, ProgramRuns, Top, Nested
<1>5. Nested'
  BY <1>1, <1>2, <1>3, <1>4, StackTypes DEF Nested
<1>6. Restores'
  BY <1>1, <1>2, <1>3, <1>4, StackTypes DEF Nested, Restores
<1>7. RunHeld'
  BY <1>1, <1>2, <1>3, <1>4, StackTypes DEF Nested, RunHeld
<1>8. Drops'
  BY <1>2 DEF Drops
<1> QED
  BY <1>3, <1>5, <1>6, <1>7, <1>8

\* A call that is not in the extension is over.
LEMMA ReturnKeepsStack ==
  ASSUME HostTypeOK, StackInv,
         calls # <<>>, IsCall(Top), Top.phase # "native", calls' = Below,
         UNCHANGED <<cells, lifecycle, queue, dropped, live, closed>>
  PROVE  StackInv' /\ calls' \in Seq(CallFrame \cup PumpFrame)
<1> USE DEF StackInv
<1>1. /\ calls' \in Seq(CallFrame \cup PumpFrame) /\ Len(calls') = Len(calls) - 1
      /\ Len(calls) \in Nat \ {0}
      /\ \A j \in 1..(Len(calls) - 1) : calls'[j] = calls[j]
  BY TopGone, StackTypes
<1>2. Len(calls) = 1 \/ Len(calls) = 3
  BY StackTypes, <1>1 DEF Nested, Top
<1>3. Nested'
  BY <1>1, <1>2 DEF Nested, cells, Top
<1>4. Restores'
  BY <1>1, <1>2 DEF Restores, cells, Nested, Top
<1>5. RunHeld'
  BY <1>1, <1>2 DEF RunHeld, Top
<1>6. Drops'
  BY DEF Drops
<1> QED
  BY <1>1, <1>3, <1>4, <1>5, <1>6

\* A call notes or drops temporary callbacks.
LEMMA TempsKeepStack ==
  ASSUME HostTypeOK, StackInv,
         calls # <<>>, IsCall(Top), NEW t \in Seq(Handle), SetTop([Top EXCEPT !.temps = t]),
         UNCHANGED <<cells, lifecycle, queue, dropped, closed>>
  PROVE  StackInv' /\ calls' \in Seq(CallFrame \cup PumpFrame)
<1> DEFINE f == [Top EXCEPT !.temps = t]
<1> USE DEF StackInv
<1>1. Top \in CallFrame /\ Top = calls[Len(calls)]
  BY StackTypes DEF Nested, Top
<1>2. /\ f \in CallFrame /\ f.run = Top.run /\ f.vm = Top.vm /\ f.error = Top.error
      /\ f.phase = Top.phase /\ f.kind = Top.kind
  BY <1>1 DEF CallFrame
<1>3. SetTop(f)
  OBVIOUS
<1> HIDE DEF f
<1>4. /\ calls' \in Seq(CallFrame \cup PumpFrame) /\ Len(calls') = Len(calls)
      /\ Len(calls) \in Nat \ {0} /\ calls'[Len(calls)] = f
      /\ \A j \in 1..Len(calls) : j # Len(calls) => calls'[j] = calls[j]
  BY <1>2, <1>3, StackTypes, TopReplaced
<1>5. Len(calls) = 1 \/ Len(calls) = 3
  BY StackTypes, <1>4 DEF Nested, Top
<1>6. Nested'
  BY <1>1, <1>2, <1>4, <1>5 DEF Nested, cells
<1>7. Restores'
  BY <1>1, <1>2, <1>4, <1>5 DEF Restores, Nested, cells
<1>8. RunHeld'
  BY <1>1, <1>2, <1>4, <1>5 DEF RunHeld, IsCall
<1>9. ~dropped
  BY DEF Drops
<1> QED
  BY <1>4, <1>6, <1>7, <1>8, <1>9 DEF Drops

\* The extension is entered: what holds outside is put aside.
LEMMA EnterKeepsStack ==
  ASSUME HostTypeOK, StackInv, NEW run \in BOOLEAN, EnterNative(run)
  PROVE  StackInv' /\ calls' \in Seq(CallFrame \cup PumpFrame)
<1> DEFINE f == [Top EXCEPT !.phase = "native", !.run = run, !.vm = vmSet, !.error = pumpError]
<1> USE DEF StackInv
<1>1. /\ calls # <<>> /\ Top \in CallFrame /\ Top = calls[Len(calls)]
      /\ Top.phase = "arguments"
  BY StackTypes DEF Nested, Top, EnterNative, InPhase
<1>2. /\ f \in CallFrame /\ f.run = run /\ f.vm = vmSet /\ f.error = pumpError
      /\ f.phase = "native"
  BY <1>1 DEF CallFrame, HostTypeOK
<1>3. SetTop(f)
  BY DEF EnterNative
<1> HIDE DEF f
<1>4. /\ calls' \in Seq(CallFrame \cup PumpFrame) /\ Len(calls') = Len(calls)
      /\ Len(calls) \in Nat \ {0} /\ calls'[Len(calls)] = f
      /\ \A j \in 1..Len(calls) : j # Len(calls) => calls'[j] = calls[j]
  BY <1>1, <1>2, <1>3, StackTypes, TopReplaced
<1>5. Len(calls) = 1 \/ Len(calls) = 3
  BY StackTypes, <1>1, <1>4 DEF Nested
<1>6. /\ vmSet' = TRUE /\ pumpError' = 0 /\ pumping' = pumping /\ dropped' = dropped
      /\ run => lifecycle = "Open"
      /\ lifecycle' = IF run THEN "Running" ELSE lifecycle
  BY DEF EnterNative
<1>7. Nested'
  BY <1>2, <1>4, <1>5, <1>6 DEF Nested
<1>8. Restores'
  BY <1>1, <1>2, <1>4, <1>5, <1>6, StackTypes DEF Restores, Nested
<1>9. RunHeld'
  <2>1. IsCall(f) /\ IsCall(Top)
    BY <1>1, <1>2, StackTypes
  <2>2. Top.run = FALSE
    BY <1>1, <1>4, <2>1 DEF RunHeld, CallFrame
  <2>3. (\E n \in 1..Len(calls') : IsCall(calls'[n]) /\ calls'[n].run)
          <=> run \/ \E n \in 1..Len(calls) : IsCall(calls[n]) /\ calls[n].run
    BY <1>1, <1>2, <1>4, <2>1, <2>2
  <2>4. lifecycle' = "Running" <=> \E n \in 1..Len(calls') : IsCall(calls'[n]) /\ calls'[n].run
    BY <1>6, <2>3 DEF RunHeld
  <2>5. Len(calls) = 3 => ~(calls'[1].run /\ calls'[3].run)
    <3> SUFFICES ASSUME Len(calls) = 3, calls'[1].run, calls'[3].run PROVE FALSE
      OBVIOUS
    <3>1. calls'[1] = calls[1] /\ IsCall(calls[1]) /\ run
      BY <1>2, <1>4, StackTypes DEF Nested
    <3>2. lifecycle = "Running"
      BY <3>1 DEF RunHeld
    <3> QED
      BY <1>6, <3>1, <3>2
  <2>6. \A n \in 1..Len(calls') : IsCall(calls'[n]) /\ calls'[n].run => calls'[n].phase = "native"
    BY <1>2, <1>4 DEF RunHeld
  <2> QED
    BY <1>4, <2>4, <2>5, <2>6 DEF RunHeld
<1>10. ~dropped
  BY <1>1 DEF Drops
<1>11. Drops'
  BY <1>6, <1>10 DEF Drops
<1> QED
  BY <1>4, <1>7, <1>8, <1>9, <1>11

\* The extension returns: what was put aside is back.
LEMMA LeaveKeepsStack ==
  ASSUME HostTypeOK, StackInv, LeaveNative
  PROVE  StackInv' /\ calls' \in Seq(CallFrame \cup PumpFrame)
<1> DEFINE f == [Top EXCEPT !.phase = "release", !.run = FALSE]
<1> USE DEF StackInv
<1>1. /\ calls # <<>> /\ Top \in CallFrame /\ Top = calls[Len(calls)]
      /\ Top.phase = "native"
  BY StackTypes DEF Nested, Top, LeaveNative, InPhase
<1>2. /\ f \in CallFrame /\ f.run = FALSE /\ f.vm = Top.vm /\ f.error = Top.error
      /\ f.phase = "release"
  BY <1>1 DEF CallFrame
<1>3. SetTop(f)
  BY DEF LeaveNative
<1> HIDE DEF f
<1>4. /\ calls' \in Seq(CallFrame \cup PumpFrame) /\ Len(calls') = Len(calls)
      /\ Len(calls) \in Nat \ {0} /\ calls'[Len(calls)] = f
      /\ \A j \in 1..Len(calls) : j # Len(calls) => calls'[j] = calls[j]
  BY <1>1, <1>2, <1>3, StackTypes, TopReplaced
<1>5. Len(calls) = 1 \/ Len(calls) = 3
  BY StackTypes, <1>1, <1>4 DEF Nested
<1>6. /\ vmSet' = Top.vm /\ pumpError' = Top.error /\ pumping' = pumping /\ dropped' = dropped
      /\ lifecycle' = IF Top.run /\ lifecycle = "Running" THEN "Open" ELSE lifecycle
  BY DEF LeaveNative
<1>7. Nested'
  BY <1>2, <1>4, <1>5, <1>6 DEF Nested
<1>8. Restores'
  BY <1>1, <1>2, <1>4, <1>5, <1>6, StackTypes DEF Restores, Nested
<1>9. RunHeld'
  <2>1. IsCall(f) /\ IsCall(Top)
    BY <1>1, <1>2, StackTypes
  <2>2. \A n \in 1..Len(calls) : n # Len(calls) /\ IsCall(calls[n]) /\ calls[n].run => ~Top.run
    BY <1>1, <1>5, StackTypes DEF RunHeld, Nested
  <2>3. Top.run => lifecycle = "Running"
    BY <1>1, <1>4, <2>1 DEF RunHeld
  <2>4. (\E n \in 1..Len(calls') : IsCall(calls'[n]) /\ calls'[n].run)
          <=> \E n \in 1..Len(calls) : n # Len(calls) /\ IsCall(calls[n]) /\ calls[n].run
    BY <1>2, <1>4
  <2>5. lifecycle' = "Running" <=> \E n \in 1..Len(calls') : IsCall(calls'[n]) /\ calls'[n].run
    BY <1>1, <1>4, <1>6, <2>1, <2>2, <2>3, <2>4 DEF RunHeld
  <2> QED
    BY <1>1, <1>2, <1>4, <1>5, <2>5, <2>1 DEF RunHeld
<1>10. ~dropped
  BY <1>1 DEF Drops
<1>11. Drops'
  BY <1>6, <1>10 DEF Drops
<1> QED
  BY <1>4, <1>7, <1>8, <1>9, <1>11

\* The extension asks for the pump, which is not running yet.
LEMMA PumpKeepsStack ==
  ASSUME HostTypeOK, StackInv, AskPump
  PROVE  StackInv' /\ calls' \in Seq(CallFrame \cup PumpFrame)
<1> USE DEF StackInv
<1>1. /\ Pump \in PumpFrame /\ ~IsCall(Pump)
      /\ calls # <<>> /\ Top = calls[Len(calls)] /\ Top.phase = "native"
  BY StackTypes DEF Pump, PumpFrame, Top, AskPump, InPhase
<1>2. /\ calls' = Append(calls, Pump) /\ pumping' = TRUE /\ ~pumping
      /\ UNCHANGED <<vmSet, pumpError, lifecycle, queue, dropped>>
  BY DEF AskPump, queueVars
<1>3. /\ calls' \in Seq(CallFrame \cup PumpFrame) /\ Len(calls') = Len(calls) + 1
      /\ \A j \in 1..Len(calls) : calls'[j] = calls[j]
      /\ calls'[Len(calls) + 1] = Pump
  BY <1>1, <1>2, StackTypes, AppendProperties
<1>4. Len(calls) = 1
  BY <1>1, <1>2, StackTypes DEF Nested
<1>5. Nested'
  BY <1>1, <1>2, <1>3, <1>4 DEF Nested
<1>6. Restores'
  BY <1>2, <1>3, <1>4 DEF Restores
<1>7. RunHeld'
  BY <1>1, <1>2, <1>3, <1>4, StackTypes DEF RunHeld
<1>8. ~dropped
  BY <1>1 DEF Drops
<1> QED
  BY <1>2, <1>3, <1>5, <1>6, <1>7, <1>8 DEF Drops

\* The pump ends, and leaves its error to the call that asked for it.
LEMMA PumpEndKeepsStack ==
  ASSUME HostTypeOK, StackInv, calls # <<>>, ~IsCall(Top), NEW error \in BOOLEAN, EndPump(error),
         UNCHANGED <<vmSet, lifecycle, dropped>>
  PROVE  StackInv' /\ calls' \in Seq(CallFrame \cup PumpFrame)
<1> USE DEF StackInv
<1>1. /\ calls' = Below /\ pumping' = FALSE
      /\ pumpError' = IF error THEN Len(calls) - 1 ELSE pumpError
  BY DEF EndPump
<1>2. /\ calls' \in Seq(CallFrame \cup PumpFrame) /\ Len(calls') = Len(calls) - 1
      /\ Len(calls) \in Nat \ {0}
      /\ \A j \in 1..(Len(calls) - 1) : calls'[j] = calls[j]
  BY <1>1, TopGone, StackTypes
<1>3. Len(calls) = 2
  BY StackTypes, <1>2 DEF Nested, Top
<1>4. Nested'
  BY <1>1, <1>2, <1>3 DEF Nested
<1>5. Restores'
  BY <1>1, <1>2, <1>3 DEF Restores, Nested
<1>6. RunHeld'
  BY <1>2, <1>3, StackTypes DEF RunHeld, Nested
<1>7. ~dropped
  BY DEF Drops
<1> QED
  BY <1>2, <1>4, <1>5, <1>6, <1>7 DEF Drops

\* The pump starts a callback, or is given back the thread by one.
LEMMA RunKeepsStack ==
  ASSUME HostTypeOK, StackInv, calls # <<>>, ~IsCall(Top), NEW f \in PumpFrame, SetTop(f),
         UNCHANGED <<cells, lifecycle, dropped>>
  PROVE  StackInv' /\ calls' \in Seq(CallFrame \cup PumpFrame)
<1> USE DEF StackInv
<1>1. /\ calls' \in Seq(CallFrame \cup PumpFrame) /\ Len(calls') = Len(calls)
      /\ Len(calls) \in Nat \ {0} /\ calls'[Len(calls)] = f
      /\ \A j \in 1..Len(calls) : j # Len(calls) => calls'[j] = calls[j]
  BY StackTypes, TopReplaced
<1>2. Len(calls) = 2 /\ ~IsCall(f)
  BY StackTypes, <1>1 DEF Nested, Top
<1>3. Nested'
  BY <1>1, <1>2 DEF Nested, cells
<1>4. Restores'
  BY <1>1, <1>2 DEF Restores, Nested, cells
<1>5. RunHeld'
  BY <1>1, <1>2, StackTypes DEF RunHeld, Nested
<1>6. ~dropped
  BY DEF Drops
<1> QED
  BY <1>1, <1>3, <1>4, <1>5, <1>6 DEF Drops

-----------------------------------------------------------------------------
(***************************************************************************)
(* What the operations of the table do to it, seen from outside.           *)
(***************************************************************************)
\* create has put callback Len(issued) + 1 in an empty slot, under handle h.
Registered(h) ==
  /\ issued' \in Seq(Handle) /\ Len(issued') = Len(issued) + 1
  /\ issued'[Len(issued) + 1] = h
  /\ \A n \in 1..Len(issued) : issued'[n] = issued[n]
  /\ h.slot \in 1..Len(slots') /\ (h.slot \in 1..Len(slots) => ~Occupied(h.slot))
  /\ slots'[h.slot].gen = h.gen
  /\ slots'[h.slot].entry = [refs |-> 1, callback |-> Len(issued) + 1]
  /\ \A j \in 1..Len(slots') : j # h.slot => j \in 1..Len(slots) /\ slots'[j] = slots[j]
  /\ \A j \in 1..Len(slots) : j \in 1..Len(slots')

\* The entry of slot i has become x, and nothing else in the table has changed.
Changed(i, x) ==
  /\ issued' = issued /\ Len(slots') = Len(slots)
  /\ slots'[i].entry = x
  /\ \A j \in 1..Len(slots) :
       slots'[j].gen = slots[j].gen /\ (j # i => slots'[j].entry = slots[j].entry)

\* A create in a given slot registers its handle.
LEMMA CreateInRegisters ==
  ASSUME IInv, NEW i \in 1..Len(slots) + 1, NEW g \in 1..MaxGeneration, CreateIn(i, g),
         i \in 1..Len(slots) => ~Occupied(i)
  PROVE  \E h \in Handle : Registered(h)
<1> DEFINE id == Len(issued) + 1
           slot == [gen |-> g, entry |-> [refs |-> 1, callback |-> id]]
           handle == [slot |-> i, gen |-> g]
<1>1. /\ Len(slots) \in Nat /\ Len(issued) \in Nat
      /\ slots \in Seq(Slot) /\ issued \in Seq(Handle)
      /\ MaxReferences \in Nat \ {0}
  BY SlotTypes, LimitsAssumption DEF IInv, TypeOK
<1>2. slot \in Slot /\ handle \in Handle
  BY <1>1 DEF Slot, Entry, Handle
<1>3. /\ slots' = IF i \in 1..Len(slots) THEN [slots EXCEPT ![i] = slot]
                                         ELSE Append(slots, slot)
      /\ issued' = Append(issued, handle)
  BY DEF CreateIn
<1>4. /\ slot.gen = g /\ slot.entry = [refs |-> 1, callback |-> id]
      /\ handle.slot = i /\ handle.gen = g
  OBVIOUS
<1> HIDE DEF slot, handle
<1>5. /\ i \in 1..Len(slots')
      /\ slots'[i] = slot
      /\ \A j \in 1..Len(slots') : j # i => j \in 1..Len(slots) /\ slots'[j] = slots[j]
      /\ \A j \in 1..Len(slots) : j \in 1..Len(slots')
  <2>1. CASE i \in 1..Len(slots)
    BY <1>1, <1>2, <1>3, <2>1, ExceptSeq
  <2>2. CASE i = Len(slots) + 1
    <3>1. slots' = Append(slots, slot)
      BY <1>1, <1>3, <2>2
    <3>2. /\ Len(slots') = Len(slots) + 1
          /\ slots'[Len(slots) + 1] = slot
          /\ \A j \in 1..Len(slots) : slots'[j] = slots[j]
      BY <1>1, <1>2, <3>1, AppendProperties
    <3> QED
      BY <1>1, <2>2, <3>2
  <2> QED
    BY <1>1, <2>1, <2>2
<1>6. /\ issued' \in Seq(Handle) /\ Len(issued') = id /\ issued'[id] = handle
      /\ \A n \in 1..Len(issued) : issued'[n] = issued[n]
  BY <1>1, <1>2, <1>3, AppendProperties
<1>7. Registered(handle)
  BY <1>4, <1>5, <1>6 DEF Registered
<1> QED
  BY <1>2, <1>7

\* create registers a handle.
LEMMA CreateRegisters == ASSUME IInv, Create PROVE \E h \in Handle : Registered(h)
<1>1. Len(slots) \in Nat /\ Len(free) \in Nat /\ 1 \in 1..MaxGeneration
  BY SlotTypes, GenerationAssumption DEF IInv
<1>2. CASE free # <<>>
  <2> DEFINE top == free[Len(free)]
  <2>1. top \in 1..Len(slots) /\ ~Occupied(top)
    <3>1. Len(free) \in 1..Len(free)
      BY <1>1, <1>2, EmptySeq DEF IInv, TypeOK
    <3> QED
      BY <3>1 DEF IInv, FreeSlots
  <2>2. CreateIn(top, NextGeneration(slots[top].gen))
    BY <1>2 DEF Create
  <2>3. NextGeneration(slots[top].gen) \in 1..MaxGeneration
    BY <2>1, SlotTypes, NextGenerationGrows DEF IInv
  <2> HIDE DEF top
  <2>4. top \in 1..Len(slots) + 1
    BY <1>1, <2>1
  <2> QED
    BY <2>1, <2>2, <2>3, <2>4, CreateInRegisters
<1>3. CASE free = <<>>
  <2>1. CreateIn(Len(slots) + 1, 1)
    BY <1>3 DEF Create
  <2>2. Len(slots) + 1 \in 1..Len(slots) + 1 /\ Len(slots) + 1 \notin 1..Len(slots)
    BY <1>1
  <2> QED
    BY <1>1, <2>1, <2>2, CreateInRegisters
<1> QED
  BY <1>2, <1>3

\* A count that changes changes one entry.
LEMMA CountChanges ==
  ASSUME IInv, NEW i \in 1..Len(slots), Occupied(i), NEW n \in Int,
         slots' = [slots EXCEPT ![i].entry.refs = n], issued' = issued
  PROVE  Changed(i, [slots[i].entry EXCEPT !.refs = n])
<1>1. slots \in Seq(Slot) /\ slots[i] \in Slot
  BY SlotTypes DEF IInv, TypeOK
<1> DEFINE s == [slots[i] EXCEPT !.entry.refs = n]
<1>2. s.gen = slots[i].gen /\ s.entry = [slots[i].entry EXCEPT !.refs = n]
  BY <1>1 DEF Slot
<1>3. /\ slots' = [slots EXCEPT ![i] = s]
      /\ DOMAIN slots = 1..Len(slots) /\ Len(slots) \in Nat
  BY <1>1, LenProperties
<1> HIDE DEF s
<1>4. \A j \in 1..Len(slots) : slots'[j] = IF j = i THEN s ELSE slots[j]
  BY <1>1, <1>3
<1>5. Len(slots') = Len(slots)
  BY <1>1, <1>3, LenProperties
<1> QED
  BY <1>2, <1>4, <1>5 DEF Changed

\* retain counts one reference more in the slot of its handle.
LEMMA RetainChanges ==
  ASSUME IInv, NEW h \in Handle, Retain(h)
  PROVE  /\ h.slot \in 1..Len(slots) /\ Occupied(h.slot) /\ slots[h.slot].gen = h.gen
         /\ Changed(h.slot, [EntryOf(h) EXCEPT !.refs = EntryOf(h).refs + 1])
<1>1. h.slot \in 1..Len(slots) /\ Occupied(h.slot) /\ slots[h.slot].gen = h.gen
  BY DEF Retain, Resolves
<1>2. EntryOf(h).refs + 1 \in Int
  BY <1>1, SlotTypes, LimitsAssumption DEF IInv, EntryOf, Occupied, Entry
<1>3. /\ slots' = [slots EXCEPT ![h.slot].entry.refs = EntryOf(h).refs + 1]
      /\ issued' = issued
  BY DEF Retain, EntryOf
<1> QED
  BY <1>1, <1>2, <1>3, CountChanges DEF EntryOf

\* release counts one reference less there, or empties the slot.
LEMMA ReleaseChanges ==
  ASSUME IInv, NEW h \in Handle, Release(h)
  PROVE  /\ h.slot \in 1..Len(slots) /\ Occupied(h.slot) /\ slots[h.slot].gen = h.gen
         /\ \/ /\ EntryOf(h).refs > 1
               /\ Changed(h.slot, [EntryOf(h) EXCEPT !.refs = EntryOf(h).refs - 1])
            \/ /\ EntryOf(h).refs = 1
               /\ Changed(h.slot, Empty)
<1>1. h.slot \in 1..Len(slots) /\ Occupied(h.slot) /\ slots[h.slot].gen = h.gen
  BY DEF Release, Resolves
<1>2. CASE EntryOf(h).refs > 1
  <2>1. EntryOf(h).refs - 1 \in Int
    BY <1>1, SlotTypes, LimitsAssumption DEF IInv, EntryOf, Occupied, Entry
  <2>2. /\ slots' = [slots EXCEPT ![h.slot].entry.refs = EntryOf(h).refs - 1]
        /\ issued' = issued
    BY <1>2 DEF Release, EntryOf
  <2> QED
    BY <1>1, <1>2, <2>1, <2>2, CountChanges DEF EntryOf
<1>3. CASE EntryOf(h).refs = 1
  <2>1. slots' = [slots EXCEPT ![h.slot].entry = Empty] /\ issued' = issued
    BY <1>3 DEF Release
  <2>2. Empty \in Entry
    BY DEF Entry
  <2>3. /\ Len(slots') = Len(slots) /\ slots'[h.slot].entry = Empty
        /\ \A j \in 1..Len(slots) :
             slots'[j].gen = slots[j].gen /\ (j # h.slot => slots'[j].entry = slots[j].entry)
    BY <1>1, <2>1, <2>2, EntryKeeps
  <2> QED
    BY <1>1, <1>3, <2>1, <2>3 DEF Changed
<1> QED
  BY <1>1, <1>2, <1>3 DEF Release

\* A create makes its callback known.
LEMMA RegisteredKeepsTenants ==
  ASSUME IInv, TenantsKnown, NEW h \in Handle, Registered(h)
  PROVE  TenantsKnown'
<1>1. Len(issued) \in Nat
  BY SlotTypes DEF IInv
<1> SUFFICES ASSUME NEW i \in 1..Len(slots'), slots'[i].entry # Empty
             PROVE  /\ slots'[i].entry.callback \in 1..Len(issued')
                    /\ issued'[slots'[i].entry.callback] = [slot |-> i, gen |-> slots'[i].gen]
  BY DEF TenantsKnown, Occupied
<1>2. CASE i = h.slot
  <2>1. slots'[i].entry.callback = Len(issued) + 1
    BY <1>2 DEF Registered
  <2>2. h = [slot |-> i, gen |-> slots'[i].gen]
    BY <1>2 DEF Registered, Handle
  <2> QED
    BY <1>1, <2>1, <2>2 DEF Registered
<1>3. CASE i # h.slot
  <2>1. i \in 1..Len(slots) /\ slots'[i] = slots[i]
    BY <1>3 DEF Registered
  <2>2. /\ slots[i].entry.callback \in 1..Len(issued)
        /\ issued[slots[i].entry.callback] = [slot |-> i, gen |-> slots[i].gen]
    BY <2>1 DEF TenantsKnown, Occupied
  <2> QED
    BY <1>1, <2>1, <2>2 DEF Registered
<1> QED
  BY <1>2, <1>3

\* A change that leaves the callback of the slot, or empties it, keeps the
\* tenants known.
LEMMA ChangedKeepsTenants ==
  ASSUME TenantsKnown, NEW i \in 1..Len(slots), Occupied(i), NEW x, Changed(i, x),
         x = Empty \/ x.callback = slots[i].entry.callback
  PROVE  TenantsKnown'
  BY DEF TenantsKnown, Changed, Occupied

\* Two occupied slots hold different callbacks.
LEMMA TenantsDiffer ==
  ASSUME TenantsKnown, NEW i \in 1..Len(slots), NEW j \in 1..Len(slots), Occupied(i), Occupied(j),
         slots[i].entry.callback = slots[j].entry.callback
  PROVE  i = j
<1>1. [slot |-> i, gen |-> slots[i].gen] = [slot |-> j, gen |-> slots[j].gen]
  BY DEF TenantsKnown
<1>2. [slot |-> i, gen |-> slots[i].gen].slot = [slot |-> j, gen |-> slots[j].gen].slot
  BY <1>1, Zenon
<1> QED
  BY <1>2

\* close leaves no tenant.
LEMMA CloseKeepsTenants == ASSUME IInv, Close PROVE TenantsKnown'
<1> DEFINE n == Len(slots)
           S == [i \in 1..n |-> [slots[i] EXCEPT !.entry = Empty]]
<1>1. n \in Nat /\ \A i \in 1..n : slots[i] \in Slot
  BY SlotTypes DEF IInv
<1>2. \A i \in 1..n : S[i] \in Slot /\ S[i].entry = Empty
  BY <1>1 DEF Slot, Entry
<1>3. slots' = S /\ S \in [1..n -> Slot]
  BY <1>1, <1>2 DEF Close
<1> HIDE DEF S
<1>4. Len(slots') = n
  BY <1>1, <1>3, IntervalIsSeq
<1> QED
  BY <1>2, <1>3, <1>4 DEF TenantsKnown, Occupied

-----------------------------------------------------------------------------
(***************************************************************************)
(* The invariant of the host.                                              *)
(***************************************************************************)
\* A queued event names the callback its handle was issued for; a thread
\* posts only what was issued.
Meant ==
  /\ \A j \in 1..Len(queue) :
       queue[j].meant \in 1..Len(issued) /\ issued[queue[j].meant] = queue[j].handle
  /\ \A t \in Threads : posting[t] # NoHandle => posting[t] \in Issued

\* Every temporary and every retain of the extension reaches its callback, and
\* a slot has a reference for each of them.
Held ==
  disciplined /\ ~dropped =>
    /\ \A n \in CallFrames : \A k \in 1..Len(calls[n].temps) : Resolves(calls[n].temps[k])
    /\ \A id \in 1..MaxCreates : kept[id] > 0 =>
         id <= Len(issued) /\ Resolves(issued[id]) /\ EntryOf(issued[id]).callback = id
    /\ \A h \in Issued : Resolves(h) =>
         Cardinality(Places(h)) + kept[EntryOf(h).callback] <= EntryOf(h).refs

Bounds ==
  /\ Len(issued) <= MaxCreates
  /\ \A n \in CallFrames : Len(calls[n].temps) <= MaxTemps

HostInv ==
  /\ IInv /\ HostTypeOK /\ TenantsKnown
  /\ StackInv
  /\ Meant /\ RunsWhatWasMeant
  /\ Held /\ Bounds

-----------------------------------------------------------------------------
(***************************************************************************)
(* Counting the temporary callbacks.                                       *)
(***************************************************************************)
\* There are finitely many places, in calls alone.
LEMMA PlacesFinite ==
  ASSUME HostTypeOK, NEW h
  PROVE  IsFiniteSet(Places(h)) /\ Cardinality(Places(h)) \in Nat
<1>1. Len(calls) \in Nat /\ MaxTemps \in Nat
  BY StackTypes, HostAssumption
<1>2. IsFiniteSet(1..Len(calls)) /\ IsFiniteSet(1..MaxTemps)
  BY <1>1, FS_Interval
<1>3. IsFiniteSet(CallFrames)
  BY <1>2, FS_Subset DEF CallFrames
<1>4. IsFiniteSet(CallFrames \X (1..MaxTemps))
  BY <1>2, <1>3, FS_Product
<1> QED
  BY <1>4, FS_Subset, FS_CardinalityType DEF Places

\* A temporary has a place.
LEMMA TempHasPlace ==
  ASSUME HostTypeOK, Bounds, NEW n \in CallFrames, NEW k \in 1..Len(calls[n].temps)
  PROVE  <<n, k>> \in Places(calls[n].temps[k])
<1>1. calls[n] \in CallFrame
  BY StackTypes, ElementOfSeq DEF CallFrames
<1>2. Len(calls[n].temps) \in Nat /\ Len(calls[n].temps) <= MaxTemps /\ MaxTemps \in Nat
  BY <1>1, LenProperties, HostAssumption DEF CallFrame, Bounds
<1>3. k \in 1..MaxTemps /\ k <= Len(calls[n].temps)
  BY <1>2
<1> QED
  BY <1>3 DEF Places

\* Fewer places are no more.
LEMMA FewerPlaces ==
  ASSUME HostTypeOK, NEW h, Places(h)' \subseteq Places(h)
  PROVE  Cardinality(Places(h)') <= Cardinality(Places(h)) /\ Cardinality(Places(h)') \in Nat
  BY PlacesFinite, FS_Subset, FS_CardinalityType

\* No call has temporary callbacks it did not have before.
TempsStay ==
  \A n \in 1..Len(calls') : IsCall(calls'[n]) =>
    \/ calls'[n].temps = <<>>
    \/ n \in 1..Len(calls) /\ IsCall(calls[n]) /\ calls'[n].temps = calls[n].temps

\* No pump runs a callback it did not run before.
PumpsStay ==
  \A n \in 1..Len(calls') : ~IsCall(calls'[n]) =>
    \/ calls'[n] = Pump
    \/ n \in 1..Len(calls) /\ calls'[n] = calls[n]

\* Then the places have become no more.
LEMMA TempsStayPlaces ==
  ASSUME TempsStay, HostTypeOK, NEW h
  PROVE  Places(h)' \subseteq Places(h)
<1>1. Len(<<>>) = 0
  BY EmptySeq
<1> SUFFICES ASSUME NEW p \in Places(h)' PROVE p \in Places(h)
  OBVIOUS
<1>2. /\ p[1] \in 1..Len(calls') /\ IsCall(calls'[p[1]]) /\ p[2] \in 1..MaxTemps
      /\ p[2] <= Len(calls'[p[1]].temps) /\ calls'[p[1]].temps[p[2]] = h
      /\ p = <<p[1], p[2]>>
  BY DEF Places, CallFrames
<1>3. calls'[p[1]].temps # <<>>
  BY <1>1, <1>2, HostAssumption
<1>4. /\ p[1] \in 1..Len(calls) /\ IsCall(calls[p[1]])
      /\ calls'[p[1]].temps = calls[p[1]].temps
  BY <1>2, <1>3 DEF TempsStay
<1> QED
  BY <1>2, <1>4 DEF Places, CallFrames

\* The entry a handle reaches, and what the extension keeps of it.
LEMMA TenantTypes ==
  ASSUME HostInv, NEW h, Resolves(h)
  PROVE  /\ h.slot \in 1..Len(slots) /\ EntryOf(h) \in Entry
         /\ EntryOf(h).refs \in 1..MaxReferences /\ EntryOf(h).refs \in Nat \ {0}
         /\ EntryOf(h).callback \in 1..Len(issued) /\ EntryOf(h).callback \in 1..MaxCreates
         /\ EntryOf(h).callback \in Nat \ {0}
         /\ kept[EntryOf(h).callback] \in Nat
<1> USE DEF HostInv
<1>1. h.slot \in 1..Len(slots) /\ EntryOf(h) \in Entry /\ EntryOf(h) # Empty
  BY SlotTypes DEF IInv, Resolves, Occupied, EntryOf
<1>2. EntryOf(h).refs \in 1..MaxReferences /\ EntryOf(h).refs \in Nat \ {0}
  BY <1>1, LimitsAssumption DEF Entry
<1>3. EntryOf(h).callback \in 1..Len(issued) /\ Len(issued) \in Nat
  BY SlotTypes DEF TenantsKnown, Resolves, EntryOf, IInv
<1>4. EntryOf(h).callback \in 1..MaxCreates /\ EntryOf(h).callback \in Nat \ {0}
  BY <1>3, LimitsAssumption DEF Bounds
<1> QED
  BY <1>1, <1>2, <1>3, <1>4 DEF HostTypeOK

\* A step that leaves the table alone keeps what is known of it.
LEMMA TableStays ==
  ASSUME IInv, TenantsKnown, UNCHANGED table
  PROVE  IInv' /\ TenantsKnown'
<1>1. IInv'
  BY StepKeepsInvariant
<1>2. TenantsKnown'
  BY DEF TenantsKnown, Occupied, table
<1> QED
  BY <1>1, <1>2

\* Then the pumps run what was meant.
LEMMA PumpsStayMeant ==
  ASSUME RunsWhatWasMeant, PumpsStay, issued' = issued
  PROVE  RunsWhatWasMeant'
<1>1. Pump.running = Pump.meant
  BY DEF Pump
<1> QED
  BY <1>1 DEF RunsWhatWasMeant, PumpsStay

\* A step of the owner thread that leaves the table alone.
LEMMA QuietStep ==
  ASSUME HostInv, UNCHANGED <<table, extension, posting, dropped>>, TempsStay,
         StackInv', HostTypeOK', RunsWhatWasMeant',
         queue' = queue \/ (queue # <<>> /\ queue' = Tail(queue))
  PROVE  HostInv'
<1> USE DEF HostInv
<1>1. IInv' /\ TenantsKnown'
  BY TableStays
<1>2. Len(queue) \in Nat /\ \A j \in 1..Len(queue') : \E i \in 1..Len(queue) : queue'[j] = queue[i]
  <2>1. queue \in Seq([handle : Handle, meant : Nat]) /\ Len(queue) \in Nat
    BY LenProperties DEF HostTypeOK
  <2>2. CASE queue' = queue
    BY <2>2, <2>1
  <2>3. CASE queue # <<>> /\ queue' = Tail(queue)
    <3>1. /\ Len(queue') = Len(queue) - 1
          /\ \A j \in 1..Len(queue') : queue'[j] = queue[j + 1]
      BY <2>1, <2>3, HeadTailProperties
    <3>2. \A j \in 1..Len(queue') : j + 1 \in 1..Len(queue)
      BY <2>1, <3>1
    <3> QED
      BY <2>1, <3>1, <3>2
  <2> QED
    BY <2>2, <2>3
<1>3. Meant'
  BY <1>2 DEF Meant, table, Issued
<1>4. Held'
  <2> SUFFICES ASSUME disciplined', ~dropped'
               PROVE  /\ \A n \in CallFrames' : \A k \in 1..Len(calls'[n].temps) :
                           Resolves(calls[n].temps[k])'
                      /\ \A id \in 1..MaxCreates : kept'[id] > 0 =>
                           /\ id <= Len(issued')
                           /\ Resolves(issued[id])' /\ EntryOf(issued[id])'.callback = id
                      /\ \A h \in Issued' : Resolves(h)' =>
                           Cardinality(Places(h)') + kept'[EntryOf(h)'.callback] <= EntryOf(h)'.refs
    BY DEF Held
  <2>1. \A n \in CallFrames' : \A k \in 1..Len(calls'[n].temps) : Resolves(calls[n].temps[k])'
    <3> SUFFICES ASSUME NEW n \in CallFrames', NEW k \in 1..Len(calls'[n].temps)
                 PROVE  Resolves(calls[n].temps[k])'
      OBVIOUS
    <3>1. Len(<<>>) = 0
      BY EmptySeq
    <3>2. calls'[n].temps # <<>>
      BY <3>1
    <3>3. n \in CallFrames /\ calls'[n].temps = calls[n].temps
      BY <3>2 DEF TempsStay, CallFrames
    <3>4. Resolves(calls[n].temps[k])
      BY <3>3 DEF Held, extension
    <3> QED
      BY <3>3, <3>4 DEF Resolves, Occupied, table
  <2>2. \A id \in 1..MaxCreates : kept'[id] > 0 =>
          /\ id <= Len(issued')
          /\ Resolves(issued[id])' /\ EntryOf(issued[id])'.callback = id
    BY DEF Held, extension, table, Resolves, Occupied, EntryOf
  <2>3. ASSUME NEW h \in Issued', Resolves(h)'
        PROVE  Cardinality(Places(h)') + kept'[EntryOf(h)'.callback] <= EntryOf(h)'.refs
    <3>1. h \in Issued /\ Resolves(h) /\ EntryOf(h)' = EntryOf(h) /\ kept' = kept
      BY <2>3 DEF Issued, table, Resolves, Occupied, EntryOf, extension
    <3>2. Cardinality(Places(h)') <= Cardinality(Places(h)) /\ Cardinality(Places(h)') \in Nat
      BY TempsStayPlaces, FewerPlaces
    <3>3. Cardinality(Places(h)) \in Nat
      BY PlacesFinite
    <3>4. Cardinality(Places(h)) + kept[EntryOf(h).callback] <= EntryOf(h).refs
      BY <3>1 DEF Held, extension
    <3>5. kept[EntryOf(h).callback] \in Nat /\ EntryOf(h).refs \in Nat
      BY <3>1, TenantTypes
    <3> QED
      BY <3>1, <3>2, <3>3, <3>4, <3>5
  <2> QED
    BY <2>1, <2>2, <2>3
<1>5. Bounds'
  BY EmptySeq, HostAssumption DEF Bounds, TempsStay, CallFrames, table
<1> QED
  BY <1>1, <1>3, <1>4, <1>5

\* A program starts a native call.
LEMMA CallKeeps == ASSUME HostInv, CallNative PROVE HostInv'
<1> USE DEF HostInv
<1>1. StackInv' /\ calls' \in Seq(CallFrame \cup PumpFrame)
  BY CallKeepsStack
<1>2. /\ calls' = Append(calls, Call("arguments", <<>>)) /\ calls \in Seq(CallFrame \cup PumpFrame)
      /\ Call("arguments", <<>>) \in CallFrame
      /\ IsCall(Call("arguments", <<>>)) /\ Call("arguments", <<>>).temps = <<>>
      /\ UNCHANGED <<table, queueVars, posting, extension, cells, posted, dropped>>
  BY StackTypes, EmptySeq DEF CallNative, Call, CallFrame, IsCall
<1>3. /\ Len(calls') = Len(calls) + 1 /\ Len(calls) \in Nat
      /\ \A j \in 1..Len(calls) : calls'[j] = calls[j]
      /\ calls'[Len(calls) + 1] = Call("arguments", <<>>)
  BY <1>2, AppendProperties, StackTypes
<1>4. TempsStay /\ PumpsStay
  BY <1>2, <1>3 DEF TempsStay, PumpsStay
<1>5. HostTypeOK'
  BY <1>1, <1>2 DEF HostTypeOK, TypeOK, table, queueVars, extension, cells
<1> QED
  BY <1>1, <1>2, <1>4, <1>5, PumpsStayMeant, QuietStep DEF table, queueVars

\* The frame on top is left behind.
LEMMA GoneStays ==
  ASSUME HostTypeOK, calls # <<>>, calls' = Below
  PROVE  TempsStay /\ PumpsStay
<1>1. /\ Len(calls') = Len(calls) - 1 /\ Len(calls) \in Nat \ {0}
      /\ \A j \in 1..(Len(calls) - 1) : calls'[j] = calls[j]
  BY TopGone, StackTypes
<1> QED
  BY <1>1 DEF TempsStay, PumpsStay

\* A call ends outside the extension, in one of three ways.
LEMMA ReturnKeeps ==
  ASSUME HostInv, ArgumentFails \/ RunRefused \/ CallReturns
  PROVE  HostInv'
<1> USE DEF HostInv
<1>1. /\ calls # <<>> /\ IsCall(Top) /\ Top.phase # "native" /\ calls' = Below
      /\ UNCHANGED <<table, queueVars, posting, extension, cells, posted, dropped>>
  BY DEF ArgumentFails, RunRefused, CallReturns, InPhase
<1>2. StackInv' /\ calls' \in Seq(CallFrame \cup PumpFrame)
  BY <1>1, ReturnKeepsStack DEF queueVars, table
<1>3. TempsStay /\ PumpsStay
  BY <1>1, GoneStays
<1>4. HostTypeOK'
  BY <1>1, <1>2 DEF HostTypeOK, TypeOK, table, queueVars, extension, cells
<1> QED
  BY <1>1, <1>2, <1>3, <1>4, PumpsStayMeant, QuietStep DEF table, queueVars

\* A frame takes the place of one with the same temporary callbacks.
LEMMA ReplacedStays ==
  ASSUME HostTypeOK, calls # <<>>, IsCall(Top), NEW f \in CallFrame, SetTop(f),
         f.temps = Top.temps
  PROVE  TempsStay /\ PumpsStay
<1>1. /\ Len(calls') = Len(calls) /\ Len(calls) \in Nat \ {0}
      /\ calls'[Len(calls)] = f /\ IsCall(f)
      /\ \A j \in 1..Len(calls) : j # Len(calls) => calls'[j] = calls[j]
  BY StackTypes, TopReplaced
<1> QED
  BY <1>1 DEF TempsStay, PumpsStay, Top

\* The extension is entered.
LEMMA EnterKeeps == ASSUME HostInv, NEW run \in BOOLEAN, EnterNative(run) PROVE HostInv'
<1> DEFINE f == [Top EXCEPT !.phase = "native", !.run = run, !.vm = vmSet, !.error = pumpError]
<1> USE DEF HostInv
<1>1. /\ calls # <<>> /\ IsCall(Top) /\ Top = calls[Len(calls)] /\ SetTop(f)
      /\ vmSet' = TRUE /\ pumpError' = 0 /\ pumping' = pumping
      /\ lifecycle' = IF run THEN "Running" ELSE lifecycle
      /\ UNCHANGED <<table, queue, posting, extension, posted, dropped>>
  BY DEF EnterNative, InPhase, Top
<1>2. Top \in CallFrame
  BY <1>1, StackTypes DEF StackInv, Nested
<1>3. f \in CallFrame /\ f.temps = Top.temps
  BY <1>2 DEF CallFrame, HostTypeOK
<1>4. StackInv' /\ calls' \in Seq(CallFrame \cup PumpFrame)
  BY EnterKeepsStack
<1>5. TempsStay /\ PumpsStay
  BY <1>1, <1>3, ReplacedStays
<1>6. HostTypeOK'
  BY <1>1, <1>4 DEF HostTypeOK, TypeOK, table, extension
<1> QED
  BY <1>1, <1>4, <1>5, <1>6, PumpsStayMeant, QuietStep DEF table

\* The extension returns.
LEMMA LeaveKeeps == ASSUME HostInv, LeaveNative PROVE HostInv'
<1> DEFINE f == [Top EXCEPT !.phase = "release", !.run = FALSE]
<1> USE DEF HostInv
<1>1. /\ calls # <<>> /\ IsCall(Top) /\ Top = calls[Len(calls)] /\ SetTop(f)
      /\ vmSet' = Top.vm /\ pumpError' = Top.error /\ pumping' = pumping
      /\ lifecycle' = IF Top.run /\ lifecycle = "Running" THEN "Open" ELSE lifecycle
      /\ UNCHANGED <<table, queue, posting, extension, posted, dropped>>
  BY DEF LeaveNative, InPhase, Top
<1>2. Top \in CallFrame
  BY <1>1, StackTypes DEF StackInv, Nested
<1>3. f \in CallFrame /\ f.temps = Top.temps
  BY <1>2 DEF CallFrame
<1>4. StackInv' /\ calls' \in Seq(CallFrame \cup PumpFrame)
  BY LeaveKeepsStack
<1>5. TempsStay /\ PumpsStay
  BY <1>1, <1>3, ReplacedStays
<1>6. HostTypeOK'
  <2>1. vmSet' \in BOOLEAN /\ pumpError' \in Nat
    BY <1>1, <1>2 DEF CallFrame
  <2> QED
    BY <1>1, <1>4, <2>1 DEF HostTypeOK, TypeOK, table, extension
<1> QED
  BY <1>1, <1>4, <1>5, <1>6, PumpsStayMeant, QuietStep DEF table

\* The extension asks for the pump.
LEMMA AskKeeps == ASSUME HostInv, AskPump PROVE HostInv'
<1> USE DEF HostInv
<1>1. StackInv' /\ calls' \in Seq(CallFrame \cup PumpFrame)
  BY PumpKeepsStack
<1>2. /\ calls' = Append(calls, Pump) /\ calls \in Seq(CallFrame \cup PumpFrame)
      /\ Pump \in PumpFrame /\ ~IsCall(Pump) /\ pumping' = TRUE
      /\ UNCHANGED <<table, queueVars, posting, extension, vmSet, pumpError, posted, dropped>>
  BY StackTypes DEF AskPump, Pump, PumpFrame
<1>3. /\ Len(calls') = Len(calls) + 1 /\ Len(calls) \in Nat
      /\ \A j \in 1..Len(calls) : calls'[j] = calls[j]
      /\ calls'[Len(calls) + 1] = Pump
  BY <1>2, AppendProperties, StackTypes
<1>4. TempsStay /\ PumpsStay
  BY <1>2, <1>3 DEF TempsStay, PumpsStay
<1>5. HostTypeOK'
  BY <1>1, <1>2 DEF HostTypeOK, TypeOK, table, queueVars, extension
<1> QED
  BY <1>1, <1>2, <1>4, <1>5, PumpsStayMeant, QuietStep DEF table, queueVars

\* The pump ends: nothing is left, the callback failed, or the next event's
\* callback is gone.
LEMMA PumpEndKeeps ==
  ASSUME HostInv, PumpEnds \/ CallbackFails \/ CallbackGone
  PROVE  HostInv'
<1> USE DEF HostInv
<1>1. PICK error \in BOOLEAN : EndPump(error)
  BY DEF PumpEnds, CallbackFails, CallbackGone
<1>2. /\ calls # <<>> /\ ~IsCall(Top)
      /\ queue' = queue \/ (queue # <<>> /\ queue' = Tail(queue))
      /\ UNCHANGED <<table, lifecycle, posting, extension, vmSet, posted, dropped>>
  BY DEF PumpEnds, CallbackFails, CallbackGone, PumpLoops, queueVars
<1>3. StackInv' /\ calls' \in Seq(CallFrame \cup PumpFrame)
  BY <1>1, <1>2, PumpEndKeepsStack
<1>4. TempsStay /\ PumpsStay
  BY <1>1, <1>2, GoneStays DEF EndPump
<1>5. queue' \in Seq([handle : Handle, meant : Nat])
  BY <1>2, HeadTailProperties DEF HostTypeOK
<1>6. pumpError' \in Nat /\ pumping' \in BOOLEAN
  <2>1. Len(calls) \in Nat \ {0}
    BY <1>2, StackTypes
  <2>2. pumping' \in BOOLEAN
    BY <1>1 DEF EndPump
  <2>3. pumpError' = Len(calls) - 1 \/ pumpError' = pumpError
    BY <1>1, Zenon DEF EndPump
  <2>4. Len(calls) - 1 \in Nat /\ pumpError \in Nat
    BY <2>1 DEF HostTypeOK
  <2> QED
    BY <2>2, <2>3, <2>4
<1>7. HostTypeOK'
  BY <1>2, <1>3, <1>5, <1>6 DEF HostTypeOK, TypeOK, table, extension
<1> QED
  BY <1>2, <1>3, <1>4, <1>7, PumpsStayMeant, QuietStep DEF table

\* The program of a callback is back in the pump.
LEMMA CallbackReturnsKeeps == ASSUME HostInv, CallbackReturns PROVE HostInv'
<1> USE DEF HostInv
<1>1. /\ calls # <<>> /\ ~IsCall(Top) /\ SetTop(Pump)
      /\ UNCHANGED <<table, queueVars, posting, extension, cells, posted, dropped>>
  BY DEF CallbackReturns
<1>2. Pump \in PumpFrame /\ ~IsCall(Pump)
  BY DEF Pump, PumpFrame, IsCall
<1>3. StackInv' /\ calls' \in Seq(CallFrame \cup PumpFrame)
  BY <1>1, <1>2, RunKeepsStack DEF queueVars
<1>4. /\ Len(calls') = Len(calls) /\ Len(calls) \in Nat \ {0}
      /\ calls'[Len(calls)] = Pump
      /\ \A j \in 1..Len(calls) : j # Len(calls) => calls'[j] = calls[j]
  BY <1>1, <1>2, StackTypes, TopReplaced
<1>5. TempsStay /\ PumpsStay
  BY <1>2, <1>4 DEF TempsStay, PumpsStay
<1>6. HostTypeOK'
  BY <1>1, <1>3 DEF HostTypeOK, TypeOK, table, queueVars, extension, cells
<1> QED
  BY <1>1, <1>3, <1>5, <1>6, PumpsStayMeant, QuietStep DEF table, queueVars

\* The pump runs the callback of the next event: by then the handle reaches
\* the callback it was issued for, or none.
LEMMA RunCallbackKeeps == ASSUME HostInv, RunCallback PROVE HostInv'
<1> USE DEF HostInv
<1> DEFINE e == Head(queue)
           f == [Top EXCEPT !.running = EntryOf(e.handle).callback, !.meant = e.meant]
<1>1. /\ calls # <<>> /\ ~IsCall(Top) /\ Top = calls[Len(calls)] /\ SetTop(f)
      /\ queue # <<>> /\ Resolves(e.handle) /\ queue' = Tail(queue)
      /\ UNCHANGED <<table, lifecycle, posting, extension, cells, posted, dropped>>
  BY DEF RunCallback, PumpLoops, Top
<1>2. /\ e = queue[1] /\ 1 \in 1..Len(queue) /\ e \in [handle : Handle, meant : Nat]
      /\ queue' \in Seq([handle : Handle, meant : Nat])
  <2> DEFINE E == [handle : Handle, meant : Nat]
  <2>1. queue \in Seq(E)
    BY DEF HostTypeOK
  <2> HIDE DEF E
  <2>2. Len(queue) \in Nat \ {0}
    BY <1>1, <2>1, EmptySeq, LenProperties
  <2>3. e = queue[1] /\ 1 \in 1..Len(queue) /\ e \in E
    BY <1>1, <2>1, <2>2, HeadTailProperties, ElementOfSeq
  <2>4. queue' \in Seq(E)
    BY <1>1, <2>1, HeadTailProperties
  <2> QED
    BY <2>3, <2>4 DEF E
<1>3. Top \in PumpFrame
  BY <1>1, StackTypes DEF StackInv, Nested
<1>4. EntryOf(e.handle).callback \in Nat
  BY <1>1, TenantTypes
<1>5. /\ f \in PumpFrame /\ ~IsCall(f)
      /\ f.running = EntryOf(e.handle).callback /\ f.meant = e.meant
  BY <1>2, <1>3, <1>4 DEF PumpFrame, IsCall
<1>6. Len(issued) <= MaxGeneration => f.running = f.meant
  <2>1. e.meant \in 1..Len(issued) /\ issued[e.meant] = e.handle
    BY <1>2 DEF Meant
  <2> QED
    BY <1>1, <1>5, <2>1 DEF IInv, NeverAnotherCallback
<1> HIDE DEF f, e
<1>7. StackInv' /\ calls' \in Seq(CallFrame \cup PumpFrame)
  BY <1>1, <1>5, RunKeepsStack
<1>8. /\ Len(calls') = Len(calls) /\ Len(calls) \in Nat \ {0}
      /\ calls'[Len(calls)] = f
      /\ \A j \in 1..Len(calls) : j # Len(calls) => calls'[j] = calls[j]
  BY <1>1, <1>5, StackTypes, TopReplaced
<1>9. TempsStay
  BY <1>5, <1>8 DEF TempsStay
<1>10. RunsWhatWasMeant'
  BY <1>1, <1>6, <1>8 DEF RunsWhatWasMeant, table
<1>11. HostTypeOK'
  BY <1>1, <1>2, <1>7 DEF HostTypeOK, TypeOK, table, extension, cells
<1> QED
  BY <1>1, <1>7, <1>9, <1>10, <1>11, QuietStep DEF table

-----------------------------------------------------------------------------
\* What nobody touches stays as it is held.
LEMMA HeldStays ==
  ASSUME Held, UNCHANGED <<table, extension, calls, dropped>>
  PROVE  Held'
<1>1. /\ slots' = slots /\ issued' = issued /\ disciplined' = disciplined /\ kept' = kept
      /\ calls' = calls /\ dropped' = dropped
  BY DEF table, extension
<1>2. Issued' = Issued /\ CallFrames' = CallFrames
  BY <1>1 DEF Issued, CallFrames
<1>3. \A h : /\ Resolves(h)' <=> Resolves(h)
             /\ EntryOf(h)' = EntryOf(h)
             /\ Places(h)' = Places(h)
  BY <1>1, <1>2 DEF Resolves, Occupied, EntryOf, Places
<1> QED
  BY <1>1, <1>2, <1>3 DEF Held

\* A thread finds a callback alive.
LEMMA CheckKeeps ==
  ASSUME HostInv, NEW t \in Threads, NEW h \in Issued, CheckLive(t, h)
  PROVE  HostInv'
<1> USE DEF HostInv
<1>1. /\ h \in live /\ posting' = [posting EXCEPT ![t] = h]
      /\ UNCHANGED <<table, queueVars, extension, calls, cells, posted, dropped>>
  BY DEF CheckLive
<1>2. IInv' /\ TenantsKnown'
  BY <1>1, TableStays
<1>3. HostTypeOK'
  BY <1>1 DEF HostTypeOK, TypeOK, table, queueVars, extension, cells
<1>4. StackInv'
  BY <1>1 DEF StackInv, Nested, Restores, RunHeld, Drops, queueVars, cells, table
<1>5. Meant'
  BY <1>1 DEF Meant, Issued, table, queueVars, HostTypeOK
<1>6. RunsWhatWasMeant' /\ Bounds'
  BY <1>1 DEF RunsWhatWasMeant, Bounds, CallFrames, table
<1>7. Held'
  BY <1>1, HeldStays
<1> QED
  BY <1>2, <1>3, <1>4, <1>5, <1>6, <1>7

\* A thread posts what it found alive.
LEMMA PostKeeps == ASSUME HostInv, NEW t \in Threads, PostChecked(t) PROVE HostInv'
<1> USE DEF HostInv
<1> DEFINE id == CHOOSE n \in 1..Len(issued) : issued[n] = posting[t]
           e == [handle |-> posting[t], meant |-> id]
<1>1. /\ posting[t] # NoHandle /\ posting' = [posting EXCEPT ![t] = NoHandle]
      /\ UNCHANGED <<table, lifecycle, extension, calls, cells, dropped>>
      /\ \/ queue' = Append(queue, e) /\ posted' = posted + 1 /\ lifecycle # "Closed"
         \/ UNCHANGED <<queue, posted>>
  BY DEF PostChecked
<1>2. posting[t] \in Handle /\ posting[t] \in Issued
  BY <1>1 DEF Meant, HostTypeOK
<1>3. id \in 1..Len(issued) /\ issued[id] = posting[t] /\ Len(issued) \in Nat
  BY <1>2, SlotTypes DEF Issued, IInv
<1>4. e \in [handle : Handle, meant : Nat] /\ e.handle = posting[t] /\ e.meant = id
  BY <1>2, <1>3
<1> HIDE DEF e, id
<1>5. queue \in Seq([handle : Handle, meant : Nat]) /\ Len(queue) \in Nat
  BY LenProperties DEF HostTypeOK
<1>6. IInv' /\ TenantsKnown'
  BY <1>1, TableStays
<1>7. queue' \in Seq([handle : Handle, meant : Nat]) /\ posted' \in Nat
  <2> DEFINE E == [handle : Handle, meant : Nat]
  <2>1. queue \in Seq(E) /\ e \in E
    BY <1>4, <1>5
  <2> HIDE DEF E
  <2>2. queue' \in Seq(E)
    BY <1>1, <2>1, AppendProperties
  <2> QED
    BY <1>1, <2>2 DEF E, HostTypeOK
<1>8. HostTypeOK'
  BY <1>1, <1>7 DEF HostTypeOK, TypeOK, table, extension, cells
<1>9. StackInv'
  BY <1>1 DEF StackInv, Nested, Restores, RunHeld, Drops, cells, table
<1>10. Meant'
  <2>1. \A s \in Threads : posting'[s] # NoHandle => posting'[s] \in Issued'
    BY <1>1 DEF Meant, HostTypeOK, Issued, table
  <2>2. \A j \in 1..Len(queue') :
          queue'[j].meant \in 1..Len(issued) /\ issued[queue'[j].meant] = queue'[j].handle
    <3>1. CASE queue' = Append(queue, e)
      <4>1. /\ Len(queue') = Len(queue) + 1 /\ queue'[Len(queue) + 1] = e
            /\ \A j \in 1..Len(queue) : queue'[j] = queue[j]
        BY <1>4, <1>5, <3>1, AppendProperties
      <4> QED
        BY <1>3, <1>4, <1>5, <4>1 DEF Meant
    <3>2. CASE queue' = queue
      BY <3>2 DEF Meant
    <3> QED
      BY <1>1, <3>1, <3>2
  <2> QED
    BY <1>1, <2>1, <2>2 DEF Meant, table
<1>11. RunsWhatWasMeant' /\ Bounds'
  BY <1>1 DEF RunsWhatWasMeant, Bounds, CallFrames, table
<1>12. Held'
  BY <1>1, HeldStays
<1> QED
  BY <1>6, <1>8, <1>9, <1>10, <1>11, <1>12

-----------------------------------------------------------------------------
(***************************************************************************)
(* The steps that change the table.                                        *)
(***************************************************************************)
\* The types of the state, from those of what a step of a call changes.
LEMMA TypesAfter ==
  ASSUME HostTypeOK, IInv', calls' \in Seq(CallFrame \cup PumpFrame),
         kept' \in [1..MaxCreates -> Nat],
         UNCHANGED <<queueVars, posting, disciplined, cells, posted, dropped>>
  PROVE  HostTypeOK'
  BY DEF HostTypeOK, IInv, queueVars, cells

\* What threads and pumps have to do outlives every create and release, since
\* handles stay issued.
LEMMA MeantStays ==
  ASSUME Meant, Len(issued) \in Nat, Len(issued') \in Nat, Len(issued) <= Len(issued'),
         \A n \in 1..Len(issued) : issued'[n] = issued[n],
         UNCHANGED <<queue, posting>>
  PROVE  Meant'
<1>1. \A n \in 1..Len(issued) : n \in 1..Len(issued') /\ issued'[n] = issued[n]
  OBVIOUS
<1>2. \A x \in Issued : x \in Issued'
  BY <1>1 DEF Issued
<1> QED
  BY <1>1, <1>2 DEF Meant

\* And a program that runs is the one that was meant.
LEMMA RunsStay ==
  ASSUME RunsWhatWasMeant, PumpsStay, Len(issued) \in Nat, Len(issued') \in Nat,
         Len(issued) <= Len(issued')
  PROVE  RunsWhatWasMeant'
<1>1. Pump.running = Pump.meant
  BY DEF Pump
<1>2. Len(issued') <= MaxGeneration => Len(issued) <= MaxGeneration
  BY GenerationAssumption
<1> QED
  BY <1>1, <1>2 DEF RunsWhatWasMeant, PumpsStay

\* Handles are equal in both words.
LEMMA HandlesEqual ==
  ASSUME NEW h \in Handle, NEW k \in Handle, h.slot = k.slot, h.gen = k.gen
  PROVE  h = k
  BY DEF Handle

\* One more temporary callback has one more place.
LEMMA PlacesAfterPass ==
  ASSUME HostTypeOK, calls # <<>>, IsCall(Top), Top \in CallFrame, NEW h \in Handle,
         SetTop([Top EXCEPT !.temps = Append(Top.temps, h)])
  PROVE  /\ \A k : k # h => Places(k)' \subseteq Places(k)
         /\ Places(h)' \subseteq Places(h) \cup {<<Len(calls), Len(Top.temps) + 1>>}
         /\ \A n \in CallFrames' : n \in CallFrames /\ \A i \in 1..Len(calls'[n].temps) :
              \/ i \in 1..Len(calls[n].temps) /\ calls'[n].temps[i] = calls[n].temps[i]
              \/ n = Len(calls) /\ i = Len(Top.temps) + 1 /\ calls'[n].temps[i] = h
         /\ PumpsStay
<1> DEFINE t == Append(Top.temps, h)
           f == [Top EXCEPT !.temps = t]
<1>1. /\ t \in Seq(Handle) /\ Len(t) = Len(Top.temps) + 1 /\ Len(Top.temps) \in Nat
      /\ t[Len(Top.temps) + 1] = h
      /\ \A i \in 1..Len(Top.temps) : t[i] = Top.temps[i]
  BY AppendProperties, LenProperties DEF CallFrame
<1> HIDE DEF t
<1>2. f \in CallFrame /\ f.temps = t /\ SetTop(f) /\ IsCall(f)
  BY <1>1 DEF CallFrame, IsCall, t
<1> HIDE DEF f
<1>3. /\ Len(calls') = Len(calls) /\ Len(calls) \in Nat \ {0}
      /\ calls'[Len(calls)] = f /\ Top = calls[Len(calls)]
      /\ \A j \in 1..Len(calls) : j # Len(calls) => calls'[j] = calls[j]
  BY <1>2, StackTypes, TopReplaced DEF Top
<1>4. CallFrames' = CallFrames
  BY <1>2, <1>3 DEF CallFrames
<1>5. \A n \in CallFrames : \A i \in 1..Len(calls'[n].temps) :
        \/ i \in 1..Len(calls[n].temps) /\ calls'[n].temps[i] = calls[n].temps[i]
        \/ n = Len(calls) /\ i = Len(Top.temps) + 1 /\ calls'[n].temps[i] = h
  BY <1>1, <1>2, <1>3 DEF CallFrames
<1>6. \A n \in CallFrames : Len(calls'[n].temps) \in Nat /\ Len(calls[n].temps) \in Nat
  <2>1. \A n \in CallFrames : calls[n] \in CallFrame
    BY StackTypes, ElementOfSeq DEF CallFrames
  <2>2. \A n \in CallFrames : Len(calls[n].temps) \in Nat
    BY <2>1, LenProperties DEF CallFrame
  <2> QED
    BY <1>1, <1>2, <1>3, <2>2 DEF CallFrames
<1>7. \A k : \A p \in Places(k)' :
        p \in Places(k) \/ (k = h /\ p = <<Len(calls), Len(Top.temps) + 1>>)
  <2> SUFFICES ASSUME NEW k, NEW p \in Places(k)'
               PROVE  p \in Places(k) \/ (k = h /\ p = <<Len(calls), Len(Top.temps) + 1>>)
    OBVIOUS
  <2>1. /\ p \in CallFrames \X (1..MaxTemps) /\ p = <<p[1], p[2]>>
        /\ p[1] \in CallFrames /\ p[2] \in 1..MaxTemps
        /\ p[2] <= Len(calls'[p[1]].temps) /\ calls'[p[1]].temps[p[2]] = k
    BY <1>4 DEF Places
  <2>2. p[2] \in 1..Len(calls'[p[1]].temps)
    BY <1>6, <2>1, HostAssumption
  <2>3. CASE p[2] \in 1..Len(calls[p[1]].temps) /\ calls'[p[1]].temps[p[2]] = calls[p[1]].temps[p[2]]
    BY <1>6, <2>1, <2>3, HostAssumption DEF Places
  <2>4. CASE p[1] = Len(calls) /\ p[2] = Len(Top.temps) + 1 /\ calls'[p[1]].temps[p[2]] = h
    BY <2>1, <2>4
  <2> QED
    BY <1>5, <2>1, <2>2, <2>3, <2>4
<1>8. PumpsStay
  BY <1>2, <1>3 DEF PumpsStay
<1> QED
  BY <1>4, <1>5, <1>7, <1>8

\* One temporary callback less: the others move one place down.
LEMMA PlacesAfterTail ==
  ASSUME HostTypeOK, Bounds, calls # <<>>, IsCall(Top), Top \in CallFrame, Top.temps # <<>>,
         SetTop([Top EXCEPT !.temps = Tail(Top.temps)])
  PROVE  /\ \A k : /\ Cardinality(Places(k)') \in Nat
                   /\ Cardinality(Places(k)') <= Cardinality(Places(k))
                   /\ k = Head(Top.temps) => Cardinality(Places(k)') <= Cardinality(Places(k)) - 1
         /\ \A n \in CallFrames' : n \in CallFrames /\ \A i \in 1..Len(calls'[n].temps) :
              \E j \in 1..Len(calls[n].temps) : calls'[n].temps[i] = calls[n].temps[j]
         /\ \A n \in CallFrames' : Len(calls'[n].temps) <= MaxTemps
         /\ PumpsStay
<1> DEFINE t == Tail(Top.temps)
           f == [Top EXCEPT !.temps = t]
           last == Len(calls)
<1>1. /\ t \in Seq(Handle) /\ Len(t) = Len(Top.temps) - 1 /\ Len(Top.temps) \in Nat \ {0}
      /\ \A i \in 1..Len(t) : t[i] = Top.temps[i + 1]
      /\ Head(Top.temps) = Top.temps[1]
  <2>1. Top.temps \in Seq(Handle)
    BY DEF CallFrame
  <2>2. Len(Top.temps) \in Nat \ {0}
    BY <2>1, EmptySeq, LenProperties
  <2> QED
    BY <2>1, <2>2, HeadTailProperties
<1> HIDE DEF t
<1>2. f \in CallFrame /\ f.temps = t /\ SetTop(f) /\ IsCall(f)
  BY <1>1 DEF CallFrame, IsCall, t
<1> HIDE DEF f
<1>3. /\ Len(calls') = last /\ last \in Nat \ {0}
      /\ calls'[last] = f /\ Top = calls[last]
      /\ \A j \in 1..last : j # last => calls'[j] = calls[j]
  BY <1>2, StackTypes, TopReplaced DEF Top
<1>4. CallFrames' = CallFrames /\ last \in CallFrames
  BY <1>2, <1>3 DEF CallFrames
<1>5. \A n \in CallFrames : Len(calls[n].temps) \in Nat /\ Len(calls[n].temps) <= MaxTemps
  <2>1. \A n \in CallFrames : calls[n] \in CallFrame
    BY StackTypes, ElementOfSeq DEF CallFrames
  <2> QED
    BY <2>1, LenProperties DEF CallFrame, Bounds
<1>6. \A n \in CallFrames : n # last => calls'[n] = calls[n]
  BY <1>3 DEF CallFrames
<1>7. \A n \in CallFrames : Len(calls'[n].temps) <= MaxTemps
  <2>1. Len(calls'[last].temps) <= MaxTemps
    BY <1>1, <1>2, <1>3, <1>4, <1>5, HostAssumption
  <2> QED
    BY <1>5, <1>6, <2>1
<1>8. \A n \in CallFrames : \A i \in 1..Len(calls'[n].temps) :
        \E j \in 1..Len(calls[n].temps) : calls'[n].temps[i] = calls[n].temps[j]
  <2> SUFFICES ASSUME NEW n \in CallFrames, NEW i \in 1..Len(calls'[n].temps)
               PROVE  \E j \in 1..Len(calls[n].temps) : calls'[n].temps[i] = calls[n].temps[j]
    OBVIOUS
  <2>1. CASE n = last
    <3>1. i \in 1..Len(t) /\ calls'[n].temps[i] = Top.temps[i + 1]
      BY <1>1, <1>2, <1>3, <2>1
    <3>2. i + 1 \in 1..Len(Top.temps)
      BY <1>1, <3>1
    <3> QED
      BY <1>3, <2>1, <3>1, <3>2
  <2>2. CASE n # last
    BY <1>6, <2>2
  <2> QED
    BY <2>1, <2>2
<1>9. ASSUME NEW k
      PROVE  /\ Cardinality(Places(k)') \in Nat
             /\ Cardinality(Places(k)') <= Cardinality(Places(k) \ {<<last, 1>>})
  <2> DEFINE S == Places(k)'
             T == Places(k) \ {<<last, 1>>}
             up == [p \in S |-> IF p[1] = last THEN <<p[1], p[2] + 1>> ELSE p]
  <2>1. ASSUME NEW p \in S
        PROVE  /\ p = <<p[1], p[2]>> /\ p[1] \in CallFrames /\ p[2] \in 1..MaxTemps
               /\ p[2] <= Len(calls'[p[1]].temps) /\ calls'[p[1]].temps[p[2]] = k
    BY <1>4 DEF Places
  <2>2. ASSUME NEW p \in S PROVE up[p] \in T
    <3>1. CASE p[1] = last
      <4>1. p[2] \in 1..Len(t) /\ t[p[2]] = k
        BY <1>1, <1>2, <1>3, <2>1, <3>1, HostAssumption
      <4>2. /\ p[2] + 1 \in 1..Len(Top.temps) /\ Top.temps[p[2] + 1] = k
            /\ p[2] + 1 # 1
        BY <1>1, <4>1
      <4>3. p[2] + 1 \in 1..MaxTemps /\ p[2] + 1 <= Len(calls[last].temps)
        BY <1>3, <1>4, <1>5, <4>2, HostAssumption
      <4>4. <<last, p[2] + 1>> \in Places(k)
        BY <1>3, <1>4, <4>2, <4>3 DEF Places
      <4>5. <<last, p[2] + 1>> # <<last, 1>>
        BY <4>2
      <4> QED
        BY <3>1, <4>4, <4>5
    <3>2. CASE p[1] # last
      <4>1. calls'[p[1]] = calls[p[1]]
        BY <1>6, <2>1, <3>2
      <4>2. p \in Places(k)
        BY <2>1, <4>1 DEF Places
      <4>3. p # <<last, 1>>
        BY <2>1, <3>2
      <4> QED
        BY <3>2, <4>2, <4>3
    <3> QED
      BY <3>1, <3>2
  <2>3. ASSUME NEW p \in S, NEW q \in S, up[p] = up[q] PROVE p = q
    <3>1. /\ up[p][1] = p[1] /\ up[q][1] = q[1]
          /\ up[p][2] = IF p[1] = last THEN p[2] + 1 ELSE p[2]
          /\ up[q][2] = IF q[1] = last THEN q[2] + 1 ELSE q[2]
      BY <2>1
    <3>2. p[2] \in Int /\ q[2] \in Int
      BY <2>1, HostAssumption
    <3>3. p[1] = q[1] /\ p[2] = q[2]
      BY <2>3, <3>1, <3>2
    <3> QED
      BY <2>1, <3>3
  <2> HIDE DEF S, T
  <2>4. up \in [S -> T]
    BY <2>2
  <2> HIDE DEF up
  <2>5. up \in Injection(S, T)
    BY <2>3, <2>4 DEF Injection, IsInjective
  <2>6. IsFiniteSet(T)
    BY PlacesFinite, FS_RemoveElement DEF T
  <2>7. IsFiniteSet(S) /\ Cardinality(S) <= Cardinality(T)
    BY <2>5, <2>6, FS_Injection
  <2> QED
    BY <2>7, FS_CardinalityType DEF S, T
<1>10. <<last, 1>> \in Places(Head(Top.temps))
  <2>1. 1 \in 1..Len(calls[last].temps) /\ calls[last].temps[1] = Head(Top.temps)
    BY <1>1, <1>3
  <2> QED
    BY <1>4, <2>1, TempHasPlace
<1>11. ASSUME NEW k
       PROVE  /\ Cardinality(Places(k)') \in Nat
              /\ Cardinality(Places(k)') <= Cardinality(Places(k))
              /\ k = Head(Top.temps) => Cardinality(Places(k)') <= Cardinality(Places(k)) - 1
  <2>1. /\ Cardinality(Places(k)) \in Nat
        /\ Cardinality(Places(k) \ {<<last, 1>>}) =
             IF <<last, 1>> \in Places(k) THEN Cardinality(Places(k)) - 1 ELSE Cardinality(Places(k))
    BY PlacesFinite, FS_RemoveElement
  <2>2. Cardinality(Places(k)') \in Nat /\ Cardinality(Places(k)') <= Cardinality(Places(k) \ {<<last, 1>>})
    BY <1>9
  <2> QED
    BY <1>10, <2>1, <2>2
<1>12. PumpsStay
  BY <1>2, <1>3 DEF PumpsStay
<1> QED
  BY <1>4, <1>7, <1>8, <1>11, <1>12

\* A callable among the arguments is registered and noted.
LEMMA PassKeeps == ASSUME HostInv, PassCallable PROVE HostInv'
<1> USE DEF HostInv
<1>1. /\ calls # <<>> /\ IsCall(Top) /\ Top.phase = "arguments" /\ Len(Top.temps) < MaxTemps
      /\ Create /\ Len(issued) < MaxCreates /\ closed' = closed
      /\ SetTop([Top EXCEPT !.temps = Append(Top.temps, issued'[Len(issued')])])
      /\ UNCHANGED <<queueVars, posting, extension, cells, posted, dropped>>
  BY DEF PassCallable, InPhase, Create
<1>2. Top \in CallFrame
  BY <1>1, StackTypes DEF StackInv, Nested, Top
<1>3. PICK h \in Handle : Registered(h)
  BY <1>1, CreateRegisters
<1>4. /\ Len(issued) \in Nat /\ Len(issued') = Len(issued) + 1
      /\ issued'[Len(issued')] = h
      /\ \A n \in 1..Len(issued) : issued'[n] = issued[n]
  BY <1>3, SlotTypes DEF Registered, IInv
<1>5. SetTop([Top EXCEPT !.temps = Append(Top.temps, h)])
  BY <1>1, <1>4
<1>6. Append(Top.temps, h) \in Seq(Handle)
  BY <1>2, AppendProperties DEF CallFrame
<1>7. StackInv' /\ calls' \in Seq(CallFrame \cup PumpFrame)
  BY <1>1, <1>5, <1>6, TempsKeepStack DEF queueVars
<1>8. IInv' /\ TenantsKnown'
  BY <1>1, <1>3, CreateKeeps, RegisteredKeepsTenants
<1>9. HostTypeOK'
  BY <1>1, <1>7, <1>8, TypesAfter DEF extension, HostTypeOK
<1>10. /\ \A k : k # h => Places(k)' \subseteq Places(k)
       /\ Places(h)' \subseteq Places(h) \cup {<<Len(calls), Len(Top.temps) + 1>>}
       /\ \A n \in CallFrames' : n \in CallFrames /\ \A i \in 1..Len(calls'[n].temps) :
            \/ i \in 1..Len(calls[n].temps) /\ calls'[n].temps[i] = calls[n].temps[i]
            \/ n = Len(calls) /\ i = Len(Top.temps) + 1 /\ calls'[n].temps[i] = h
       /\ PumpsStay
  BY <1>1, <1>2, <1>5, PlacesAfterPass
<1>11. Meant' /\ RunsWhatWasMeant'
  BY <1>1, <1>4, <1>10, MeantStays, RunsStay DEF queueVars
<1>12. Bounds'
  <2>1. \A n \in CallFrames : calls[n] \in CallFrame
    BY StackTypes, ElementOfSeq DEF CallFrames
  <2>2. \A n \in CallFrames' : Len(calls'[n].temps) <= MaxTemps
    <3> SUFFICES ASSUME NEW n \in CallFrames' PROVE Len(calls'[n].temps) <= MaxTemps
      OBVIOUS
    <3>1. calls'[n] \in CallFrame /\ n \in CallFrames
      <4>1. calls'[n] \in CallFrame \cup PumpFrame /\ IsCall(calls'[n])
        BY <1>7, ElementOfSeq DEF CallFrames
      <4> QED
        BY <1>10, <4>1, StackTypes
    <3>2. Len(calls'[n].temps) \in Nat /\ Len(calls[n].temps) \in Nat
      BY <2>1, <3>1, LenProperties DEF CallFrame
    <3>3. Len(calls[n].temps) <= MaxTemps /\ Len(Top.temps) + 1 <= MaxTemps
      <4>1. Len(Top.temps) \in Nat
        BY <1>2, LenProperties DEF CallFrame
      <4> QED
        BY <1>1, <3>1, <4>1, HostAssumption DEF Bounds
    <3>4. CASE Len(calls'[n].temps) = 0
      BY <3>4, HostAssumption
    <3>5. CASE Len(calls'[n].temps) # 0
      <4>1. Len(calls'[n].temps) \in 1..Len(calls'[n].temps)
        BY <3>2, <3>5
      <4>2. Len(calls'[n].temps) \in 1..Len(calls[n].temps) \/ Len(calls'[n].temps) = Len(Top.temps) + 1
        BY <1>10, <4>1
      <4> QED
        BY <3>2, <3>3, <4>2, HostAssumption
    <3> QED
      BY <3>4, <3>5
  <2> QED
    BY <1>1, <1>4, <2>2, LimitsAssumption DEF Bounds
<1>13. Held'
  <2> SUFFICES ASSUME disciplined', ~dropped'
               PROVE  /\ \A n \in CallFrames' : \A k \in 1..Len(calls'[n].temps) :
                           Resolves(calls[n].temps[k])'
                      /\ \A id \in 1..MaxCreates : kept'[id] > 0 =>
                           /\ id <= Len(issued')
                           /\ Resolves(issued[id])' /\ EntryOf(issued[id])'.callback = id
                      /\ \A k \in Issued' : Resolves(k)' =>
                           Cardinality(Places(k)') + kept'[EntryOf(k)'.callback] <= EntryOf(k)'.refs
    BY DEF Held
  <2>1. disciplined /\ ~dropped /\ kept' = kept
    BY <1>1 DEF extension
  <2>2. ASSUME NEW k, Resolves(k)
        PROVE  k.slot # h.slot /\ Resolves(k)' /\ EntryOf(k)' = EntryOf(k)
    BY <1>3, <2>2 DEF Registered, Resolves, Occupied, EntryOf
  <2>3. Resolves(h)'
    BY <1>3 DEF Registered, Resolves, Occupied, Empty
  <2>4. \A n \in CallFrames' : \A k \in 1..Len(calls'[n].temps) : Resolves(calls[n].temps[k])'
    <3> SUFFICES ASSUME NEW n \in CallFrames', NEW k \in 1..Len(calls'[n].temps)
                 PROVE  Resolves(calls[n].temps[k])'
      OBVIOUS
    <3>1. CASE k \in 1..Len(calls[n].temps) /\ calls'[n].temps[k] = calls[n].temps[k]
      <4>1. Resolves(calls[n].temps[k])
        BY <1>10, <2>1, <3>1 DEF Held
      <4>2. \A x : Resolves(x) => Resolves(x)'
        BY <2>2
      <4> QED
        BY <3>1, <4>1, <4>2 DEF Resolves, Occupied
    <3>2. CASE calls'[n].temps[k] = h
      BY <2>3, <3>2 DEF Resolves, Occupied
    <3> QED
      BY <1>10, <3>1, <3>2
  <2>5. ASSUME NEW id \in 1..MaxCreates, kept'[id] > 0
        PROVE  /\ id <= Len(issued')
               /\ Resolves(issued[id])' /\ EntryOf(issued[id])'.callback = id
    <3>1. id <= Len(issued) /\ Resolves(issued[id]) /\ EntryOf(issued[id]).callback = id
      BY <2>1, <2>5 DEF Held
    <3>2. id <= Len(issued') /\ issued'[id] = issued[id]
      BY <1>4, <3>1, LimitsAssumption
    <3> QED
      BY <1>3, <3>1, <3>2 DEF Registered, Resolves, Occupied, EntryOf
  <2>6. ASSUME NEW k \in Issued', Resolves(k)'
        PROVE  Cardinality(Places(k)') + kept'[EntryOf(k)'.callback] <= EntryOf(k)'.refs
    <3>1. k \in Handle
      BY <1>3, SlotTypes, ElementOfSeq DEF Issued, Registered
    <3>2. CASE k.slot = h.slot
      <4>1. k = h
        <5>1. k.gen = h.gen
          BY <1>3, <2>6, <3>2 DEF Registered, Resolves
        <5> QED
          BY <3>1, <3>2, <5>1, HandlesEqual
      <4>2. Places(h) = {}
        <5> SUFFICES ASSUME NEW p \in Places(h) PROVE FALSE
          OBVIOUS
        <5>1. p[1] \in CallFrames /\ p[2] \in 1..Len(calls[p[1]].temps) /\ calls[p[1]].temps[p[2]] = h
          <6>1. /\ p[1] \in CallFrames /\ p[2] \in 1..MaxTemps
                /\ p[2] <= Len(calls[p[1]].temps) /\ calls[p[1]].temps[p[2]] = h
            BY DEF Places
          <6>2. calls[p[1]] \in CallFrame
            BY <6>1, StackTypes, ElementOfSeq DEF CallFrames
          <6>3. Len(calls[p[1]].temps) \in Nat
            BY <6>2, LenProperties DEF CallFrame
          <6> QED
            BY <6>1, <6>3, HostAssumption
        <5>2. Resolves(h)
          BY <2>1, <5>1 DEF Held
        <5> QED
          BY <2>2, <5>2
      <4>3. Places(h)' \subseteq {<<Len(calls), Len(Top.temps) + 1>>}
        BY <1>10, <4>2
      <4>4. Cardinality(Places(h)') \in Nat /\ Cardinality(Places(h)') <= 1
        <5> DEFINE x == <<Len(calls), Len(Top.temps) + 1>>
                   P == Places(h)'
        <5>1. P \in SUBSET {x}
          BY <4>3
        <5> HIDE DEF x, P
        <5>2. IsFiniteSet({x}) /\ Cardinality({x}) = 1
          BY FS_Singleton
        <5>3. IsFiniteSet(P) /\ Cardinality(P) <= 1
          BY <5>1, <5>2, FS_Subset
        <5>4. Cardinality(P) \in Nat
          BY <5>3, FS_CardinalityType
        <5> QED
          BY <5>3, <5>4 DEF P
      <4>5. EntryOf(h)'.refs = 1 /\ EntryOf(h)'.callback = Len(issued) + 1
        BY <1>3 DEF Registered, EntryOf
      <4>6. kept'[Len(issued) + 1] = 0
        <5>1. Len(issued) + 1 \in 1..MaxCreates /\ ~(Len(issued) + 1 <= Len(issued))
          BY <1>1, <1>4, LimitsAssumption
        <5>2. kept[Len(issued) + 1] \in Nat /\ ~(kept[Len(issued) + 1] > 0)
          BY <2>1, <5>1 DEF Held, HostTypeOK
        <5> QED
          BY <2>1, <5>2
      <4> QED
        BY <4>1, <4>4, <4>5, <4>6
    <3>3. CASE k.slot # h.slot
      <4>1. Resolves(k) /\ EntryOf(k)' = EntryOf(k)
        BY <1>3, <2>6, <3>3 DEF Registered, Resolves, Occupied, EntryOf
      <4>2. k \in Issued
        BY <1>4, <3>3 DEF Issued
      <4>3. Cardinality(Places(k)) + kept[EntryOf(k).callback] <= EntryOf(k).refs
        BY <2>1, <4>1, <4>2 DEF Held
      <4>4. /\ Cardinality(Places(k)') <= Cardinality(Places(k)) /\ Cardinality(Places(k)') \in Nat
            /\ Cardinality(Places(k)) \in Nat
        BY <1>10, <3>3, FewerPlaces, PlacesFinite
      <4>5. kept[EntryOf(k).callback] \in Nat /\ EntryOf(k).refs \in Nat
        BY <4>1, TenantTypes
      <4> QED
        BY <2>1, <4>1, <4>3, <4>4, <4>5
    <3> QED
      BY <3>2, <3>3
  <2> QED
    BY <2>4, <2>5, <2>6
<1> QED
  BY <1>7, <1>8, <1>9, <1>11, <1>12, <1>13

\* An extension that retains holds one reference more.
LEMMA RetainsKeeps == ASSUME HostInv, NEW h \in Issued, ExtensionRetains(h) PROVE HostInv'
<1> USE DEF HostInv
<1> DEFINE i == h.slot
           id == EntryOf(h).callback
<1>1. /\ calls # <<>> /\ Retain(h) /\ Resolves(h) /\ kept' = [kept EXCEPT ![id] = kept[id] + 1]
      /\ UNCHANGED <<queueVars, posting, disciplined, calls, cells, posted, dropped>>
      /\ UNCHANGED <<live, closed, issued>>
  BY DEF ExtensionRetains, InPhase, Retain
<1>2. h \in Handle /\ Len(issued) \in Nat
  BY SlotTypes DEF Issued, IInv
<1>3. /\ i \in 1..Len(slots) /\ Occupied(i) /\ slots[i].gen = h.gen
      /\ Changed(i, [EntryOf(h) EXCEPT !.refs = EntryOf(h).refs + 1])
  BY <1>1, <1>2, RetainChanges
<1>4. /\ EntryOf(h).refs \in Nat \ {0} /\ id \in 1..MaxCreates /\ id \in 1..Len(issued)
      /\ kept[id] \in Nat /\ id \in Nat \ {0} /\ EntryOf(h) \in Entry /\ EntryOf(h) # Empty
  BY <1>1, TenantTypes DEF Resolves, Occupied, EntryOf
<1>5. kept' \in [1..MaxCreates -> Nat] /\ kept'[id] = kept[id] + 1
  BY <1>1, <1>4 DEF HostTypeOK
<1>6. /\ slots'[i].entry.refs = EntryOf(h).refs + 1 /\ slots'[i].entry.callback = id
      /\ slots'[i].entry # Empty
  BY <1>3, <1>4 DEF Changed, Entry, Empty
<1>7. \A k : /\ Resolves(k)' <=> Resolves(k)
             /\ Resolves(k) => EntryOf(k)'.callback = EntryOf(k).callback
             /\ Resolves(k) /\ k.slot # i => EntryOf(k)' = EntryOf(k)
  BY <1>3, <1>6 DEF Changed, Resolves, Occupied, EntryOf
<1>8. IInv' /\ TenantsKnown'
  <2>1. [EntryOf(h) EXCEPT !.refs = EntryOf(h).refs + 1].callback = slots[i].entry.callback
    BY <1>4 DEF Entry, Empty, EntryOf
  <2> QED
    BY <1>1, <1>2, <1>3, <2>1, RetainKeeps, ChangedKeepsTenants
<1>9. HostTypeOK'
  BY <1>1, <1>5, <1>8, TypesAfter, StackTypes
<1>10. StackInv'
  BY <1>1 DEF StackInv, Nested, Restores, RunHeld, Drops, queueVars, cells
<1>11. Meant' /\ RunsWhatWasMeant' /\ Bounds'
  BY <1>1 DEF Meant, RunsWhatWasMeant, Bounds, Issued, CallFrames, queueVars
<1>12. Held'
  <2>1. Issued' = Issued /\ CallFrames' = CallFrames /\ \A k : Places(k)' = Places(k)
    BY <1>1 DEF Issued, CallFrames, Places
  <2> SUFFICES ASSUME disciplined, ~dropped
               PROVE  /\ \A n \in CallFrames : \A k \in 1..Len(calls[n].temps) :
                           Resolves(calls[n].temps[k])
                      /\ \A x \in 1..MaxCreates : kept'[x] > 0 =>
                           /\ x <= Len(issued)
                           /\ Resolves(issued[x]) /\ EntryOf(issued[x]).callback = x
                      /\ \A k \in Issued : Resolves(k) =>
                           Cardinality(Places(k)) + kept'[EntryOf(k).callback] <= EntryOf(k)'.refs
    BY <1>1, <1>7, <2>1 DEF Held
  <2>2. \A x \in 1..MaxCreates : kept'[x] > 0 =>
          /\ x <= Len(issued)
          /\ Resolves(issued[x]) /\ EntryOf(issued[x]).callback = x
    <3>1. issued[id] = [slot |-> i, gen |-> slots[i].gen]
      BY <1>3 DEF TenantsKnown, EntryOf
    <3>2. issued[id] = h
      BY <1>2, <1>3, <3>1 DEF Handle
    <3>3. id <= Len(issued) /\ Resolves(issued[id]) /\ EntryOf(issued[id]).callback = id
      BY <1>1, <1>2, <1>4, <3>2
    <3>4. \A x \in 1..MaxCreates : x # id => kept'[x] = kept[x]
      BY <1>1 DEF HostTypeOK
    <3> QED
      BY <3>3, <3>4 DEF Held
  <2>3. ASSUME NEW k \in Issued, Resolves(k)
        PROVE  Cardinality(Places(k)) + kept'[EntryOf(k).callback] <= EntryOf(k)'.refs
    <3>1. Cardinality(Places(k)) + kept[EntryOf(k).callback] <= EntryOf(k).refs
      BY <2>3 DEF Held
    <3>2. /\ kept[EntryOf(k).callback] \in Nat /\ EntryOf(k).refs \in Nat
          /\ EntryOf(k).callback \in 1..MaxCreates /\ Cardinality(Places(k)) \in Nat
      BY <2>3, TenantTypes, PlacesFinite
    <3>3. CASE k.slot = i
      <4>1. EntryOf(k) = EntryOf(h) /\ EntryOf(k)'.refs = EntryOf(h).refs + 1
        BY <1>6, <3>3 DEF EntryOf
      <4> QED
        BY <1>4, <1>5, <3>1, <3>2, <4>1
    <3>4. CASE k.slot # i
      <4>1. EntryOf(k).callback # id
        BY <1>3, <2>3, <3>4, TenantsDiffer DEF Resolves, EntryOf
      <4>2. kept'[EntryOf(k).callback] = kept[EntryOf(k).callback]
        BY <1>1, <3>2, <4>1 DEF HostTypeOK
      <4> QED
        BY <1>7, <2>3, <3>1, <3>4, <4>2
    <3> QED
      BY <3>3, <3>4
  <2> QED
    BY <2>2, <2>3 DEF Held
<1> QED
  BY <1>8, <1>9, <1>10, <1>11, <1>12

\* A handle that resolves is the one its callback was issued under.
LEMMA ResolvedIsIssued ==
  ASSUME HostInv, NEW h \in Handle, Resolves(h)
  PROVE  issued[EntryOf(h).callback] = h /\ h \in Issued
<1> USE DEF HostInv
<1>1. EntryOf(h).callback \in 1..Len(issued)
  BY TenantTypes
<1>2. issued[EntryOf(h).callback] = [slot |-> h.slot, gen |-> slots[h.slot].gen]
  BY DEF TenantsKnown, Resolves, EntryOf
<1>3. [slot |-> h.slot, gen |-> slots[h.slot].gen] = h
  BY DEF Handle, Resolves
<1> QED
  BY <1>1, <1>2, <1>3 DEF Issued

\* What holds of a release, by a native call or by the extension: whoever gives
\* a reference back has held it, so the others still have theirs.
LEMMA ReleaseKeepsHeld ==
  ASSUME HostInv, disciplined, ~dropped, NEW h \in Handle, Release(h),
         HostTypeOK', Bounds', \A k : Cardinality(Places(k)') \in Nat,
         \A k : Cardinality(Places(k)') <= Cardinality(Places(k)),
         \A n \in CallFrames' : n \in CallFrames /\ \A m \in 1..Len(calls'[n].temps) :
           \E j \in 1..Len(calls[n].temps) : calls'[n].temps[m] = calls[n].temps[j],
         \A x \in 1..MaxCreates : x # EntryOf(h).callback => kept'[x] = kept[x],
         kept'[EntryOf(h).callback] <= kept[EntryOf(h).callback],
         Cardinality(Places(h)') + kept'[EntryOf(h).callback]
           <= Cardinality(Places(h)) + kept[EntryOf(h).callback] - 1
  PROVE  Held'
<1> USE DEF HostInv
<1> DEFINE i == h.slot
           id == EntryOf(h).callback
           refs == EntryOf(h).refs
<1>1. /\ i \in 1..Len(slots) /\ Occupied(i) /\ slots[i].gen = h.gen /\ Resolves(h)
      /\ \/ refs > 1 /\ Changed(i, [EntryOf(h) EXCEPT !.refs = refs - 1])
         \/ refs = 1 /\ Changed(i, Empty)
  BY ReleaseChanges DEF Release
<1>2. /\ refs \in Nat \ {0} /\ id \in 1..MaxCreates /\ id \in 1..Len(issued)
      /\ kept[id] \in Nat /\ id \in Nat \ {0} /\ EntryOf(h) \in Entry
  BY <1>1, TenantTypes
<1>3. kept'[id] \in Nat
  BY <1>2 DEF HostTypeOK
<1>4. issued[id] = h /\ h \in Issued
  BY <1>1, ResolvedIsIssued
<1>5. Cardinality(Places(h)) + kept[id] <= refs /\ Cardinality(Places(h)) \in Nat
  BY <1>1, <1>4, PlacesFinite DEF Held
<1>6. issued' = issued /\ Issued' = Issued
  BY <1>1 DEF Changed, Issued
<1>7. ASSUME NEW k, Resolves(k), k.slot # i
      PROVE  /\ Resolves(k)' /\ EntryOf(k)' = EntryOf(k)
             /\ EntryOf(k).callback # id
  <2>1. Resolves(k)' /\ EntryOf(k)' = EntryOf(k)
    BY <1>1, <1>7 DEF Changed, Resolves, Occupied, EntryOf
  <2>2. EntryOf(k).callback # id
    BY <1>1, <1>7, TenantsDiffer DEF Resolves, EntryOf
  <2> QED
    BY <2>1, <2>2
<1>8. ASSUME NEW k, Resolves(k)' PROVE Resolves(k)
  BY <1>1, <1>8 DEF Changed, Resolves, Occupied
<1>9. ASSUME NEW k \in Issued, Resolves(k), k.slot # i
      PROVE  Cardinality(Places(k)') + kept'[EntryOf(k)'.callback] <= EntryOf(k)'.refs
  <2>1. Cardinality(Places(k)) + kept[EntryOf(k).callback] <= EntryOf(k).refs
    BY <1>9 DEF Held
  <2>2. /\ kept[EntryOf(k).callback] \in Nat /\ EntryOf(k).refs \in Nat
        /\ EntryOf(k).callback \in 1..MaxCreates
        /\ Cardinality(Places(k)) \in Nat /\ Cardinality(Places(k)') \in Nat
        /\ Cardinality(Places(k)') <= Cardinality(Places(k))
    BY <1>9, TenantTypes, PlacesFinite
  <2>3. EntryOf(k)' = EntryOf(k) /\ kept'[EntryOf(k).callback] = kept[EntryOf(k).callback]
    BY <1>7, <1>9, <2>2
  <2> QED
    BY <2>1, <2>2, <2>3
<1>10. \A n \in CallFrames' : \A m \in 1..Len(calls'[n].temps) : \A x :
         x = calls'[n].temps[m] => Resolves(x) /\ x \in Handle /\ <<n, m>> \in Places(x)'
  <2> SUFFICES ASSUME NEW n \in CallFrames', NEW m \in 1..Len(calls'[n].temps),
                      NEW x, x = calls'[n].temps[m]
               PROVE  Resolves(x) /\ x \in Handle /\ <<n, m>> \in Places(x)'
    OBVIOUS
  <2>1. PICK j \in 1..Len(calls[n].temps) : x = calls[n].temps[j]
    OBVIOUS
  <2>2. n \in CallFrames /\ Resolves(calls[n].temps[j])
    BY DEF Held
  <2>3. calls[n] \in CallFrame
    BY <2>2, StackTypes, ElementOfSeq DEF CallFrames
  <2>4. calls[n].temps[j] \in Handle
    BY <2>3, ElementOfSeq DEF CallFrame
  <2>5. <<n, m>> \in Places(x)'
    <3>1. /\ calls' \in Seq(CallFrame \cup PumpFrame) /\ n \in 1..Len(calls') /\ IsCall(calls'[n])
          /\ Len(calls'[n].temps) <= MaxTemps
      BY DEF HostTypeOK, CallFrames, Bounds
    <3>2. calls'[n] \in CallFrame
      BY <3>1, ElementOfSeq, StackTypes
    <3>3. Len(calls'[n].temps) \in Nat
      BY <3>2, LenProperties DEF CallFrame
    <3>4. m \in 1..MaxTemps /\ m <= Len(calls'[n].temps)
      BY <3>1, <3>3, HostAssumption
    <3> QED
      BY <3>4 DEF Places
  <2> QED
    BY <2>1, <2>2, <2>4, <2>5
<1>11. CASE refs > 1
  <2>1. Changed(i, [EntryOf(h) EXCEPT !.refs = refs - 1])
    BY <1>1, <1>2, <1>11
  <2>2. /\ slots'[i].entry.refs = refs - 1 /\ slots'[i].entry.callback = id
        /\ slots'[i].entry # Empty
    BY <1>2, <1>11, <2>1 DEF Changed, Entry, Empty
  <2>3. \A k : Resolves(k) => Resolves(k)' /\ EntryOf(k)'.callback = EntryOf(k).callback
    BY <2>1, <2>2 DEF Changed, Resolves, Occupied, EntryOf
  <2>4. \A n \in CallFrames' : \A m \in 1..Len(calls'[n].temps) : Resolves(calls[n].temps[m])'
    <3> SUFFICES ASSUME NEW n \in CallFrames', NEW m \in 1..Len(calls'[n].temps)
                 PROVE  Resolves(calls[n].temps[m])'
      OBVIOUS
    <3>1. PICK x : x = calls'[n].temps[m]
      OBVIOUS
    <3>2. Resolves(x)'
      BY <1>10, <2>3, <3>1
    <3> QED
      BY <3>1, <3>2 DEF Resolves, Occupied
  <2>5. \A x \in 1..MaxCreates : kept'[x] > 0 =>
          /\ x <= Len(issued')
          /\ Resolves(issued[x])' /\ EntryOf(issued[x])'.callback = x
    <3>1. \A x \in 1..MaxCreates : kept'[x] > 0 => kept[x] > 0
      BY <1>2, <1>3
    <3>2. \A x \in 1..MaxCreates : kept'[x] > 0 =>
            x <= Len(issued) /\ Resolves(issued[x]) /\ EntryOf(issued[x]).callback = x
      BY <3>1 DEF Held
    <3> QED
      BY <1>6, <2>3, <3>2 DEF Resolves, Occupied, EntryOf
  <2>6. \A k \in Issued' : Resolves(k)' =>
          Cardinality(Places(k)') + kept'[EntryOf(k)'.callback] <= EntryOf(k)'.refs
    <3> SUFFICES ASSUME NEW k \in Issued, Resolves(k)'
                 PROVE  Cardinality(Places(k)') + kept'[EntryOf(k)'.callback] <= EntryOf(k)'.refs
      BY <1>6
    <3>1. Resolves(k)
      BY <1>8
    <3>2. CASE k.slot = i
      <4>1. k = h
        BY <1>1, <3>1, <3>2, HandlesEqual, SlotTypes DEF Resolves, Issued, IInv
      <4>2. EntryOf(h)'.refs = refs - 1 /\ EntryOf(h)'.callback = id
        BY <2>2 DEF EntryOf
      <4> QED
        BY <1>2, <1>3, <1>5, <4>1, <4>2
    <3>3. CASE k.slot # i
      BY <1>9, <3>1, <3>3
    <3> QED
      BY <3>2, <3>3
  <2> QED
    BY <2>4, <2>5, <2>6 DEF Held
<1>12. CASE refs = 1
  <2>1. Changed(i, Empty)
    BY <1>1, <1>12
  <2>2. kept'[id] = 0 /\ Cardinality(Places(h)') = 0
    BY <1>2, <1>3, <1>5, <1>12
  <2>3. Places(h)' = {}
    <3> DEFINE P == Places(h)'
    <3>1. IsFiniteSet(P)
      <4>1. /\ calls' \in Seq(CallFrame \cup PumpFrame)
        BY DEF HostTypeOK
      <4>2. Len(calls') \in Nat /\ MaxTemps \in Nat
        BY <4>1, LenProperties, HostAssumption
      <4>3. IsFiniteSet(1..Len(calls')) /\ IsFiniteSet(1..MaxTemps)
        BY <4>2, FS_Interval
      <4>4. IsFiniteSet(CallFrames')
        BY <4>3, FS_Subset DEF CallFrames
      <4>5. IsFiniteSet(CallFrames' \X (1..MaxTemps))
        BY <4>3, <4>4, FS_Product
      <4> QED
        BY <4>5, FS_Subset DEF Places
    <3> HIDE DEF P
    <3>2. Cardinality(P) = 0 => P = {}
      BY <3>1, FS_EmptySet
    <3> QED
      BY <2>2, <3>2 DEF P
  <2>4. ~Occupied(i)' /\ \A k : k.slot = i => ~Resolves(k)'
    BY <2>1 DEF Changed, Occupied, Resolves
  <2>5. \A n \in CallFrames' : \A m \in 1..Len(calls'[n].temps) : Resolves(calls[n].temps[m])'
    <3> SUFFICES ASSUME NEW n \in CallFrames', NEW m \in 1..Len(calls'[n].temps)
                 PROVE  Resolves(calls[n].temps[m])'
      OBVIOUS
    <3>1. PICK x : x = calls'[n].temps[m]
      OBVIOUS
    <3>2. Resolves(x) /\ x \in Handle /\ <<n, m>> \in Places(x)'
      BY <1>10, <3>1
    <3>3. x # h
      BY <2>3, <3>2
    <3>4. x.slot # i
      BY <1>1, <3>2, <3>3, HandlesEqual DEF Resolves
    <3>5. Resolves(x)'
      BY <1>7, <3>2, <3>4
    <3> QED
      BY <3>1, <3>5 DEF Resolves, Occupied
  <2>6. ASSUME NEW x \in 1..MaxCreates, kept'[x] > 0
        PROVE  /\ x <= Len(issued')
               /\ Resolves(issued[x])' /\ EntryOf(issued[x])'.callback = x
    <3>1. x # id
      BY <2>2, <2>6
    <3>2. x <= Len(issued) /\ Resolves(issued[x]) /\ EntryOf(issued[x]).callback = x
      BY <2>6, <3>1 DEF Held
    <3>3. issued[x].slot # i
      BY <3>1, <3>2 DEF EntryOf
    <3>4. PICK k : k = issued[x]
      OBVIOUS
    <3>5. Resolves(k)' /\ EntryOf(k)' = EntryOf(k)
      BY <1>7, <3>2, <3>3, <3>4
    <3> QED
      BY <1>6, <3>2, <3>4, <3>5 DEF Resolves, Occupied, EntryOf
  <2>7. \A k \in Issued' : Resolves(k)' =>
          Cardinality(Places(k)') + kept'[EntryOf(k)'.callback] <= EntryOf(k)'.refs
    BY <1>6, <1>8, <1>9, <2>4
  <2> QED
    BY <2>5, <2>6, <2>7 DEF Held
<1> QED
  BY <1>1, <1>11, <1>12

\* What a release leaves of the table.
LEMMA ReleaseLeavesTable ==
  ASSUME IInv, TenantsKnown, NEW h \in Handle, Release(h)
  PROVE  IInv' /\ TenantsKnown' /\ issued' = issued /\ closed' = closed
<1>1. /\ h.slot \in 1..Len(slots) /\ Occupied(h.slot)
      /\ \/ /\ EntryOf(h).refs > 1
            /\ Changed(h.slot, [EntryOf(h) EXCEPT !.refs = EntryOf(h).refs - 1])
         \/ /\ EntryOf(h).refs = 1
            /\ Changed(h.slot, Empty)
  BY ReleaseChanges
<1>2. EntryOf(h) \in Entry /\ EntryOf(h) # Empty
  BY <1>1, SlotTypes DEF IInv, Occupied, EntryOf
<1>3. [EntryOf(h) EXCEPT !.refs = EntryOf(h).refs - 1].callback = slots[h.slot].entry.callback
  BY <1>2 DEF Entry, EntryOf
<1>4. TenantsKnown'
  BY <1>1, <1>3, ChangedKeepsTenants
<1> QED
  BY <1>4, ReleaseKeeps DEF Release

\* A native call gives back one temporary callback, or finds it gone and
\* forgets the rest.
LEMMA ReleaseTempKeeps == ASSUME HostInv, ReleaseTemp PROVE HostInv'
<1> USE DEF HostInv
<1>0. PICK h : h = Head(Top.temps)
  OBVIOUS
<1>1. /\ calls # <<>> /\ IsCall(Top) /\ Top.temps # <<>>
      /\ UNCHANGED <<queueVars, posting, extension, cells, posted, dropped>>
      /\ \/ Release(h) /\ SetTop([Top EXCEPT !.temps = Tail(Top.temps)])
         \/ ~Resolves(h) /\ SetTop([Top EXCEPT !.temps = <<>>]) /\ UNCHANGED table
  BY <1>0 DEF ReleaseTemp, InPhase
<1>2. Top \in CallFrame
  BY <1>1, StackTypes DEF StackInv, Nested, Top
<1>3. h \in Handle /\ Tail(Top.temps) \in Seq(Handle) /\ <<>> \in Seq(Handle)
  BY <1>0, <1>1, <1>2, HeadTailProperties, EmptySeq DEF CallFrame
<1>4. CASE Release(h) /\ SetTop([Top EXCEPT !.temps = Tail(Top.temps)])
  <2>1. IInv' /\ TenantsKnown' /\ issued' = issued /\ closed' = closed
    BY <1>3, <1>4, ReleaseLeavesTable
  <2>2. StackInv' /\ calls' \in Seq(CallFrame \cup PumpFrame)
    BY <1>1, <1>3, <1>4, <2>1, TempsKeepStack DEF queueVars
  <2>3. HostTypeOK'
    BY <1>1, <2>1, <2>2, TypesAfter DEF extension, HostTypeOK
  <2>4. /\ \A k : /\ Cardinality(Places(k)') \in Nat
                  /\ Cardinality(Places(k)') <= Cardinality(Places(k))
                  /\ k = h => Cardinality(Places(k)') <= Cardinality(Places(k)) - 1
        /\ \A n \in CallFrames' : n \in CallFrames /\ \A i \in 1..Len(calls'[n].temps) :
             \E j \in 1..Len(calls[n].temps) : calls'[n].temps[i] = calls[n].temps[j]
        /\ \A n \in CallFrames' : Len(calls'[n].temps) <= MaxTemps
        /\ PumpsStay
    BY <1>0, <1>1, <1>2, <1>4, PlacesAfterTail
  <2>5. Bounds'
    BY <2>1, <2>4 DEF Bounds
  <2>6. Meant' /\ RunsWhatWasMeant'
    <3>1. Len(issued) \in Nat /\ Len(issued') \in Nat
      BY <2>1, SlotTypes DEF IInv
    <3> QED
      BY <1>1, <2>1, <2>4, <3>1, MeantStays, RunsStay DEF queueVars
  <2>7. Held'
    <3> SUFFICES ASSUME disciplined', ~dropped' PROVE Held'
      BY DEF Held
    <3>1. disciplined /\ ~dropped /\ kept' = kept
      BY <1>1 DEF extension
    <3>2. kept[EntryOf(h).callback] \in Nat
      BY <1>4, TenantTypes DEF Release
    <3>3. /\ Cardinality(Places(h)') \in Nat /\ Cardinality(Places(h)) \in Nat
          /\ Cardinality(Places(h)') <= Cardinality(Places(h)) - 1
      BY <2>4, PlacesFinite
    <3>4. Cardinality(Places(h)') + kept'[EntryOf(h).callback]
            <= Cardinality(Places(h)) + kept[EntryOf(h).callback] - 1
      BY <3>1, <3>2, <3>3
    <3> QED
      BY <1>3, <1>4, <2>3, <2>4, <2>5, <3>1, <3>2, <3>4, ReleaseKeepsHeld
  <2> QED
    BY <2>1, <2>2, <2>3, <2>5, <2>6, <2>7
<1>5. CASE ~Resolves(h) /\ SetTop([Top EXCEPT !.temps = <<>>]) /\ UNCHANGED table
  <2> DEFINE f == [Top EXCEPT !.temps = <<>>]
  <2>1. StackInv' /\ calls' \in Seq(CallFrame \cup PumpFrame)
    BY <1>1, <1>3, <1>5, TempsKeepStack DEF queueVars, table
  <2>2. f \in CallFrame /\ f.temps = <<>> /\ IsCall(f) /\ SetTop(f)
    BY <1>2, <1>3, <1>5 DEF CallFrame, IsCall
  <2> HIDE DEF f
  <2>3. /\ Len(calls') = Len(calls) /\ Len(calls) \in Nat \ {0}
        /\ calls'[Len(calls)] = f
        /\ \A j \in 1..Len(calls) : j # Len(calls) => calls'[j] = calls[j]
    BY <1>1, <2>2, StackTypes, TopReplaced
  <2>4. TempsStay /\ PumpsStay
    BY <2>2, <2>3 DEF TempsStay, PumpsStay
  <2>5. HostTypeOK'
    BY <1>1, <1>5, <2>1 DEF HostTypeOK, TypeOK, table, queueVars, extension, cells
  <2> QED
    BY <1>1, <1>5, <2>1, <2>4, <2>5, PumpsStayMeant, QuietStep DEF table, queueVars
<1> QED
  BY <1>1, <1>4, <1>5

\* The extension gives back a reference; a disciplined one has held it.
LEMMA ReleasesKeeps == ASSUME HostInv, NEW h \in Issued, ExtensionReleases(h) PROVE HostInv'
<1> USE DEF HostInv
<1> DEFINE id == EntryOf(h).callback
<1>1. /\ Release(h) /\ Resolves(h)
      /\ disciplined => kept[id] > 0
      /\ kept' = [kept EXCEPT ![id] = IF kept[id] > 0 THEN kept[id] - 1 ELSE 0]
      /\ UNCHANGED <<queueVars, posting, disciplined, calls, cells, posted, dropped>>
  BY DEF ExtensionReleases, Release
<1>2. h \in Handle /\ Len(issued) \in Nat
  BY SlotTypes DEF Issued, IInv
<1>3. id \in 1..MaxCreates /\ kept[id] \in Nat
  BY <1>1, TenantTypes
<1>4. IInv' /\ TenantsKnown' /\ issued' = issued /\ closed' = closed
  BY <1>1, <1>2, ReleaseLeavesTable
<1>5. /\ kept' \in [1..MaxCreates -> Nat]
      /\ \A x \in 1..MaxCreates : x # id => kept'[x] = kept[x]
      /\ kept'[id] = IF kept[id] > 0 THEN kept[id] - 1 ELSE 0
  <2>1. (IF kept[id] > 0 THEN kept[id] - 1 ELSE 0) \in Nat
    BY <1>3
  <2> QED
    BY <1>1, <1>3, <2>1 DEF HostTypeOK
<1>6. HostTypeOK'
  BY <1>1, <1>4, <1>5, TypesAfter, StackTypes
<1>7. StackInv'
  <2>1. calls # <<>>
    BY DEF ExtensionReleases, InPhase
  <2>2. ~dropped
    BY <2>1 DEF StackInv, Drops
  <2> QED
    BY <1>1, <2>2 DEF StackInv, Nested, Restores, RunHeld, Drops, queueVars, cells
<1>8. Meant' /\ RunsWhatWasMeant' /\ Bounds'
  BY <1>1, <1>4 DEF Meant, RunsWhatWasMeant, Bounds, Issued, CallFrames, queueVars
<1>9. Held'
  <2> SUFFICES ASSUME disciplined', ~dropped' PROVE Held'
    BY DEF Held
  <2>1. disciplined /\ ~dropped /\ kept'[id] = kept[id] - 1
    BY <1>1, <1>3, <1>5
  <2>2. CallFrames' = CallFrames /\ \A k : Places(k)' = Places(k)
    BY <1>1 DEF CallFrames, Places
  <2>3. \A k : Cardinality(Places(k)') \in Nat /\ Cardinality(Places(k)') <= Cardinality(Places(k))
    <3>1. \A k : Cardinality(Places(k)) \in Nat
      BY PlacesFinite
    <3> QED
      BY <2>2, <3>1
  <2>4. /\ kept'[id] <= kept[id]
        /\ Cardinality(Places(h)') + kept'[id] <= Cardinality(Places(h)) + kept[id] - 1
    BY <1>3, <2>1, <2>2, PlacesFinite
  <2>5. \A n \in CallFrames' : n \in CallFrames /\ \A m \in 1..Len(calls'[n].temps) :
          \E j \in 1..Len(calls[n].temps) : calls'[n].temps[m] = calls[n].temps[j]
    BY <1>1, <2>2
  <2> QED
    BY <1>1, <1>2, <1>5, <1>6, <1>8, <2>1, <2>3, <2>4, <2>5, ReleaseKeepsHeld
<1> QED
  BY <1>4, <1>6, <1>7, <1>8, <1>9

\* The host is dropped, between two programs.
LEMMA DropKeeps == ASSUME HostInv, DropHost PROVE HostInv'
<1> USE DEF HostInv
<1>1. /\ calls = <<>> /\ dropped' = TRUE /\ vmSet' = FALSE /\ Close
      /\ lifecycle' = "Closed" /\ queue' = <<>> /\ live' = {} /\ closed' = TRUE
      /\ issued' = issued
      /\ UNCHANGED <<posting, disciplined, kept, calls, pumping, pumpError, posted>>
  BY DEF DropHost, Close, extension
<1>2. IInv' /\ TenantsKnown'
  BY <1>1, CloseKeeps, CloseKeepsTenants
<1>3. Len(calls) = 0 /\ Len(queue') = 0
  BY <1>1, EmptySeq
<1>4. HostTypeOK'
  BY <1>1, <1>2, EmptySeq DEF HostTypeOK, IInv
<1>5. StackInv'
  BY <1>1, <1>3 DEF StackInv, Nested, Restores, RunHeld, Drops
<1>6. Meant' /\ RunsWhatWasMeant' /\ Bounds'
  BY <1>1, <1>3 DEF Meant, RunsWhatWasMeant, Bounds, Issued, CallFrames
<1>7. Held'
  BY <1>1 DEF Held
<1> QED
  BY <1>2, <1>4, <1>5, <1>6, <1>7

-----------------------------------------------------------------------------
\* The host starts with the invariant.
LEMMA HostInitHasInvariant == HostInit => HostInv
<1> SUFFICES ASSUME HostInit PROVE HostInv
  OBVIOUS
<1>1. IInv
  BY InitHasInvariant DEF HostInit
<1>2. /\ slots = <<>> /\ issued = <<>> /\ queue = <<>> /\ calls = <<>> /\ live = {}
      /\ Len(slots) = 0 /\ Len(issued) = 0 /\ Len(queue) = 0 /\ Len(calls) = 0
      /\ kept = [id \in 1..MaxCreates |-> 0] /\ posting = [t \in Threads |-> NoHandle]
      /\ lifecycle = "Open" /\ vmSet = FALSE /\ pumping = FALSE /\ dropped = FALSE
      /\ pumpError = 0 /\ posted = 0 /\ disciplined \in BOOLEAN
  BY EmptySeq DEF HostInit, Init
<1>3. HostTypeOK
  <2>1. queue \in Seq([handle : Handle, meant : Nat]) /\ calls \in Seq(CallFrame \cup PumpFrame)
    BY <1>2, EmptySeq
  <2> QED
    BY <1>1, <1>2, <2>1 DEF HostTypeOK, IInv
<1>4. TenantsKnown
  BY <1>2 DEF TenantsKnown
<1>5. StackInv
  BY <1>2 DEF StackInv, Nested, Restores, RunHeld, Drops
<1>6. CallFrames = {} /\ Issued = {}
  BY <1>2 DEF CallFrames, Issued
<1>7. Meant /\ RunsWhatWasMeant
  BY <1>2 DEF Meant, RunsWhatWasMeant
<1>8. Held
  BY <1>2, <1>6 DEF Held
<1>9. Bounds
  BY <1>2, <1>6, LimitsAssumption DEF Bounds
<1> QED
  BY <1>1, <1>3, <1>4, <1>5, <1>7, <1>8, <1>9 DEF HostInv

\* Every step of the host preserves the invariant.
LEMMA HostStepKeepsInvariant == HostInv /\ [HostNext]_vars => HostInv'
<1> SUFFICES ASSUME HostInv, [HostNext]_vars PROVE HostInv'
  OBVIOUS
<1>1. CASE UNCHANGED vars
  <2> USE DEF HostInv
  <2>1. UNCHANGED <<table, queueVars, posting, extension, calls, cells, posted, dropped>>
    BY <1>1 DEF vars
  <2>2. IInv' /\ TenantsKnown'
    BY <2>1, TableStays
  <2>3. HostTypeOK'
    BY <2>1 DEF HostTypeOK, TypeOK, table, queueVars, extension, cells
  <2>4. StackInv'
    BY <2>1 DEF StackInv, Nested, Restores, RunHeld, Drops, queueVars, cells, table
  <2>5. Meant' /\ RunsWhatWasMeant' /\ Bounds'
    BY <2>1 DEF Meant, RunsWhatWasMeant, Bounds, Issued, CallFrames, table, queueVars
  <2>6. Held'
    BY <2>1, HeldStays
  <2> QED
    BY <2>2, <2>3, <2>4, <2>5, <2>6
<1>2. CASE CallNative
  BY <1>2, CallKeeps
<1>3. CASE PassCallable
  BY <1>3, PassKeeps
<1>4. CASE ArgumentFails \/ RunRefused \/ CallReturns
  BY <1>4, ReturnKeeps
<1>5. CASE \E run \in BOOLEAN : EnterNative(run)
  BY <1>5, EnterKeeps
<1>6. CASE LeaveNative
  BY <1>6, LeaveKeeps
<1>7. CASE ReleaseTemp
  BY <1>7, ReleaseTempKeeps
<1>8. CASE \E h \in Issued : ExtensionRetains(h) \/ ExtensionReleases(h)
  BY <1>8, RetainsKeeps, ReleasesKeeps
<1>9. CASE AskPump
  BY <1>9, AskKeeps
<1>10. CASE PumpEnds \/ CallbackGone \/ CallbackFails
  BY <1>10, PumpEndKeeps
<1>11. CASE RunCallback
  BY <1>11, RunCallbackKeeps
<1>12. CASE CallbackReturns
  BY <1>12, CallbackReturnsKeeps
<1>13. CASE \E t \in Threads : PostChecked(t) \/ \E h \in Issued : CheckLive(t, h)
  BY <1>13, PostKeeps, CheckKeeps
<1>14. CASE DropHost
  BY <1>14, DropKeeps
<1> QED
  BY <1>1, <1>2, <1>3, <1>4, <1>5, <1>6, <1>7, <1>8, <1>9, <1>10, <1>11, <1>12, <1>13, <1>14
     DEF HostNext

\* The invariant holds always.
THEOREM HostInvariance == HostSpec => []HostInv
  BY HostInitHasInvariant, HostStepKeepsInvariant, PTL DEF HostSpec

-----------------------------------------------------------------------------
\* The host keeps its types.
THEOREM HostTypesCorrect == HostSpec => []HostTypeOK
<1>1. HostInv => HostTypeOK
  BY DEF HostInv
<1> QED
  BY <1>1, HostInvariance, PTL

\* The table of callbacks is sound with the host around it.
THEOREM HostTableSound == HostSpec => []TableIsSound
<1>1. HostInv => TableIsSound
  BY DEF HostInv, IInv, TableIsSound
<1> QED
  BY <1>1, HostInvariance, PTL

\* The pump runs the callback that the posting thread meant, and a dropped
\* host is silent: whatever is released, reused and posted in between.
THEOREM PumpSafe == HostSpec => []PumpIsSafe
<1>1. HostInv => PumpIsSafe
  <2> SUFFICES ASSUME HostInv PROVE PumpIsSafe
    OBVIOUS
  <2>1. RunsWhatWasMeant
    BY DEF HostInv
  <2>2. SilentAfterDrop
    BY StackTypes DEF HostInv, StackInv, Drops, Restores, SilentAfterDrop
  <2> QED
    BY <2>1, <2>2 DEF PumpIsSafe
<1> QED
  BY <1>1, HostInvariance, PTL

\* A set with no two elements has at most one.
LEMMA AtMostOne ==
  ASSUME NEW S, \A x, y \in S : x = y
  PROVE  Cardinality(S) <= 1
<1>1. CASE S = {}
  BY <1>1, FS_EmptySet
<1>2. CASE S # {}
  <2>1. PICK x : x \in S
    BY <1>2
  <2>2. S = {x}
    BY <2>1
  <2> QED
    BY <2>2, FS_Singleton
<1> QED
  BY <1>1, <1>2

\* What the calls put aside and restore fits their nesting: the pointer to the
\* VM, the flag of the pump, the run of the event loop and the error of a pump.
THEOREM NestingCorrect == HostSpec => []NestingRestored
<1>1. HostInv => NestingRestored
  <2> SUFFICES ASSUME HostInv PROVE NestingRestored
    OBVIOUS
  <2>1. HostTypeOK /\ Nested /\ Restores /\ RunHeld
    BY DEF HostInv, StackInv
  <2>2. Len(calls) \in Nat /\ Len(calls) <= 3 /\ (calls = <<>> <=> Len(calls) = 0)
    <3>1. Len(calls) \in 0..3
      BY <2>1 DEF Nested
    <3>2. Len(calls) \in Nat /\ (calls = <<>> <=> Len(calls) = 0)
      BY <2>1, StackTypes
    <3>3. \A k \in 0..3 : k <= 3
      OBVIOUS
    <3> QED
      BY <3>1, <3>2, <3>3
  <2>3. /\ Len(calls) >= 1 => IsCall(calls[1])
        /\ Len(calls) >= 2 => ~IsCall(calls[2]) /\ calls[1].phase = "native"
        /\ Len(calls) = 3 => IsCall(calls[3])
    BY <2>1, <2>2, StackTypes DEF Nested
  <2>4. \A n \in 1..Len(calls) : n = 1 \/ (n = 2 /\ Len(calls) >= 2) \/ (n = 3 /\ Len(calls) = 3)
    <3>1. \A k \in Nat : k <= 3 =>
            \A n \in 1..k : n = 1 \/ (n = 2 /\ k >= 2) \/ (n = 3 /\ k = 3)
      OBVIOUS
    <3> QED
      BY <2>2, <3>1
  <2>5. /\ \A n \in CallFrames : (n = 1 \/ n = 3) /\ n <= Len(calls) /\ (n = 3 => Len(calls) = 3)
        /\ Len(calls) >= 1 => 1 \in CallFrames
    BY <2>2, <2>3, <2>4 DEF CallFrames
  <2>6. VmSetDuringCalls
    <3>1. vmSet <=> Len(calls) >= 1 /\ calls[1].phase = "native"
      BY <2>1 DEF Restores
    <3>2. (\E n \in CallFrames : calls[n].phase = "native")
            <=> Len(calls) >= 1 /\ calls[1].phase = "native"
      BY <2>2, <2>3, <2>5
    <3> QED
      BY <3>1, <3>2 DEF VmSetDuringCalls
  <2>7. OnePump
    <3> DEFINE pumps == {n \in 1..Len(calls) : ~IsCall(calls[n])}
    <3>1. \A n \in pumps : n = 2 /\ Len(calls) >= 2
      BY <2>2, <2>3, <2>4
    <3>2. Cardinality(pumps) <= 1
      BY <3>1, AtMostOne
    <3>3. Len(calls) >= 2 => 2 \in pumps
      BY <2>2, <2>3
    <3>4. pumping <=> Len(calls) >= 2
      BY <2>1 DEF Nested
    <3> HIDE DEF pumps
    <3>5. pumping <=> pumps # {}
      BY <3>1, <3>3, <3>4
    <3> QED
      BY <3>2, <3>5 DEF OnePump, pumps
  <2>8. OneRun
    <3> DEFINE runs == {n \in CallFrames : calls[n].run}
    <3>1. \A x, y \in runs : x = y
      BY <2>1, <2>5 DEF RunHeld
    <3>2. Cardinality(runs) <= 1
      BY <3>1, AtMostOne
    <3>3. lifecycle = "Running" <=> runs # {}
      BY <2>1 DEF RunHeld, CallFrames
    <3> QED
      BY <3>2, <3>3 DEF OneRun
  <2>9. ErrorIsHome
    <3>1. pumpError # 0 => pumpError = 1 /\ 1 \in CallFrames /\ calls[1].phase = "native"
      BY <2>1, <2>2, <2>5 DEF Restores
    <3>2. \A n \in CallFrames : calls[n].phase = "native" /\ n < Len(calls) => pumpError \in {0, n}
      BY <2>2, <2>5, <3>1
    <3>3. InPhase("native") => pumpError \in {0, Len(calls)}
      <4> SUFFICES ASSUME calls # <<>>, IsCall(calls[Len(calls)]), calls[Len(calls)].phase = "native"
                   PROVE  pumpError \in {0, Len(calls)}
        BY DEF InPhase, Top
      <4>1. Len(calls) = 1 \/ Len(calls) = 3
        <5>1. \A k \in Nat : k <= 3 => k = 0 \/ k = 1 \/ k = 2 \/ k = 3
          OBVIOUS
        <5>2. Len(calls) # 0 /\ Len(calls) # 2
          BY <2>2, <2>3
        <5> QED
          BY <2>2, <5>1, <5>2
      <4>2. Len(calls) = 3 => pumpError = 0
        BY <2>1 DEF Restores
      <4> QED
        BY <3>1, <4>1, <4>2
    <3> QED
      BY <3>1, <3>2, <3>3 DEF ErrorIsHome
  <2> QED
    BY <2>6, <2>7, <2>8, <2>9 DEF NestingRestored
<1> QED
  BY <1>1, HostInvariance, PTL

\* Nobody's callback is taken away: it has a reference for every native call
\* and every retain of a disciplined extension that still holds it.
THEOREM HeldSafe == HostSpec => []HeldIsReferenced
<1>1. HostInv => HeldIsReferenced
  <2> SUFFICES ASSUME HostInv, disciplined, ~dropped, NEW id \in 1..Len(issued),
                      Cardinality(Temps(id)) + kept[id] > 0
               PROVE  /\ Resolves(issued[id])
                      /\ EntryOf(issued[id]).refs >= Cardinality(Temps(id)) + kept[id]
    BY DEF HeldIsReferenced
  <2> USE DEF HostInv
  <2>1. PICK h \in Handle : h = issued[id]
    BY SlotTypes DEF IInv
  <2>2. Temps(id) = Places(h) /\ Cardinality(Places(h)) \in Nat
    BY <2>1, PlacesFinite DEF Temps
  <2>3. id \in 1..MaxCreates /\ kept[id] \in Nat
    <3>1. Len(issued) \in Nat /\ Len(issued) <= MaxCreates
      BY SlotTypes DEF Bounds, IInv
    <3>2. id \in 1..MaxCreates
      BY <3>1, LimitsAssumption
    <3> QED
      BY <3>2 DEF HostTypeOK
  <2>4. Resolves(h)
    <3>1. CASE kept[id] > 0
      BY <2>1, <2>3, <3>1 DEF Held
    <3>2. CASE Places(h) # {}
      <4>1. PICK p : p \in Places(h)
        BY <3>2
      <4>2. /\ p[1] \in CallFrames /\ p[2] \in 1..MaxTemps
            /\ p[2] <= Len(calls[p[1]].temps) /\ calls[p[1]].temps[p[2]] = h
        BY <4>1 DEF Places
      <4>3. calls[p[1]] \in CallFrame
        BY <4>2, StackTypes, ElementOfSeq DEF CallFrames
      <4>4. p[2] \in 1..Len(calls[p[1]].temps)
        BY <4>2, <4>3, LenProperties, HostAssumption DEF CallFrame
      <4> QED
        BY <4>2, <4>4 DEF Held
    <3>3. CASE kept[id] = 0 /\ Places(h) = {}
      <4>1. Cardinality(Places(h)) = 0
        BY <3>3, FS_EmptySet
      <4> QED
        BY <2>2, <3>3, <4>1
    <3> QED
      BY <2>3, <3>1, <3>2, <3>3
  <2>5. h \in Issued /\ Cardinality(Places(h)) + kept[EntryOf(h).callback] <= EntryOf(h).refs
    BY <2>1, <2>4 DEF Held, Issued
  <2>6. kept[EntryOf(h).callback] >= kept[id] /\ kept[EntryOf(h).callback] \in Nat
    <3>1. kept[EntryOf(h).callback] \in Nat /\ EntryOf(h).refs \in Nat
      BY <2>4, TenantTypes
    <3>2. kept[id] > 0 => EntryOf(h).callback = id
      BY <2>1, <2>3 DEF Held
    <3> QED
      BY <2>3, <3>1, <3>2
  <2>7. EntryOf(h).refs \in Nat
    BY <2>4, TenantTypes
  <2> QED
    BY <2>1, <2>2, <2>3, <2>4, <2>5, <2>6, <2>7
<1> QED
  BY <1>1, HostInvariance, PTL

=============================================================================

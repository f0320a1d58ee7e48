-------------------------------- MODULE VmExecProofs --------------------------------
(***************************************************************************)
(* Proofs about VmExec for any program, any nesting of calls, protected    *)
(* regions and pumps, and every budget.                                    *)
(*                                                                         *)
(* The parts of the invariant relate the Rust stack to one other piece of  *)
(* state each (the call depth, the frames, the operands, the windows) and  *)
(* are operators of both, so that what pushing, popping and replacing an   *)
(* item does to them is said once, for sequences.                          *)
(***************************************************************************)
EXTENDS VmExec, TLAPS, SequenceTheorems, FiniteSetTheorems

Chunks == {x \in RustItem : x.kind = "chunk"}
Called == {x \in Chunks : x.called}
Windows == {x \in RustItem : x.kind = "pump" /\ x.saved # -1}

\* Those of the first n items of s that are of the kind P, and how many.
Those(s, P, n) == {m \in 1..n : s[m] \in P}
Upto(s, P, n) == Cardinality(Those(s, P, n))

\* The mark below which an activation takes nothing, and the order of its marks.
LastMark(x) == IF x.handlers = <<>> THEN x.base ELSE x.handlers[Len(x.handlers)]
Ordered(x) ==
  /\ \A i \in 1..Len(x.handlers) : x.base <= x.handlers[i]
  /\ \A i, j \in 1..Len(x.handlers) : i < j => x.handlers[i] <= x.handlers[j]

\* Each activation keeps what lies below its last mark.
Kept(s, n) ==
  \A i \in 1..Len(s) : s[i] \in Chunks =>
    /\ Ordered(s[i]) /\ LastMark(s[i]) <= n
    /\ \A j \in 1..Len(s) : j > i /\ s[j] \in Chunks => LastMark(s[i]) <= s[j].base

\* The frames are those of the activations, in their order.
FramesOf(s, f) ==
  /\ Len(f) = Upto(s, Chunks, Len(s))
  /\ \A i \in 1..Len(s) : s[i] \in Chunks => f[Upto(s, Chunks, i)] = s[i].owner

\* One window for each pump that runs a callback, above the one of the
\* execution; the steps a pump has saved are at least what was charged there.
WindowsOf(s, c) ==
  /\ Len(c) = Upto(s, Windows, Len(s)) + 1
  /\ \A i \in 1..Len(c) : c[i] <= MaxSteps
  /\ \A i \in 1..Len(s) : s[i] \in Windows => c[Upto(s, Windows, i)] <= s[i].saved


\* Everything the invariant says of a stack s, frames f, operands n, steps t,
\* depth d, windows c and leaks l.
Types(s, f, n, t, d, c, l) ==
  /\ s \in Seq(RustItem) /\ f \in Seq(Owners) /\ c \in Seq(Nat)
  /\ n \in Nat /\ t \in Nat /\ d \in Nat /\ l \in Nat

Machine(s, f, n, t, d, c, l) ==
  /\ Types(s, f, n, t, d, c, l)
  /\ d = Upto(s, Called, Len(s)) /\ d <= MaxCallDepth
  /\ Kept(s, n)
  /\ l = 0 => FramesOf(s, f)
  /\ WindowsOf(s, c) /\ c[Len(c)] <= t

IInv ==
  /\ Machine(rust, frames, operands, steps, depth, charged, leaks)
  /\ raised \in BOOLEAN /\ executions \in Nat /\ pumps \in Nat

-----------------------------------------------------------------------------
(* Sequences. *)

\* A sequence with a last element is what lies before it and that element.
LEMMA FrontAndLast ==
  ASSUME NEW S, NEW s \in Seq(S), s # <<>>
  PROVE  /\ ButLast(s) \in Seq(S) /\ s = Append(ButLast(s), s[Len(s)])
         /\ Len(ButLast(s)) = Len(s) - 1 /\ Len(s) \in Nat \ {0} /\ s[Len(s)] \in S
         /\ \A j \in 1..Len(s) - 1 : ButLast(s)[j] = s[j]
<1>1. Len(s) \in Nat \ {0} /\ \A j \in 1..Len(s) : s[j] \in S
  BY EmptySeq, ElementOfSeq, LenProperties
<1>2. Len(s) \in 1..Len(s) /\ s[Len(s)] \in S
  BY <1>1
<1>3. ButLast(s) \in Seq(S) /\ Len(ButLast(s)) = Len(s) - 1
      /\ \A j \in 1..Len(s) - 1 : ButLast(s)[j] = s[j]
  <2> DEFINE n == Len(s) - 1
  <2>1. n \in Nat /\ 1 \in Int /\ n \in Int /\ \A j \in 1..n : s[j] \in S
    BY <1>1
  <2> HIDE DEF n
  <2>2. /\ SubSeq(s, 1, n) \in Seq(S)
        /\ Len(SubSeq(s, 1, n)) = IF 1 <= n THEN n - 1 + 1 ELSE 0
        /\ \A j \in 1..(n - 1 + 1) : SubSeq(s, 1, n)[j] = s[1 + j - 1]
    BY <2>1, SubSeqProperties
  <2>3. Len(SubSeq(s, 1, n)) = n /\ n - 1 + 1 = n /\ \A j \in 1..n : 1 + j - 1 = j
    BY <2>1, <2>2
  <2>4. \A j \in 1..n : SubSeq(s, 1, n)[j] = s[j]
    BY <2>2, <2>3
  <2> QED
    BY <2>2, <2>3, <2>4 DEF n, ButLast
<1>4. s = Append(ButLast(s), s[Len(s)])
  <2> DEFINE t == Append(ButLast(s), s[Len(s)])
  <2>1. t \in Seq(S) /\ Len(t) = Len(s)
    BY <1>1, <1>2, <1>3, AppendProperties
  <2>2. ASSUME NEW j \in 1..Len(s) PROVE s[j] = t[j]
    BY <1>1, <1>2, <1>3, AppendProperties
  <2> QED
    BY <2>1, <2>2, SeqEqual
<1> QED
  BY <1>1, <1>2, <1>3, <1>4

\* What Append does, for any sequence.
LEMMA Appended ==
  ASSUME NEW S, NEW s \in Seq(S), NEW x \in S
  PROVE  /\ Append(s, x) \in Seq(S) /\ Len(Append(s, x)) = Len(s) + 1 /\ Len(s) \in Nat
         /\ \A j \in 1..Len(s) : Append(s, x)[j] = s[j]
         /\ Append(s, x)[Len(s) + 1] = x /\ Append(s, x) # <<>>
BY AppendProperties, LenProperties

\* How many items there are of a kind is a number, not above their position,
\* and grows with it.
LEMMA UptoType ==
  ASSUME NEW s, NEW P, NEW n \in Nat
  PROVE  /\ Upto(s, P, n) \in 0..n /\ IsFiniteSet(Those(s, P, n))
         /\ \A k \in 0..n : Upto(s, P, k) <= Upto(s, P, n)
<1>2. ASSUME NEW k \in Nat
      PROVE  IsFiniteSet(Those(s, P, k)) /\ Upto(s, P, k) \in 0..k
  <2>1. IsFiniteSet(1..k) /\ Cardinality(1..k) = k
    <3>1. 1 \in Int /\ k \in Int /\ (IF 1 > k THEN 0 ELSE k - 1 + 1) = k
      OBVIOUS
    <3> QED
      BY <3>1, FS_Interval
  <2>2. Those(s, P, k) \subseteq 1..k
    BY DEF Those
  <2>3. IsFiniteSet(Those(s, P, k)) /\ Cardinality(Those(s, P, k)) <= k
    BY <2>1, <2>2, FS_Subset
  <2>4. Cardinality(Those(s, P, k)) \in Nat
    BY <2>3, FS_CardinalityType
  <2> QED
    BY <2>3, <2>4 DEF Upto
<1>3. ASSUME NEW k \in 0..n PROVE Upto(s, P, k) <= Upto(s, P, n)
  <2>1. Those(s, P, k) \subseteq Those(s, P, n)
    BY DEF Those
  <2> QED
    BY <1>2, <2>1, FS_Subset DEF Upto
<1> QED
  BY <1>2, <1>3

\* An item more at the end.
LEMMA UptoAppended ==
  ASSUME NEW S, NEW s \in Seq(S), NEW x \in S, NEW P
  PROVE  /\ \A k \in 0..Len(s) : Upto(Append(s, x), P, k) = Upto(s, P, k)
         /\ Upto(Append(s, x), P, Len(s) + 1) = Upto(s, P, Len(s)) + (IF x \in P THEN 1 ELSE 0)
<1>1. PICK t, n : t = Append(s, x) /\ n = Len(s)
  OBVIOUS
<1>2. n \in Nat /\ (\A j \in 1..n : t[j] = s[j]) /\ t[n + 1] = x
  BY <1>1, Appended
<1>3. ASSUME NEW k \in 0..n PROVE Those(t, P, k) = Those(s, P, k)
  BY <1>2 DEF Those
<1>4. IsFiniteSet(Those(s, P, n)) /\ Upto(s, P, n) \in Nat
  BY <1>2, UptoType
<1>5. Upto(t, P, n + 1) = Upto(s, P, n) + (IF x \in P THEN 1 ELSE 0)
  <2>1. CASE x \in P
    <3>1. Those(t, P, n + 1) = Those(s, P, n) \cup {n + 1}
      BY <1>2, <2>1 DEF Those
    <3>2. n + 1 \notin Those(s, P, n)
      BY <1>2 DEF Those
    <3>3. Cardinality(Those(s, P, n) \cup {n + 1}) = Cardinality(Those(s, P, n)) + 1
      BY <1>4, <3>2, FS_AddElement
    <3> QED
      BY <2>1, <3>1, <3>3 DEF Upto
  <2>2. CASE x \notin P
    <3>1. Those(t, P, n + 1) = Those(s, P, n)
      BY <1>2, <2>2 DEF Those
    <3> QED
      BY <1>4, <2>2, <3>1 DEF Upto
  <2> QED
    BY <2>1, <2>2
<1> QED
  BY <1>1, <1>3, <1>5 DEF Upto

\* The last item of a kind is counted last.
LEMMA UptoLast ==
  ASSUME NEW S, NEW s \in Seq(S), s # <<>>, NEW P
  PROVE  /\ \A k \in 0..Len(s) - 1 : Upto(ButLast(s), P, k) = Upto(s, P, k)
         /\ Upto(s, P, Len(s)) = Upto(ButLast(s), P, Len(s) - 1)
                                   + (IF s[Len(s)] \in P THEN 1 ELSE 0)
<1>1. PICK t, x : t = ButLast(s) /\ x = s[Len(s)]
  OBVIOUS
<1>2. t \in Seq(S) /\ x \in S /\ s = Append(t, x) /\ Len(t) = Len(s) - 1 /\ Len(s) \in Nat
  BY <1>1, FrontAndLast
<1>3. /\ \A k \in 0..Len(t) : Upto(Append(t, x), P, k) = Upto(t, P, k)
      /\ Upto(Append(t, x), P, Len(t) + 1) = Upto(t, P, Len(t)) + (IF x \in P THEN 1 ELSE 0)
  BY <1>2, UptoAppended
<1>4. Len(t) + 1 = Len(s)
  BY <1>2
<1> QED
  BY <1>1, <1>2, <1>3, <1>4

\* An item of a kind is counted at its own position, and not before it.
LEMMA UptoPositive ==
  ASSUME NEW S, NEW s \in Seq(S), NEW P, NEW i \in 1..Len(s), s[i] \in P
  PROVE  Upto(s, P, i) >= 1
<1>1. Len(s) \in Nat /\ i \in 0..Len(s)
  BY LenProperties
<1>2. i \in Those(s, P, i) /\ IsFiniteSet(Those(s, P, i)) /\ Upto(s, P, i) \in Nat
  <2>1. i \in Nat /\ i \in 1..i
    BY <1>1
  <2> QED
    BY <2>1, UptoType DEF Those
<1>3. Upto(s, P, i) # 0
  BY <1>2, FS_EmptySet DEF Upto
<1> QED
  BY <1>2, <1>3
-----------------------------------------------------------------------------
(* Items of the Rust stack. *)

\* What an activation is made of.
LEMMA ChunkShape ==
  ASSUME NEW x \in Chunks
  PROVE  /\ x \in RustItem /\ x.kind = "chunk" /\ x.owner \in Owners /\ x.base \in Nat
         /\ x.handlers \in Seq(Nat) /\ x.called \in BOOLEAN
         /\ Len(x.handlers) \in Nat /\ (\A j \in 1..Len(x.handlers) : x.handlers[j] \in Nat)
         /\ LastMark(x) \in Nat /\ (Ordered(x) => x.base <= LastMark(x))
<1>1. /\ x \in RustItem /\ x.kind = "chunk" /\ x.owner \in Owners /\ x.base \in Nat
      /\ x.handlers \in Seq(Nat) /\ x.called \in BOOLEAN
  BY DEF Chunks, RustItem
<1>2. Len(x.handlers) \in Nat /\ (\A j \in 1..Len(x.handlers) : x.handlers[j] \in Nat)
  BY <1>1, LenProperties, ElementOfSeq
<1>3. x.handlers # <<>> => Len(x.handlers) \in 1..Len(x.handlers)
  BY <1>1, <1>2, EmptySeq
<1> QED
  BY <1>1, <1>2, <1>3 DEF LastMark, Ordered

\* What a pump is made of.
LEMMA PumpShape ==
  ASSUME NEW x \in RustItem, x \notin Chunks
  PROVE  /\ x.kind = "pump" /\ x = Pump(x.saved) /\ x.saved \in Nat \cup {-1}
         /\ x \in Windows <=> x.saved # -1
         /\ x \notin Called
BY DEF Chunks, RustItem, Pump, Windows, Called

\* Activations are not windows.
LEMMA ChunkIsNoWindow ==
  ASSUME NEW x \in Chunks
  PROVE  /\ x \notin Windows
         /\ x \in Called <=> x.called
BY DEF Chunks, Windows, Called

\* The items the actions build.
LEMMA NewPump ==
  ASSUME NEW saved \in Nat \cup {-1}
  PROVE  /\ Pump(saved) \in RustItem /\ Pump(saved) \notin Chunks
         /\ Pump(saved) \in Windows <=> saved # -1
BY DEF Pump, RustItem, Chunks, Windows

LEMMA NewActivation ==
  ASSUME NEW owner \in Owners, NEW base \in Nat, NEW called \in BOOLEAN
  PROVE  LET x == Activation(owner, base, called)
         IN  /\ x \in Chunks /\ x \in RustItem /\ x \notin Windows
             /\ x.owner = owner /\ x.base = base
             /\ x \in Called <=> called
             /\ Ordered(x) /\ LastMark(x) = base
<1>1. <<>> \in Seq(Nat) /\ Len(<<>>) = 0
  BY EmptySeq
<1> QED
  BY <1>1 DEF Activation, RustItem, Chunks, Called, Windows, Ordered, LastMark

\* The items an activation is replaced by: a handler more, or one less.
LEMMA MoreHandlers ==
  ASSUME NEW x \in Chunks, NEW n \in Nat, Ordered(x), LastMark(x) <= n
  PROVE  LET y == [x EXCEPT !.handlers = Append(@, n)]
         IN  /\ y \in Chunks /\ y.owner = x.owner /\ y.base = x.base /\ y.called = x.called
             /\ Ordered(y) /\ LastMark(y) = n
<1> DEFINE y == [x EXCEPT !.handlers = Append(@, n)]
<1>1. PICK h, k : h = x.handlers /\ k = Len(h)
  OBVIOUS
<1>2. /\ x \in RustItem /\ h \in Seq(Nat) /\ k \in Nat /\ x.base \in Nat
      /\ \A j \in 1..k : h[j] \in Nat
  BY <1>1, ChunkShape
<1>3. /\ Append(h, n) \in Seq(Nat) /\ Len(Append(h, n)) = k + 1 /\ Append(h, n)[k + 1] = n
      /\ Append(h, n) # <<>> /\ \A j \in 1..k : Append(h, n)[j] = h[j]
  BY <1>1, <1>2, Appended
<1>4. PICK g : g = Append(h, n)
  OBVIOUS
<1>5. /\ y \in Chunks /\ y.owner = x.owner /\ y.base = x.base /\ y.called = x.called
      /\ y.handlers = g
  BY <1>1, <1>2, <1>3, <1>4 DEF Chunks, RustItem
<1>6. LastMark(y) = n
  BY <1>3, <1>4, <1>5 DEF LastMark
<1> HIDE DEF y
<1>7. x.base <= n /\ \A j \in 1..k : h[j] <= n
  <2>1. CASE h = <<>>
    BY <2>1, <1>1 DEF LastMark
  <2>2. CASE h # <<>>
    <3>1. k \in 1..k
      BY <1>1, <1>2, <2>2, EmptySeq
    <3>2. h[k] <= n
      BY <1>1, <2>2 DEF LastMark
    <3>3. x.base <= h[k] /\ \A j \in 1..k : h[j] <= h[k]
      BY <1>1, <1>2, <3>1 DEF Ordered
    <3> QED
      BY <1>2, <3>1, <3>2, <3>3
  <2> QED
    BY <2>1, <2>2
<1>8. Ordered(y)
  <2>1. ASSUME NEW i \in 1..k + 1 PROVE y.base <= g[i]
    BY <1>1, <1>2, <1>3, <1>4, <1>5, <1>7 DEF Ordered
  <2>2. ASSUME NEW i \in 1..k + 1, NEW j \in 1..k + 1, i < j PROVE g[i] <= g[j]
    <3>1. i \in 1..k /\ (j \in 1..k \/ j = k + 1)
      BY <1>2, <2>2
    <3> QED
      BY <1>1, <1>2, <1>3, <1>4, <1>7, <2>2, <3>1 DEF Ordered
  <2> QED
    BY <1>3, <1>4, <1>5, <2>1, <2>2 DEF Ordered
<1> QED
  BY <1>5, <1>6, <1>8 DEF y

\* A handler less.
LEMMA FewerHandlers ==
  ASSUME NEW x \in Chunks, Ordered(x), x.handlers # <<>>
  PROVE  LET y == [x EXCEPT !.handlers = ButLast(@)]
         IN  /\ y \in Chunks /\ y.owner = x.owner /\ y.base = x.base /\ y.called = x.called
             /\ Ordered(y) /\ LastMark(y) <= LastMark(x)
             /\ LastMark(x) = x.handlers[Len(x.handlers)]
<1> DEFINE y == [x EXCEPT !.handlers = ButLast(@)]
<1>1. PICK h, k : h = x.handlers /\ k = Len(h) - 1
  OBVIOUS
<1>2. /\ x \in RustItem /\ h \in Seq(Nat) /\ k \in Nat /\ x.base \in Nat /\ Len(h) = k + 1
      /\ \A j \in 1..k + 1 : h[j] \in Nat
  <2>1. Len(h) \in Nat \ {0}
    BY <1>1, ChunkShape, EmptySeq
  <2> QED
    BY <1>1, <2>1, ChunkShape
<1>3. PICK g : g = ButLast(h)
  OBVIOUS
<1>4. g \in Seq(Nat) /\ Len(g) = k /\ \A j \in 1..k : g[j] = h[j]
  BY <1>1, <1>2, <1>3, FrontAndLast
<1>5. /\ y \in Chunks /\ y.owner = x.owner /\ y.base = x.base /\ y.called = x.called
      /\ y.handlers = g
  <2>1. ButLast(x.handlers) = g /\ y = [x EXCEPT !.handlers = g]
    BY <1>1, <1>3
  <2> QED
    BY <2>1, <1>2, <1>4 DEF Chunks, RustItem
<1>6. LastMark(x) = h[k + 1]
  BY <1>1, <1>2 DEF LastMark
<1> HIDE DEF y
<1>7. Ordered(y)
  <2>1. /\ \A i \in 1..k + 1 : x.base <= h[i]
        /\ \A i, j \in 1..k + 1 : i < j => h[i] <= h[j]
    BY <1>1, <1>2 DEF Ordered
  <2>2. /\ \A i \in 1..k : x.base <= g[i]
        /\ \A i, j \in 1..k : i < j => g[i] <= g[j]
    BY <1>2, <1>4, <2>1
  <2> QED
    BY <1>4, <1>5, <2>2 DEF Ordered
<1>8. LastMark(y) <= h[k + 1]
  <2>1. CASE g = <<>>
    BY <1>1, <1>2, <1>5, <2>1 DEF LastMark, Ordered
  <2>2. CASE g # <<>>
    <3>1. k \in 1..k
      BY <1>4, <2>2, <1>2, EmptySeq
    <3>2. LastMark(y) = h[k]
      BY <1>4, <1>5, <2>2, <3>1 DEF LastMark
    <3>3. k \in 1..k + 1 /\ k + 1 \in 1..k + 1 /\ k < k + 1
      BY <1>2, <3>1
    <3> QED
      BY <1>1, <1>2, <3>2, <3>3 DEF Ordered
  <2> QED
    BY <2>1, <2>2
<1> QED
  BY <1>1, <1>2, <1>5, <1>6, <1>7, <1>8 DEF y

-----------------------------------------------------------------------------
(* The operands. *)

\* More operands lose nothing.
LEMMA KeptAbove ==
  ASSUME NEW s \in Seq(RustItem), NEW n \in Nat, NEW m \in Nat, n <= m, Kept(s, n)
  PROVE  Kept(s, m)
<1>1. ASSUME NEW i \in 1..Len(s), s[i] \in Chunks PROVE LastMark(s[i]) <= m
  BY <1>1, ChunkShape DEF Kept
<1> QED
  BY <1>1 DEF Kept

\* A new item begins above what there is.
LEMMA KeptAppended ==
  ASSUME NEW s \in Seq(RustItem), NEW x \in RustItem, NEW n \in Nat, NEW m \in Nat,
         Kept(s, n), n <= m,
         x \in Chunks => Ordered(x) /\ LastMark(x) <= m /\ n <= x.base
  PROVE  Kept(Append(s, x), m)
<1>1. PICK t, k : t = Append(s, x) /\ k = Len(s)
  OBVIOUS
<1>2. k \in Nat /\ Len(t) = k + 1 /\ (\A j \in 1..k : t[j] = s[j]) /\ t[k + 1] = x
  BY <1>1, Appended
<1>3. ASSUME NEW i \in 1..k + 1, t[i] \in Chunks
      PROVE  /\ Ordered(t[i]) /\ LastMark(t[i]) <= m
             /\ \A j \in 1..k + 1 : j > i /\ t[j] \in Chunks => LastMark(t[i]) <= t[j].base
  <2>1. CASE i = k + 1
    BY <1>2, <1>3, <2>1
  <2>2. CASE i \in 1..k
    <3>1. LastMark(t[i]) \in Nat /\ Ordered(t[i]) /\ LastMark(t[i]) <= n
      BY <1>1, <1>2, <1>3, <2>2, ChunkShape DEF Kept
    <3>2. ASSUME NEW j \in 1..k + 1, j > i, t[j] \in Chunks
          PROVE  LastMark(t[i]) <= t[j].base
      <4>1. CASE j \in 1..k
        BY <1>1, <1>2, <1>3, <2>2, <3>2, <4>1 DEF Kept
      <4>2. CASE j = k + 1
        BY <1>2, <3>1, <3>2, <4>2, ChunkShape
      <4> QED
        BY <1>2, <4>1, <4>2
    <3> QED
      BY <3>1, <3>2
  <2> QED
    BY <1>2, <2>1, <2>2
<1> QED
  BY <1>1, <1>2, <1>3 DEF Kept

\* Without its last item, a stack keeps what lies below the base of that.
LEMMA KeptFront ==
  ASSUME NEW s \in Seq(RustItem), NEW n \in Nat, s # <<>>, Kept(s, n)
  PROVE  LET x == s[Len(s)]
         IN  /\ x \in Chunks => /\ Ordered(x) /\ LastMark(x) <= n /\ x.base <= n
                                /\ Kept(ButLast(s), x.base)
             /\ Kept(ButLast(s), n)
<1>1. PICK t, k : t = ButLast(s) /\ k = Len(s) - 1
  OBVIOUS
<1>2. /\ k \in Nat /\ Len(t) = k /\ Len(s) = k + 1 /\ (\A j \in 1..k : t[j] = s[j])
      /\ s[k + 1] \in RustItem
  BY <1>1, FrontAndLast
<1>3. Kept(t, n)
  BY <1>2 DEF Kept
<1>4. ASSUME s[k + 1] \in Chunks
      PROVE  /\ Ordered(s[k + 1]) /\ LastMark(s[k + 1]) <= n /\ s[k + 1].base <= n
             /\ Kept(t, s[k + 1].base)
  <2>1. k + 1 \in 1..Len(s)
    BY <1>2
  <2>2. Ordered(s[k + 1]) /\ LastMark(s[k + 1]) <= n
    BY <1>4, <2>1 DEF Kept
  <2>3. s[k + 1].base <= n
    BY <1>4, <2>2, ChunkShape
  <2>4. \A i \in 1..k : s[i] \in Chunks => LastMark(s[i]) <= s[k + 1].base
    BY <1>2, <1>4, <2>1 DEF Kept
  <2> QED
    BY <1>2, <1>3, <2>2, <2>3, <2>4 DEF Kept
<1> QED
  BY <1>1, <1>2, <1>3, <1>4

-----------------------------------------------------------------------------
(* The frames. *)

\* An activation more, with a frame.
LEMMA FramesAppended ==
  ASSUME NEW s \in Seq(RustItem), NEW x \in RustItem, NEW f \in Seq(Owners), FramesOf(s, f)
  PROVE  /\ x \in Chunks => FramesOf(Append(s, x), Append(f, x.owner))
         /\ x \notin Chunks => FramesOf(Append(s, x), f)
<1>1. PICK t, k : t = Append(s, x) /\ k = Len(s)
  OBVIOUS
<1>2. k \in Nat /\ Len(t) = k + 1 /\ (\A j \in 1..k : t[j] = s[j]) /\ t[k + 1] = x
  BY <1>1, Appended
<1>3. /\ \A j \in 0..k : Upto(t, Chunks, j) = Upto(s, Chunks, j)
      /\ Upto(t, Chunks, k + 1) = Upto(s, Chunks, k) + (IF x \in Chunks THEN 1 ELSE 0)
  <2>1. /\ \A j \in 0..Len(s) : Upto(Append(s, x), Chunks, j) = Upto(s, Chunks, j)
        /\ Upto(Append(s, x), Chunks, Len(s) + 1)
              = Upto(s, Chunks, Len(s)) + (IF x \in Chunks THEN 1 ELSE 0)
    BY UptoAppended
  <2> QED
    BY <1>1, <2>1
<1>4. PICK u : u = Upto(s, Chunks, k)
  OBVIOUS
<1>5. u \in Nat /\ Len(f) = u
      /\ \A j \in 1..k : s[j] \in Chunks => Upto(s, Chunks, j) \in 1..u
  <2>1. u \in Nat /\ Len(f) = u
    BY <1>1, <1>2, <1>4, UptoType DEF FramesOf
  <2>2. ASSUME NEW j \in 1..k, s[j] \in Chunks PROVE Upto(s, Chunks, j) \in 1..u
    <3>1. j \in Nat /\ j \in 0..k /\ j \in 1..Len(s)
      BY <1>1, <1>2
    <3>2. Upto(s, Chunks, j) >= 1
      BY <2>2, <3>1, UptoPositive
    <3>3. Upto(s, Chunks, j) \in 0..j /\ Upto(s, Chunks, j) <= u
      BY <1>2, <1>4, <3>1, UptoType
    <3> QED
      BY <2>1, <3>1, <3>2, <3>3
  <2> QED
    BY <2>1, <2>2
<1>6. \A j \in 1..k : s[j] \in Chunks => f[Upto(s, Chunks, j)] = s[j].owner
  BY <1>1 DEF FramesOf
<1>7. CASE x \in Chunks
  <2>1. PICK g : g = Append(f, x.owner)
    OBVIOUS
  <2>2. Len(g) = u + 1 /\ (\A j \in 1..u : g[j] = f[j]) /\ g[u + 1] = x.owner
    BY <1>5, <1>7, <2>1, ChunkShape, Appended
  <2>3. Len(g) = Upto(t, Chunks, Len(t))
    BY <1>2, <1>3, <1>4, <1>7, <2>2
  <2>4. ASSUME NEW j \in 1..k + 1, t[j] \in Chunks PROVE g[Upto(t, Chunks, j)] = t[j].owner
    <3>1. CASE j = k + 1
      BY <1>2, <1>3, <1>4, <1>7, <2>2, <3>1
    <3>2. CASE j \in 1..k
      <4>1. t[j] = s[j] /\ Upto(t, Chunks, j) = Upto(s, Chunks, j) /\ Upto(s, Chunks, j) \in 1..u
        BY <1>2, <1>3, <1>5, <2>4, <3>2
      <4> QED
        BY <1>6, <2>2, <2>4, <3>2, <4>1
    <3> QED
      BY <1>2, <3>1, <3>2
  <2> QED
    BY <1>1, <1>2, <1>7, <2>1, <2>3, <2>4 DEF FramesOf
<1>8. CASE x \notin Chunks
  <2>1. Len(f) = Upto(t, Chunks, Len(t))
    BY <1>2, <1>3, <1>4, <1>5, <1>8
  <2>2. ASSUME NEW j \in 1..k + 1, t[j] \in Chunks PROVE f[Upto(t, Chunks, j)] = t[j].owner
    <3>1. j \in 1..k /\ t[j] = s[j] /\ Upto(t, Chunks, j) = Upto(s, Chunks, j)
      BY <1>2, <1>3, <1>8, <2>2
    <3> QED
      BY <1>6, <2>2, <3>1
  <2> QED
    BY <1>1, <1>2, <1>8, <2>1, <2>2 DEF FramesOf
<1> QED
  BY <1>7, <1>8

\* An activation less, with its frame.
LEMMA FramesFront ==
  ASSUME NEW s \in Seq(RustItem), s # <<>>, NEW f \in Seq(Owners), FramesOf(s, f)
  PROVE  LET x == s[Len(s)]
         IN  /\ x \in Chunks => /\ f # <<>> /\ f = Append(ButLast(f), x.owner)
                                /\ FramesOf(ButLast(s), ButLast(f))
             /\ x \notin Chunks => FramesOf(ButLast(s), f)
<1>1. PICK t, k, x : t = ButLast(s) /\ k = Len(s) - 1 /\ x = s[Len(s)]
  OBVIOUS
<1>2. /\ k \in Nat /\ Len(t) = k /\ Len(s) = k + 1 /\ (\A j \in 1..k : t[j] = s[j])
      /\ x = s[k + 1] /\ x \in RustItem
  BY <1>1, FrontAndLast
<1>3. PICK u : u = Upto(t, Chunks, k)
  OBVIOUS
<1>4. /\ \A j \in 0..k : Upto(t, Chunks, j) = Upto(s, Chunks, j)
      /\ Upto(s, Chunks, k + 1) = u + (IF x \in Chunks THEN 1 ELSE 0)
  BY <1>1, <1>2, <1>3, UptoLast
<1>5. u \in Nat /\ \A j \in 1..k : t[j] \in Chunks => Upto(t, Chunks, j) \in 1..u
  <2>1. u \in Nat
    BY <1>2, <1>3, UptoType
  <2>2. ASSUME NEW j \in 1..k, t[j] \in Chunks PROVE Upto(t, Chunks, j) \in 1..u
    <3>1. j \in Nat /\ j \in 0..k /\ j \in 1..Len(s)
      BY <1>2
    <3>2. Upto(t, Chunks, j) >= 1
      BY <1>2, <1>4, <2>2, <3>1, UptoPositive
    <3>3. Upto(t, Chunks, j) \in 0..j /\ Upto(t, Chunks, j) <= u
      BY <1>2, <1>3, <3>1, UptoType
    <3> QED
      BY <2>1, <3>1, <3>2, <3>3
  <2> QED
    BY <2>1, <2>2
<1>6. /\ Len(f) = u + (IF x \in Chunks THEN 1 ELSE 0)
      /\ \A j \in 1..k + 1 : s[j] \in Chunks => f[Upto(s, Chunks, j)] = s[j].owner
  BY <1>2, <1>4 DEF FramesOf
<1>7. CASE x \in Chunks
  <2>1. PICK g : g = ButLast(f)
    OBVIOUS
  <2>2. f # <<>>
    BY <1>5, <1>6, <1>7, EmptySeq
  <2>3. /\ Len(g) = u /\ (\A j \in 1..u : g[j] = f[j]) /\ f = Append(g, f[u + 1])
    <3>1. Len(f) = u + 1 /\ Len(f) - 1 = u
      BY <1>5, <1>6, <1>7
    <3>2. /\ f = Append(g, f[Len(f)]) /\ Len(g) = Len(f) - 1
          /\ \A j \in 1..Len(f) - 1 : g[j] = f[j]
      BY <2>1, <2>2, FrontAndLast
    <3> QED
      BY <3>1, <3>2
  <2>4. f[u + 1] = x.owner
    BY <1>2, <1>4, <1>6, <1>7
  <2>5. FramesOf(t, g)
    BY <1>2, <1>3, <1>4, <1>5, <1>6, <2>3 DEF FramesOf
  <2> QED
    BY <1>1, <1>7, <2>1, <2>2, <2>3, <2>4, <2>5
<1>8. CASE x \notin Chunks
  <2>1. FramesOf(t, f)
    BY <1>2, <1>3, <1>4, <1>5, <1>6, <1>8 DEF FramesOf
  <2> QED
    BY <1>1, <1>8, <2>1
<1> QED
  BY <1>7, <1>8

-----------------------------------------------------------------------------
(* The windows. *)

\* Windows are numbered from 1, the last of them by the number of all.
LEMMA WindowNumbers ==
  ASSUME NEW s \in Seq(RustItem), NEW i \in 1..Len(s), s[i] \in Windows
  PROVE  Upto(s, Windows, i) \in 1..Upto(s, Windows, Len(s))
<1>1. Len(s) \in Nat /\ i \in Nat /\ i \in 0..Len(s)
  BY LenProperties
<1>2. Upto(s, Windows, i) >= 1
  BY UptoPositive
<1>3. /\ Upto(s, Windows, i) \in 0..i /\ Upto(s, Windows, i) <= Upto(s, Windows, Len(s))
      /\ Upto(s, Windows, Len(s)) \in Nat
  BY <1>1, UptoType
<1> QED
  BY <1>1, <1>2, <1>3

\* An item more: a window begins with nothing charged.
LEMMA WindowsAppended ==
  ASSUME NEW s \in Seq(RustItem), NEW x \in RustItem, NEW c \in Seq(Nat), WindowsOf(s, c),
         MaxSteps \in Nat
  PROVE  /\ x \notin Windows => WindowsOf(Append(s, x), c)
         /\ x \in Windows /\ c[Len(c)] <= x.saved => WindowsOf(Append(s, x), Append(c, 0))
<1>1. PICK t, k, w : t = Append(s, x) /\ k = Len(s) /\ w = Upto(s, Windows, Len(s))
  OBVIOUS
<1>2. k \in Nat /\ Len(t) = k + 1 /\ (\A j \in 1..k : t[j] = s[j]) /\ t[k + 1] = x
  BY <1>1, Appended
<1>3. /\ \A j \in 0..k : Upto(t, Windows, j) = Upto(s, Windows, j)
      /\ Upto(t, Windows, k + 1) = w + (IF x \in Windows THEN 1 ELSE 0)
  <2>1. /\ \A j \in 0..Len(s) : Upto(Append(s, x), Windows, j) = Upto(s, Windows, j)
        /\ Upto(Append(s, x), Windows, Len(s) + 1)
              = Upto(s, Windows, Len(s)) + (IF x \in Windows THEN 1 ELSE 0)
    BY UptoAppended
  <2> QED
    BY <1>1, <2>1
<1>4. w \in Nat /\ Len(c) = w + 1 /\ \A j \in 1..w + 1 : c[j] <= MaxSteps /\ c[j] \in Nat
  <2>1. w \in Nat /\ Len(c) = w + 1
    BY <1>1, <1>2, UptoType DEF WindowsOf
  <2> QED
    BY <2>1, ElementOfSeq DEF WindowsOf
<1>5. \A j \in 1..k : s[j] \in Windows =>
        Upto(s, Windows, j) \in 1..w /\ c[Upto(s, Windows, j)] <= s[j].saved
  BY <1>1, WindowNumbers DEF WindowsOf
<1>6. CASE x \notin Windows
  <2>1. Len(c) = Upto(t, Windows, Len(t)) + 1
    BY <1>2, <1>3, <1>4, <1>6
  <2>2. ASSUME NEW j \in 1..k + 1, t[j] \in Windows PROVE c[Upto(t, Windows, j)] <= t[j].saved
    <3>1. j \in 1..k /\ t[j] = s[j] /\ Upto(t, Windows, j) = Upto(s, Windows, j)
      BY <1>2, <1>3, <1>6, <2>2
    <3> QED
      BY <1>5, <2>2, <3>1
  <2> QED
    BY <1>1, <1>2, <1>4, <1>6, <2>1, <2>2 DEF WindowsOf
<1>7. CASE x \in Windows /\ c[Len(c)] <= x.saved
  <2>1. PICK d : d = Append(c, 0)
    OBVIOUS
  <2>2. Len(d) = w + 2 /\ (\A j \in 1..w + 1 : d[j] = c[j]) /\ d[w + 2] = 0
    <3>1. 0 \in Nat /\ Len(c) + 1 = w + 2
      BY <1>4
    <3>2. Len(d) = Len(c) + 1 /\ (\A j \in 1..Len(c) : d[j] = c[j]) /\ d[Len(c) + 1] = 0
      BY <2>1, <3>1, Appended
    <3> QED
      BY <1>4, <3>1, <3>2
  <2>3. Len(d) = Upto(t, Windows, Len(t)) + 1
    BY <1>2, <1>3, <1>4, <1>7, <2>2
  <2>4. ASSUME NEW j \in 1..Len(d) PROVE d[j] <= MaxSteps
    <3>1. j \in 1..w + 1 \/ j = w + 2
      BY <1>4, <2>2
    <3> QED
      BY <1>4, <2>2, <3>1
  <2>5. ASSUME NEW j \in 1..k + 1, t[j] \in Windows PROVE d[Upto(t, Windows, j)] <= t[j].saved
    <3>1. CASE j = k + 1
      <4>1. Upto(t, Windows, j) = w + 1 /\ w + 1 \in 1..w + 1
        BY <1>3, <1>4, <1>7, <3>1
      <4> QED
        BY <1>2, <1>4, <1>7, <2>2, <3>1, <4>1
    <3>2. CASE j \in 1..k
      <4>1. t[j] = s[j] /\ Upto(t, Windows, j) = Upto(s, Windows, j)
        BY <1>2, <1>3, <3>2
      <4>2. Upto(s, Windows, j) \in 1..w + 1 /\ c[Upto(s, Windows, j)] <= s[j].saved
        BY <1>4, <1>5, <2>5, <3>2, <4>1
      <4> QED
        BY <2>2, <4>1, <4>2
    <3> QED
      BY <1>2, <3>1, <3>2
  <2> QED
    BY <1>1, <1>2, <1>7, <2>1, <2>3, <2>4, <2>5 DEF WindowsOf
<1> QED
  BY <1>6, <1>7

\* An item less: with a window goes what was charged in it.
LEMMA WindowsFront ==
  ASSUME NEW s \in Seq(RustItem), s # <<>>, NEW c \in Seq(Nat), WindowsOf(s, c)
  PROVE  LET x == s[Len(s)]
         IN  /\ x \notin Windows => WindowsOf(ButLast(s), c)
             /\ x \in Windows => /\ WindowsOf(ButLast(s), ButLast(c)) /\ c # <<>>
                                 /\ ButLast(c)[Len(ButLast(c))] <= x.saved
<1>1. PICK t, k, x : t = ButLast(s) /\ k = Len(s) - 1 /\ x = s[Len(s)]
  OBVIOUS
<1>2. /\ k \in Nat /\ Len(t) = k /\ Len(s) = k + 1 /\ (\A j \in 1..k : t[j] = s[j])
      /\ x = s[k + 1] /\ x \in RustItem /\ t \in Seq(RustItem)
  BY <1>1, FrontAndLast
<1>3. PICK w : w = Upto(t, Windows, k)
  OBVIOUS
<1>4. /\ \A j \in 0..k : Upto(t, Windows, j) = Upto(s, Windows, j)
      /\ Upto(s, Windows, k + 1) = w + (IF x \in Windows THEN 1 ELSE 0)
  BY <1>1, <1>2, <1>3, UptoLast
<1>5. /\ w \in Nat /\ Len(c) = w + 1 + (IF x \in Windows THEN 1 ELSE 0)
      /\ \A j \in 1..Len(c) : c[j] <= MaxSteps
  BY <1>2, <1>3, <1>4, UptoType DEF WindowsOf
<1>6. \A j \in 1..k : t[j] \in Windows =>
        Upto(t, Windows, j) \in 1..w /\ c[Upto(t, Windows, j)] <= t[j].saved
  <2>1. ASSUME NEW j \in 1..k, t[j] \in Windows
        PROVE  Upto(t, Windows, j) \in 1..w /\ c[Upto(t, Windows, j)] <= t[j].saved
    <3>1. j \in 1..Len(t) /\ j \in 1..Len(s) /\ t[j] = s[j]
      BY <1>2
    <3>2. Upto(t, Windows, j) \in 1..w
      BY <1>2, <1>3, <2>1, <3>1, WindowNumbers
    <3>3. c[Upto(s, Windows, j)] <= s[j].saved /\ Upto(t, Windows, j) = Upto(s, Windows, j)
      BY <1>2, <1>4, <2>1, <3>1 DEF WindowsOf
    <3> QED
      BY <3>1, <3>2, <3>3
  <2> QED
    BY <2>1
<1>7. CASE x \notin Windows
  BY <1>1, <1>2, <1>3, <1>5, <1>6, <1>7 DEF WindowsOf
<1>8. CASE x \in Windows
  <2>1. PICK d : d = ButLast(c)
    OBVIOUS
  <2>2. c # <<>>
    BY <1>5, <1>8, EmptySeq
  <2>3. Len(d) = w + 1 /\ \A j \in 1..w + 1 : d[j] = c[j]
    <3>1. Len(c) - 1 = w + 1
      BY <1>5, <1>8
    <3>2. Len(d) = Len(c) - 1 /\ \A j \in 1..Len(c) - 1 : d[j] = c[j]
      BY <2>1, <2>2, FrontAndLast
    <3> QED
      BY <3>1, <3>2
  <2>4. \A j \in 1..w + 1 : d[j] <= MaxSteps
    BY <1>5, <1>8, <2>3
  <2>5. ASSUME NEW j \in 1..k, t[j] \in Windows PROVE d[Upto(t, Windows, j)] <= t[j].saved
    <3>1. Upto(t, Windows, j) \in 1..w + 1 /\ c[Upto(t, Windows, j)] <= t[j].saved
      BY <1>5, <1>6, <2>5
    <3> QED
      BY <2>3, <3>1
  <2>6. d[w + 1] <= x.saved
    <3>1. k + 1 \in 1..Len(s) /\ Upto(s, Windows, k + 1) = w + 1 /\ w + 1 \in 1..w + 1
      BY <1>2, <1>4, <1>5, <1>8
    <3>2. c[w + 1] <= x.saved
      BY <1>2, <1>8, <3>1 DEF WindowsOf
    <3> QED
      BY <2>3, <3>1, <3>2
  <2>7. WindowsOf(t, d)
    BY <1>2, <1>3, <2>3, <2>4, <2>5 DEF WindowsOf
  <2> QED
    BY <1>1, <1>8, <2>1, <2>2, <2>3, <2>6, <2>7
<1> QED
  BY <1>7, <1>8

\* A step is charged to the last window.
LEMMA WindowsCharged ==
  ASSUME NEW s \in Seq(RustItem), NEW c \in Seq(Nat), NEW n \in Nat, WindowsOf(s, c),
         MaxSteps \in Nat, c[Len(c)] <= n, n < MaxSteps
  PROVE  /\ AddTo(c, 1) \in Seq(Nat) /\ WindowsOf(s, AddTo(c, 1))
         /\ AddTo(c, 1)[Len(AddTo(c, 1))] <= n + 1
<1>1. PICK w : w = Upto(s, Windows, Len(s))
  OBVIOUS
<1>2. w \in Nat /\ Len(c) = w + 1 /\ w + 1 \in 1..Len(c)
  BY <1>1, LenProperties, UptoType DEF WindowsOf
<1>3. \A j \in 1..w + 1 : c[j] \in Nat /\ c[j] <= MaxSteps
  BY <1>2, ElementOfSeq DEF WindowsOf
<1>4. PICK e, d : e = c[w + 1] + 1 /\ d = [c EXCEPT ![w + 1] = e]
  OBVIOUS
<1>5. e \in Nat /\ e <= MaxSteps /\ e <= n + 1 /\ d = AddTo(c, 1)
  BY <1>2, <1>3, <1>4 DEF AddTo
<1>6. d \in Seq(Nat) /\ Len(d) = w + 1 /\ \A j \in 1..w + 1 : d[j] = IF j = w + 1 THEN e ELSE c[j]
  BY <1>2, <1>4, <1>5, ExceptSeq
<1>7. \A j \in 1..w + 1 : d[j] <= MaxSteps
  BY <1>3, <1>5, <1>6
<1>8. ASSUME NEW j \in 1..Len(s), s[j] \in Windows PROVE d[Upto(s, Windows, j)] <= s[j].saved
  <2>1. Upto(s, Windows, j) \in 1..w
    BY <1>1, <1>8, WindowNumbers
  <2>2. Upto(s, Windows, j) \in 1..w + 1 /\ Upto(s, Windows, j) # w + 1
    BY <1>2, <2>1
  <2> QED
    BY <1>6, <1>8, <2>2 DEF WindowsOf
<1>9. WindowsOf(s, d)
  BY <1>1, <1>6, <1>7, <1>8 DEF WindowsOf
<1> QED
  BY <1>2, <1>5, <1>6, <1>9

-----------------------------------------------------------------------------
(* What the actions do to the machine, one thing at a time. *)

\* A step is charged.
LEMMA MachineCharged ==
  ASSUME NEW s, NEW f, NEW n, NEW t, NEW d, NEW c, NEW l, Machine(s, f, n, t, d, c, l),
         MaxSteps \in Nat, t < MaxSteps
  PROVE  Machine(s, f, n, t + 1, d, AddTo(c, 1), l)
<1>1. s \in Seq(RustItem) /\ c \in Seq(Nat) /\ t \in Nat /\ WindowsOf(s, c) /\ c[Len(c)] <= t
  BY DEF Machine, Types
<1>2. /\ AddTo(c, 1) \in Seq(Nat) /\ WindowsOf(s, AddTo(c, 1))
      /\ AddTo(c, 1)[Len(AddTo(c, 1))] <= t + 1
  BY <1>1, WindowsCharged
<1> QED
  BY <1>1, <1>2 DEF Machine, Types

\* More operands.
LEMMA MachineMore ==
  ASSUME NEW s, NEW f, NEW n, NEW t, NEW d, NEW c, NEW l, Machine(s, f, n, t, d, c, l),
         NEW m \in Nat, n <= m
  PROVE  Machine(s, f, m, t, d, c, l)
BY KeptAbove DEF Machine, Types

\* An item is pushed that is no window: an activation with its frame, or a
\* pump without one.
LEMMA MachinePushed ==
  ASSUME NEW s, NEW f, NEW n, NEW t, NEW d, NEW c, NEW l, Machine(s, f, n, t, d, c, l),
         MaxSteps \in Nat, MaxCallDepth \in Nat,
         NEW x \in RustItem, x \notin Windows, NEW m \in Nat, n <= m,
         x \in Chunks => Ordered(x) /\ LastMark(x) <= m /\ n <= x.base,
         x \in Called => d < MaxCallDepth
  PROVE  Machine(Append(s, x), IF x \in Chunks THEN Append(f, x.owner) ELSE f, m, t,
                 d + (IF x \in Called THEN 1 ELSE 0), c, l)
<1>1. /\ s \in Seq(RustItem) /\ f \in Seq(Owners) /\ c \in Seq(Nat) /\ n \in Nat /\ d \in Nat
      /\ t \in Nat /\ l \in Nat
  BY DEF Machine, Types
<1>2. PICK r, g : r = Append(s, x) /\ g = IF x \in Chunks THEN Append(f, x.owner) ELSE f
  OBVIOUS
<1>3. r \in Seq(RustItem) /\ Len(r) = Len(s) + 1
  BY <1>1, <1>2, Appended
<1>4. g \in Seq(Owners)
  BY <1>1, <1>2, ChunkShape, Appended
<1>5. d + (IF x \in Called THEN 1 ELSE 0) = Upto(r, Called, Len(r))
  <2>1. d = Upto(s, Called, Len(s))
    BY DEF Machine
  <2>2. Upto(r, Called, Len(s) + 1) = Upto(s, Called, Len(s)) + (IF x \in Called THEN 1 ELSE 0)
    BY <1>1, <1>2, UptoAppended
  <2> QED
    BY <1>3, <2>1, <2>2
<1>6. d + (IF x \in Called THEN 1 ELSE 0) \in Nat /\ d + (IF x \in Called THEN 1 ELSE 0) <= MaxCallDepth
  BY <1>1 DEF Machine
<1>7. Kept(r, m)
  BY <1>1, <1>2, KeptAppended DEF Machine
<1>8. l = 0 => FramesOf(r, g)
  BY <1>1, <1>2, FramesAppended DEF Machine
<1>9. WindowsOf(r, c) /\ c[Len(c)] <= t
  BY <1>1, <1>2, WindowsAppended DEF Machine
<1>10. Machine(r, g, m, t, d + (IF x \in Called THEN 1 ELSE 0), c, l)
  <2>1. PICK e : e = d + (IF x \in Called THEN 1 ELSE 0)
    OBVIOUS
  <2>2. Machine(r, g, m, t, e, c, l)
    BY <1>1, <1>3, <1>4, <1>5, <1>6, <1>7, <1>8, <1>9, <2>1 DEF Machine, Types
  <2> QED
    BY <2>1, <2>2
<1> QED
  BY <1>2, <1>10

\* An activation is popped, with its frame, or without it and that is a leak.
LEMMA MachinePopped ==
  ASSUME NEW s, NEW f, NEW n, NEW t, NEW d, NEW c, NEW l, Machine(s, f, n, t, d, c, l),
         MaxCallDepth \in Nat, s # <<>>, s[Len(s)] \in Chunks
  PROVE  LET x == s[Len(s)]
             e == IF x.called THEN d - 1 ELSE d
         IN  /\ x.base <= n /\ x.base \in Nat /\ Ordered(x) /\ LastMark(x) <= n
             /\ Machine(ButLast(s), ButLast(f), x.base, t, e, c, l)
             /\ Machine(ButLast(s), f, x.base, t, e, c, l + 1)
             /\ l = 0 => f = Append(ButLast(f), x.owner)
<1>1. /\ s \in Seq(RustItem) /\ f \in Seq(Owners) /\ c \in Seq(Nat) /\ n \in Nat /\ d \in Nat
      /\ t \in Nat /\ l \in Nat /\ d = Upto(s, Called, Len(s)) /\ d <= MaxCallDepth
      /\ Kept(s, n) /\ (l = 0 => FramesOf(s, f)) /\ WindowsOf(s, c) /\ c[Len(c)] <= t
  BY DEF Machine, Types
<1>2. PICK x, r, g, e : /\ x = s[Len(s)] /\ r = ButLast(s) /\ g = ButLast(f)
                        /\ e = IF x.called THEN d - 1 ELSE d
  OBVIOUS
<1>3. x \in Chunks /\ x.base \in Nat /\ x \notin Windows /\ (x \in Called <=> x.called)
  BY <1>2, ChunkShape, ChunkIsNoWindow
<1>4. r \in Seq(RustItem) /\ Len(r) = Len(s) - 1 /\ Len(s) \in Nat
  BY <1>1, <1>2, FrontAndLast
<1>5. g \in Seq(Owners)
  <2>1. CASE f = <<>>
    <3>1. Len(f) = 0 /\ 0 - 1 < 1 /\ 1 \in Int /\ 0 - 1 \in Int
      BY <2>1, EmptySeq
    <3>2. g = SubSeq(f, 1, 0 - 1)
      BY <1>2, <3>1 DEF ButLast
    <3> QED
      BY <3>1, <3>2, SubSeqEmpty, EmptySeq
  <2>2. CASE f # <<>>
    BY <1>1, <1>2, <2>2, FrontAndLast
  <2> QED
    BY <2>1, <2>2
<1>6. e = Upto(r, Called, Len(r)) /\ e \in Nat /\ e <= d
  <2>1. Upto(s, Called, Len(s)) = Upto(r, Called, Len(s) - 1)
                                   + (IF s[Len(s)] \in Called THEN 1 ELSE 0)
    BY <1>1, <1>2, UptoLast
  <2>2. Upto(r, Called, Len(r)) \in Nat
    BY <1>4, LenProperties, UptoType
  <2> QED
    BY <1>1, <1>2, <1>3, <1>4, <2>1, <2>2
<1>7. Kept(r, x.base) /\ x.base <= n /\ Ordered(x) /\ LastMark(x) <= n
  BY <1>1, <1>2, <1>3, KeptFront
<1>8. l = 0 => FramesOf(r, g) /\ f = Append(g, x.owner)
  BY <1>1, <1>2, <1>3, FramesFront
<1>9. WindowsOf(r, c)
  BY <1>1, <1>2, <1>3, WindowsFront
<1>10. e <= MaxCallDepth
  BY <1>1, <1>6
<1>11. l + 1 \in Nat /\ l + 1 # 0
  BY <1>1
<1>12. Machine(r, g, x.base, t, e, c, l)
  BY <1>1, <1>3, <1>4, <1>5, <1>6, <1>7, <1>8, <1>9, <1>10 DEF Machine, Types
<1>13. Machine(r, f, x.base, t, e, c, l + 1)
  BY <1>1, <1>3, <1>4, <1>6, <1>7, <1>9, <1>10, <1>11 DEF Machine, Types
<1> QED
  BY <1>2, <1>3, <1>7, <1>8, <1>12, <1>13

\* The innermost activation has other handlers.
LEMMA MachineReplaced ==
  ASSUME NEW s, NEW f, NEW n, NEW t, NEW d, NEW c, NEW l, Machine(s, f, n, t, d, c, l),
         MaxSteps \in Nat, MaxCallDepth \in Nat, s # <<>>, s[Len(s)] \in Chunks,
         NEW y \in Chunks, NEW m \in Nat, Ordered(y), LastMark(y) <= m,
         y.owner = s[Len(s)].owner, y.base = s[Len(s)].base, y.called = s[Len(s)].called
  PROVE  Machine(Append(ButLast(s), y), f, m, t, d, c, l)
<1>1. PICK x, r, g, e, b : /\ x = s[Len(s)] /\ r = ButLast(s) /\ g = ButLast(f)
                           /\ e = (IF x.called THEN d - 1 ELSE d) /\ b = x.base
  OBVIOUS
<1>2. /\ b \in Nat /\ Machine(r, g, b, t, e, c, l) /\ Machine(r, f, b, t, e, c, l + 1)
      /\ l = 0 => f = Append(g, x.owner)
  BY <1>1, MachinePopped
<1>3. /\ y \in RustItem /\ y \notin Windows /\ b <= m /\ (y \in Called <=> x.called)
      /\ y.owner = x.owner /\ y.base = b
  <2>1. y \in RustItem /\ y \notin Windows /\ (y \in Called <=> y.called) /\ y.base \in Nat
        /\ y.base <= LastMark(y) /\ LastMark(y) \in Nat
    BY ChunkShape, ChunkIsNoWindow
  <2> QED
    BY <1>1, <2>1
<1>4. d \in Nat /\ d <= MaxCallDepth /\ l \in Nat /\ x.called \in BOOLEAN
  BY <1>1, ChunkShape DEF Machine, Types
<1>5. PICK up : up = IF y \in Called THEN 1 ELSE 0
  OBVIOUS
<1>6. e + up = d /\ (y \in Called => e < MaxCallDepth)
  <2>1. CASE x.called
    BY <1>1, <1>3, <1>4, <1>5, <2>1
  <2>2. CASE ~x.called
    BY <1>1, <1>3, <1>4, <1>5, <2>2
  <2> QED
    BY <2>1, <2>2
<1>7. CASE l = 0
  <2>1. Machine(Append(r, y), IF y \in Chunks THEN Append(g, y.owner) ELSE g, m, t, e + up, c, l)
    BY <1>2, <1>3, <1>5, <1>6, MachinePushed
  <2>2. (IF y \in Chunks THEN Append(g, y.owner) ELSE g) = f
    BY <1>2, <1>3, <1>7
  <2> QED
    BY <1>1, <1>6, <2>1, <2>2
<1>8. CASE l # 0
  <2>1. Machine(Append(r, y), IF y \in Chunks THEN Append(g, y.owner) ELSE g, m, t, e + up, c, l)
    BY <1>2, <1>3, <1>5, <1>6, MachinePushed
  <2>2. f \in Seq(Owners)
    BY DEF Machine, Types
  <2> QED
    BY <1>1, <1>6, <1>8, <2>1, <2>2 DEF Machine, Types
<1> QED
  BY <1>7, <1>8

\* A pump that runs no callback is popped.
LEMMA PumpPopped ==
  ASSUME NEW s, NEW f, NEW n, NEW t, NEW d, NEW c, NEW l, Machine(s, f, n, t, d, c, l),
         s # <<>>, s[Len(s)] \notin Chunks
  PROVE  LET x == s[Len(s)]
         IN  /\ x.saved = -1 => Machine(ButLast(s), f, n, t, d, c, l)
             /\ x.saved # -1 => Machine(ButLast(s), f, n, x.saved, d, ButLast(c), l)
<1>1. /\ s \in Seq(RustItem) /\ f \in Seq(Owners) /\ c \in Seq(Nat) /\ n \in Nat /\ d \in Nat
      /\ t \in Nat /\ l \in Nat /\ d = Upto(s, Called, Len(s)) /\ d <= MaxCallDepth
      /\ Kept(s, n) /\ (l = 0 => FramesOf(s, f)) /\ WindowsOf(s, c) /\ c[Len(c)] <= t
  BY DEF Machine, Types
<1>2. PICK x, r, b, v : x = s[Len(s)] /\ r = ButLast(s) /\ b = ButLast(c) /\ v = x.saved
  OBVIOUS
<1>3. /\ r \in Seq(RustItem) /\ Len(r) = Len(s) - 1 /\ Len(s) \in Nat /\ x \in RustItem
  BY <1>1, <1>2, FrontAndLast
<1>4. x \notin Chunks /\ x \notin Called /\ v \in Nat \cup {-1} /\ (x \in Windows <=> v # -1)
  BY <1>2, <1>3, PumpShape
<1>5. d = Upto(r, Called, Len(r))
  <2>1. Upto(s, Called, Len(s)) = Upto(r, Called, Len(s) - 1)
                                   + (IF s[Len(s)] \in Called THEN 1 ELSE 0)
    BY <1>1, <1>2, UptoLast
  <2>2. Upto(r, Called, Len(r)) \in Nat
    BY <1>3, LenProperties, UptoType
  <2> QED
    BY <1>1, <1>2, <1>3, <1>4, <2>1, <2>2
<1>6. Kept(r, n) /\ (l = 0 => FramesOf(r, f))
  BY <1>1, <1>2, <1>4, KeptFront, FramesFront
<1>7. CASE v = -1
  <2>1. WindowsOf(r, c)
    BY <1>1, <1>2, <1>4, <1>7, WindowsFront
  <2>2. Machine(r, f, n, t, d, c, l)
    BY <1>1, <1>3, <1>5, <1>6, <2>1 DEF Machine, Types
  <2> QED
    BY <1>2, <1>7, <2>2
<1>8. CASE v # -1
  <2>1. WindowsOf(r, b) /\ c # <<>> /\ b[Len(b)] <= v
    BY <1>1, <1>2, <1>4, <1>8, WindowsFront
  <2>2. b \in Seq(Nat) /\ v \in Nat
    BY <1>1, <1>2, <1>4, <1>8, <2>1, FrontAndLast
  <2>3. Machine(r, f, n, v, d, b, l)
    BY <1>1, <1>3, <1>5, <1>6, <2>1, <2>2 DEF Machine, Types
  <2> QED
    BY <1>2, <1>8, <2>3
<1> QED
  BY <1>7, <1>8

\* A pump saves the steps of the window it is in and opens another.
LEMMA WindowOpened ==
  ASSUME NEW s, NEW f, NEW n, NEW t, NEW d, NEW c, NEW l, Machine(s, f, n, t, d, c, l),
         MaxSteps \in Nat, MaxCallDepth \in Nat
  PROVE  Machine(Append(s, Pump(t)), f, n, 0, d, Append(c, 0), l)
<1>1. /\ s \in Seq(RustItem) /\ f \in Seq(Owners) /\ c \in Seq(Nat) /\ n \in Nat /\ d \in Nat
      /\ t \in Nat /\ l \in Nat /\ d = Upto(s, Called, Len(s)) /\ d <= MaxCallDepth
      /\ Kept(s, n) /\ (l = 0 => FramesOf(s, f)) /\ WindowsOf(s, c) /\ c[Len(c)] <= t
  BY DEF Machine, Types
<1>2. PICK x, r, b : x = Pump(t) /\ r = Append(s, x) /\ b = Append(c, 0)
  OBVIOUS
<1>3. x \in RustItem /\ x \notin Chunks /\ x \notin Called /\ x \in Windows /\ x.saved = t
  <2>1. x \in RustItem /\ x \notin Chunks
    BY <1>1, <1>2 DEF Pump, RustItem, Chunks
  <2>2. x.saved = t /\ t # -1
    BY <1>1, <1>2 DEF Pump
  <2> QED
    BY <2>1, <2>2, PumpShape
<1>4. /\ r \in Seq(RustItem) /\ Len(r) = Len(s) + 1 /\ Len(s) \in Nat
      /\ b \in Seq(Nat) /\ Len(b) = Len(c) + 1 /\ b[Len(b)] = 0
  <2>1. 0 \in Nat
    OBVIOUS
  <2> QED
    BY <1>1, <1>2, <1>3, <2>1, Appended
<1>5. d = Upto(r, Called, Len(r))
  <2>1. Upto(r, Called, Len(s) + 1) = Upto(s, Called, Len(s)) + (IF x \in Called THEN 1 ELSE 0)
    BY <1>1, <1>2, <1>3, UptoAppended
  <2> QED
    BY <1>1, <1>3, <1>4, <2>1
<1>6. Kept(r, n) /\ (l = 0 => FramesOf(r, f))
  <2>1. n <= n
    BY <1>1
  <2> QED
    BY <1>1, <1>2, <1>3, <2>1, KeptAppended, FramesAppended
<1>7. WindowsOf(r, b)
  BY <1>1, <1>2, <1>3, WindowsAppended
<1>8. 0 \in Nat /\ b[Len(b)] <= 0
  BY <1>4
<1>9. Machine(r, f, n, 0, d, b, l)
  BY <1>1, <1>4, <1>5, <1>6, <1>7, <1>8 DEF Machine, Types
<1> QED
  BY <1>2, <1>9

\* A machine that runs nothing.
LEMMA MachineEmpty ==
  ASSUME NEW f \in Seq(Owners), NEW n \in Nat, NEW l \in Nat, l = 0 => f = <<>>,
         MaxSteps \in Nat, MaxCallDepth \in Nat
  PROVE  Machine(<<>>, f, n, 0, 0, <<0>>, l)
<1>1. <<>> \in Seq(RustItem) /\ Len(<<>>) = 0
  BY EmptySeq
<1>2. \A P : Upto(<<>>, P, 0) = 0
  <2>1. 0 \in Nat
    OBVIOUS
  <2> QED
    BY <2>1, UptoType
<1>3. <<0>> \in Seq(Nat) /\ Len(<<0>>) = 1 /\ <<0>>[1] = 0
  OBVIOUS
<1>4. PICK s, c : s = <<>> /\ c = <<0>>
  OBVIOUS
<1>5. Kept(s, n) /\ (l = 0 => FramesOf(s, f))
  BY <1>1, <1>2, <1>4 DEF Kept, FramesOf
<1>6. WindowsOf(s, c)
  BY <1>1, <1>2, <1>3, <1>4 DEF WindowsOf
<1>7. Machine(s, f, n, 0, 0, c, l)
  BY <1>1, <1>2, <1>3, <1>4, <1>5, <1>6 DEF Machine, Types
<1> QED
  BY <1>4, <1>7

-----------------------------------------------------------------------------
(* The actions. *)

\* What the invariant says of the state.
LEMMA InTypes ==
  ASSUME IInv
  PROVE  /\ Machine(rust, frames, operands, steps, depth, charged, leaks)
         /\ rust \in Seq(RustItem) /\ frames \in Seq(Owners) /\ charged \in Seq(Nat)
         /\ operands \in Nat /\ steps \in Nat /\ depth \in Nat /\ leaks \in Nat
         /\ raised \in BOOLEAN /\ executions \in Nat /\ pumps \in Nat
         /\ depth <= MaxCallDepth
BY DEF IInv, Machine, Types

\* The innermost item, when it is an activation and when it is a pump.
LEMMA InnerChunk ==
  ASSUME IInv, InChunk
  PROVE  rust # <<>> /\ Top \in Chunks /\ Top = rust[Len(rust)]
<1>1. rust # <<>> /\ Top.kind = "chunk" /\ Top = rust[Len(rust)]
  BY DEF InChunk, Top
<1>2. rust[Len(rust)] \in RustItem
  BY <1>1, InTypes, FrontAndLast
<1> QED
  BY <1>1, <1>2 DEF Chunks

LEMMA InnerPump ==
  ASSUME IInv, InPump
  PROVE  rust # <<>> /\ Top \notin Chunks /\ Top = rust[Len(rust)] /\ Top.saved \in Nat \cup {-1}
<1>1. rust # <<>> /\ Top.kind = "pump" /\ Top = rust[Len(rust)]
  BY DEF InPump, Top
<1>2. rust[Len(rust)] \in RustItem
  BY <1>1, InTypes, FrontAndLast
<1>3. Top \notin Chunks
  BY <1>1 DEF Chunks
<1> QED
  BY <1>1, <1>2, <1>3, PumpShape

\* An instruction is charged before it does anything.
LEMMA Charged ==
  ASSUME IInv, Charge, MaxSteps \in Nat
  PROVE  /\ Machine(rust, frames, operands, steps', depth, charged', leaks)
         /\ InChunk /\ rust # <<>> /\ Top \in Chunks /\ Top = rust[Len(rust)] /\ ~raised
<1>1. InChunk /\ ~raised /\ steps < MaxSteps /\ steps' = steps + 1 /\ charged' = AddTo(charged, 1)
  BY DEF Charge, Runs
<1>2. Machine(rust, frames, operands, steps + 1, depth, AddTo(charged, 1), leaks)
  BY <1>1, InTypes, MachineCharged
<1> QED
  BY <1>1, <1>2, InnerChunk

\* An execution begins.
LEMMA ExecuteStep ==
  ASSUME IInv, Execute, MaxSteps \in Nat, MaxCallDepth \in Nat
  PROVE  IInv'
<1>1. /\ rust = <<>> /\ rust' = <<Activation(NoClass, operands, FALSE)>>
      /\ frames' = Append(frames, NoClass) /\ steps' = 0 /\ depth' = 0 /\ charged' = <<0>>
      /\ executions' = executions + 1 /\ operands' = operands /\ raised' = raised
      /\ pumps' = pumps /\ leaks' = leaks
  BY DEF Execute
<1>2. PICK x : x = Activation(NoClass, operands, FALSE)
  OBVIOUS
<1>3. NoClass \in Owners /\ FALSE \in BOOLEAN
  BY DEF Owners
<1>4. /\ x \in Chunks /\ x \in RustItem /\ x \notin Windows /\ x \notin Called
      /\ x.owner = NoClass /\ x.base = operands /\ Ordered(x) /\ LastMark(x) = operands
  BY <1>2, <1>3, InTypes, NewActivation
<1>5. leaks = 0 => frames = <<>>
  <2>1. ASSUME leaks = 0 PROVE frames = <<>>
    <3>1. Len(frames) = Upto(<<>>, Chunks, Len(<<>>))
      BY <1>1, <2>1, InTypes DEF Machine, FramesOf
    <3>2. Len(<<>>) = 0 /\ 0 \in Nat
      BY EmptySeq
    <3>3. Len(frames) = 0
      BY <3>1, <3>2, UptoType
    <3> QED
      BY <3>3, InTypes, EmptySeq
  <2> QED
    BY <2>1
<1>6. Machine(<<>>, frames, operands, 0, 0, <<0>>, leaks)
  BY <1>5, InTypes, MachineEmpty
<1>7. operands <= operands
  BY InTypes
<1>8. Machine(Append(<<>>, x), Append(frames, NoClass), operands, 0, 0 + 0, <<0>>, leaks)
  <2>1. Machine(Append(<<>>, x), IF x \in Chunks THEN Append(frames, x.owner) ELSE frames,
                operands, 0, 0 + (IF x \in Called THEN 1 ELSE 0), <<0>>, leaks)
    BY <1>4, <1>6, <1>7, InTypes, MachinePushed
  <2> QED
    BY <1>4, <1>7, <2>1
<1>9. Append(<<>>, x) = <<x>> /\ 0 + 0 = 0
  OBVIOUS
<1>10. Machine(rust', frames', operands', steps', depth', charged', leaks')
  BY <1>1, <1>2, <1>8, <1>9
<1>11. raised' \in BOOLEAN /\ executions' \in Nat /\ pumps' \in Nat
  BY <1>1, InTypes
<1> QED
  BY <1>10, <1>11 DEF IInv

\* Push, Pop and Fail leave the stack as it is.
LEMMA OperandStep ==
  ASSUME IInv, Push \/ Pop \/ Fail, MaxSteps \in Nat, MaxCallDepth \in Nat
  PROVE  IInv'
<1>1. /\ rust' = rust /\ frames' = frames /\ depth' = depth /\ executions' = executions
      /\ pumps' = pumps /\ leaks' = leaks /\ Charge
      /\ raised' = raised \/ raised' = TRUE
  BY DEF Push, Pop, Fail, counters
<1>2. /\ Machine(rust, frames, operands, steps', depth, charged', leaks)
      /\ rust # <<>> /\ Top \in Chunks /\ Top = rust[Len(rust)]
  BY <1>1, Charged
<1>3. PICK t, c : t = steps' /\ c = charged'
  OBVIOUS
<1>4. Machine(rust, frames, operands', t, depth, c, leaks)
  <2>1. CASE Push
    <3>1. operands' = operands + 1
      BY <2>1 DEF Push
    <3>2. operands + 1 \in Nat /\ operands <= operands + 1
      BY InTypes
    <3> QED
      BY <1>2, <1>3, <3>1, <3>2, MachineMore
  <2>2. CASE Pop
    <3>1. operands' = operands - 1 /\ operands > LastMark(Top)
      BY <2>2 DEF Pop, Floor, LastMark
    <3>2. LastMark(Top) \in Nat
      BY <1>2, ChunkShape
    <3>3. operands - 1 \in Nat /\ LastMark(Top) <= operands - 1
      BY <3>1, <3>2, InTypes
    <3>4. Ordered(Top)
      BY <1>2, <1>3, MachinePopped
    <3>5. Machine(Append(ButLast(rust), Top), frames, operands - 1, t, depth, c, leaks)
      BY <1>2, <1>3, <3>3, <3>4, MachineReplaced
    <3>6. Append(ButLast(rust), Top) = rust
      BY <1>2, InTypes, FrontAndLast
    <3> QED
      BY <3>1, <3>5, <3>6
  <2>3. CASE Fail
    <3>1. operands' = operands
      BY <2>3 DEF Fail
    <3> QED
      BY <1>2, <1>3, <3>1
  <2> QED
    BY <2>1, <2>2, <2>3
<1>5. raised' \in BOOLEAN /\ executions' \in Nat /\ pumps' \in Nat
  BY <1>1, InTypes
<1> QED
  BY <1>1, <1>3, <1>4, <1>5 DEF IInv

\* TryBegin, TryEnd and Catch change the handlers of the innermost activation.
LEMMA HandlerStep ==
  ASSUME IInv, TryBegin \/ TryEnd \/ Catch, MaxSteps \in Nat, MaxCallDepth \in Nat
  PROVE  IInv'
<1>1. /\ frames' = frames /\ depth' = depth /\ executions' = executions
      /\ pumps' = pumps /\ leaks' = leaks /\ (raised' = raised \/ raised' = FALSE)
      /\ operands' \in {operands, Top.handlers[Len(Top.handlers)]}
  BY DEF TryBegin, TryEnd, Catch, counters
<1>2. /\ Machine(rust, frames, operands, steps', depth, charged', leaks)
      /\ rust # <<>> /\ Top \in Chunks /\ Top = rust[Len(rust)]
  <2>1. CASE TryBegin \/ TryEnd
    BY <2>1, Charged DEF TryBegin, TryEnd
  <2>2. CASE Catch
    <3>1. InChunk /\ steps' = steps /\ charged' = charged
      BY <2>2 DEF Catch
    <3> QED
      BY <3>1, InTypes, InnerChunk
  <2> QED
    BY <2>1, <2>2
<1>3. PICK t, c, x : t = steps' /\ c = charged' /\ x = Top
  OBVIOUS
<1>4. x \in Chunks /\ x = rust[Len(rust)] /\ Ordered(x) /\ LastMark(x) <= operands
  BY <1>2, <1>3, MachinePopped
<1>5. Machine(rust', frames, operands', t, depth, c, leaks) /\ operands' \in Nat
  <2>1. CASE TryBegin
    <3>1. PICK y : y = [x EXCEPT !.handlers = Append(@, operands)]
      OBVIOUS
    <3>2. rust' = Append(ButLast(rust), y) /\ operands' = operands
      BY <1>3, <2>1, <3>1 DEF TryBegin, SetTop
    <3>3. /\ y \in Chunks /\ y.owner = x.owner /\ y.base = x.base /\ y.called = x.called
          /\ Ordered(y) /\ LastMark(y) = operands
      BY <1>4, <3>1, InTypes, MoreHandlers
    <3>4. LastMark(y) <= operands
      BY <3>3, InTypes
    <3> QED
      BY <1>2, <1>3, <1>4, <3>2, <3>3, <3>4, InTypes, MachineReplaced
  <2>2. CASE TryEnd \/ Catch
    <3>1. PICK y : y = [x EXCEPT !.handlers = ButLast(@)]
      OBVIOUS
    <3>2. /\ rust' = Append(ButLast(rust), y) /\ x.handlers # <<>>
          /\ operands' = operands \/ operands' = x.handlers[Len(x.handlers)]
      BY <1>3, <2>2, <3>1 DEF TryEnd, Catch, SetTop
    <3>3. /\ y \in Chunks /\ y.owner = x.owner /\ y.base = x.base /\ y.called = x.called
          /\ Ordered(y) /\ LastMark(y) <= LastMark(x)
          /\ LastMark(x) = x.handlers[Len(x.handlers)]
      BY <1>4, <3>1, <3>2, FewerHandlers
    <3>4. LastMark(y) \in Nat /\ LastMark(x) \in Nat
      BY <1>4, <3>3, ChunkShape
    <3>5. operands' \in Nat /\ LastMark(y) <= operands'
      BY <1>4, <3>2, <3>3, <3>4, InTypes
    <3>6. PICK m : m = operands'
      OBVIOUS
    <3> QED
      BY <1>2, <1>3, <1>4, <3>2, <3>3, <3>5, <3>6, MachineReplaced
  <2> QED
    BY <2>1, <2>2
<1>6. raised' \in BOOLEAN /\ executions' \in Nat /\ pumps' \in Nat
  BY <1>1, InTypes
<1> QED
  BY <1>1, <1>3, <1>5, <1>6 DEF IInv

\* Enter begins a call above a stack of items, or fails.
LEMMA EnterStep ==
  ASSUME IInv, NEW items, NEW owner \in Owners, NEW t, NEW c,
         Machine(items, frames, operands, t, depth, c, leaks),
         Enter(items, owner), MaxSteps \in Nat, MaxCallDepth \in Nat
  PROVE  /\ Machine(rust', frames', operands, t, depth', c, leaks)
         /\ raised' \in BOOLEAN
<1>1. CASE depth < MaxCallDepth
  <2>1. PICK x : x = Activation(owner, operands, TRUE)
    OBVIOUS
  <2>2. /\ rust' = Append(items, x) /\ frames' = Append(frames, owner)
        /\ depth' = depth + 1 /\ raised' = raised
    BY <1>1, <2>1 DEF Enter
  <2>3. /\ x \in Chunks /\ x \in RustItem /\ x \notin Windows /\ x \in Called
        /\ x.owner = owner /\ x.base = operands /\ Ordered(x) /\ LastMark(x) = operands
    BY <2>1, InTypes, NewActivation
  <2>4. operands <= operands
    BY InTypes
  <2>5. Machine(Append(items, x), IF x \in Chunks THEN Append(frames, x.owner) ELSE frames,
                operands, t, depth + (IF x \in Called THEN 1 ELSE 0), c, leaks)
    BY <1>1, <2>3, <2>4, InTypes, MachinePushed
  <2> QED
    BY <2>2, <2>3, <2>5, InTypes
<1>2. CASE ~(depth < MaxCallDepth)
  BY <1>2, InTypes DEF Enter
<1> QED
  BY <1>1, <1>2

\* A method is called.
LEMMA CallStep ==
  ASSUME IInv, NEW owner \in Owners, CallMethod(owner), MaxSteps \in Nat, MaxCallDepth \in Nat
  PROVE  IInv'
<1>1. /\ Charge /\ Enter(rust, owner) /\ operands' = operands /\ executions' = executions
      /\ pumps' = pumps /\ leaks' = leaks
  BY DEF CallMethod, counters
<1>2. PICK t, c, s : t = steps' /\ c = charged' /\ s = rust
  OBVIOUS
<1>3. Machine(s, frames, operands, t, depth, c, leaks) /\ Enter(s, owner)
  BY <1>1, <1>2, Charged
<1>4. Machine(rust', frames', operands, t, depth', c, leaks) /\ raised' \in BOOLEAN
  BY <1>3, EnterStep
<1> QED
  BY <1>1, <1>2, <1>4, InTypes DEF IInv

\* An activation ends: Return, ReturnRefused, StepBudgetExceeded, Unwind.
LEMMA LeaveStep ==
  ASSUME IInv, Return \/ ReturnRefused \/ StepBudgetExceeded \/ Unwind,
         MaxSteps \in Nat, MaxCallDepth \in Nat
  PROVE  IInv'
<1>1. /\ executions' = executions /\ pumps' = pumps /\ raised' \in BOOLEAN
      /\ rust' = ButLast(rust) /\ depth' = IF Top.called THEN depth - 1 ELSE depth
  <2>1. /\ executions' = executions /\ pumps' = pumps
        /\ rust' = ButLast(rust) /\ depth' = IF Top.called THEN depth - 1 ELSE depth
    BY DEF Return, ReturnRefused, StepBudgetExceeded, Unwind, Leave, counters
  <2>2. raised' = raised \/ raised' = TRUE \/ raised' = (Len(rust) > 1)
    BY DEF Return, ReturnRefused, StepBudgetExceeded, Unwind
  <2>3. raised \in BOOLEAN /\ TRUE \in BOOLEAN /\ (Len(rust) > 1) \in BOOLEAN
    BY InTypes
  <2>4. raised' \in BOOLEAN
    BY <2>2, <2>3, Zenon
  <2> QED
    BY <2>1, <2>4
<1>2. InChunk /\ rust # <<>> /\ Top \in Chunks /\ Top = rust[Len(rust)]
  <2>1. InChunk
    BY DEF Return, ReturnRefused, StepBudgetExceeded, Unwind, Charge, Runs
  <2> QED
    BY <2>1, InnerChunk
<1>3. PICK t, c, x, e : /\ t = steps' /\ c = charged' /\ x = Top
                        /\ e = IF x.called THEN depth - 1 ELSE depth
  OBVIOUS
<1>4. Machine(rust, frames, operands, t, depth, c, leaks)
  <2>1. CASE Return \/ ReturnRefused
    BY <1>3, <2>1, Charged DEF Return, ReturnRefused
  <2>2. CASE StepBudgetExceeded
    <3>1. t = steps + 1 /\ c = charged
      BY <1>3, <2>2 DEF StepBudgetExceeded
    <3>2. /\ charged[Len(charged)] <= steps /\ steps \in Nat
          /\ WindowsOf(rust, charged)
      BY InTypes DEF Machine
    <3>3. Len(charged) \in 1..Len(charged)
      <4>1. Len(rust) \in Nat /\ Len(charged) = Upto(rust, Windows, Len(rust)) + 1
        BY <3>2, InTypes, LenProperties DEF WindowsOf
      <4>2. Upto(rust, Windows, Len(rust)) \in Nat
        BY <4>1, UptoType
      <4> QED
        BY <4>1, <4>2
    <3>4. charged[Len(charged)] \in Nat
      BY <3>3, InTypes, ElementOfSeq
    <3>5. charged[Len(charged)] <= steps + 1 /\ steps + 1 \in Nat
      BY <3>2, <3>4
    <3> QED
      BY <3>1, <3>5, InTypes DEF Machine, Types
  <2>3. CASE Unwind
    BY <1>3, <2>3, InTypes DEF Unwind
  <2> QED
    BY <2>1, <2>2, <2>3
<1>5. /\ x.base \in Nat /\ x.base <= operands
      /\ Machine(ButLast(rust), ButLast(frames), x.base, t, e, c, leaks)
      /\ Machine(ButLast(rust), frames, x.base, t, e, c, leaks + 1)
  BY <1>2, <1>3, <1>4, MachinePopped
<1>6. CASE Return \/ ReturnRefused \/ Unwind
  <2>1. frames' = ButLast(frames) /\ leaks' = leaks
    BY <1>6 DEF Return, ReturnRefused, Unwind, Leave
  <2>2. operands' = x.base \/ operands' = x.base + 1
    BY <1>3, <1>6 DEF Return, ReturnRefused, Unwind
  <2>3. operands' \in Nat /\ x.base <= operands'
    BY <1>5, <2>2
  <2>4. PICK m : m = operands'
    OBVIOUS
  <2>5. Machine(ButLast(rust), ButLast(frames), m, t, e, c, leaks)
    BY <1>5, <2>3, <2>4, MachineMore
  <2> QED
    BY <1>1, <1>3, <2>1, <2>4, <2>5, InTypes DEF IInv
<1>7. CASE StepBudgetExceeded
  <2>1. frames' = frames /\ leaks' = leaks + 1 /\ operands' = operands
    BY <1>7 DEF StepBudgetExceeded, Leave
  <2>2. Machine(ButLast(rust), frames, operands, t, e, c, leaks + 1)
    BY <1>5, InTypes, MachineMore
  <2> QED
    BY <1>1, <1>3, <2>1, <2>2, InTypes DEF IInv
<1> QED
  BY <1>6, <1>7

\* A pump begins and ends; its callbacks begin and end.
LEMMA PumpStep ==
  ASSUME IInv, StartPump \/ PumpEnds \/ CloseWindow, MaxSteps \in Nat, MaxCallDepth \in Nat
  PROVE  IInv'
<1>1. CASE StartPump
  <2>1. /\ Charge /\ rust' = Append(rust, Pump(-1)) /\ frames' = frames /\ operands' = operands
        /\ depth' = depth /\ raised' = raised /\ executions' = executions
        /\ leaks' = leaks /\ pumps' = pumps + 1
    BY <1>1 DEF StartPump
  <2>2. PICK t, c, x : t = steps' /\ c = charged' /\ x = Pump(-1)
    OBVIOUS
  <2>3. Machine(rust, frames, operands, t, depth, c, leaks)
    BY <2>1, <2>2, Charged
  <2>4. x \in RustItem /\ x \notin Chunks /\ x \notin Windows /\ x \notin Called
    <3>1. -1 \in Nat \cup {-1}
      OBVIOUS
    <3> QED
      BY <2>2, <3>1, NewPump, PumpShape
  <2>5. operands <= operands /\ depth + 0 = depth
    BY InTypes
  <2>6. Machine(Append(rust, x), IF x \in Chunks THEN Append(frames, x.owner) ELSE frames,
                operands, t, depth + (IF x \in Called THEN 1 ELSE 0), c, leaks)
    BY <2>3, <2>4, <2>5, InTypes, MachinePushed
  <2>7. Machine(Append(rust, x), frames, operands, t, depth, c, leaks)
    BY <2>4, <2>5, <2>6
  <2> QED
    BY <2>1, <2>2, <2>7, InTypes DEF IInv
<1>2. CASE PumpEnds
  <2>1. /\ InPump /\ Top.saved = -1 /\ rust' = ButLast(rust) /\ operands' = operands + 1
        /\ frames' = frames /\ steps' = steps /\ depth' = depth /\ raised' = raised
        /\ executions' = executions /\ pumps' = pumps /\ charged' = charged /\ leaks' = leaks
    BY <1>2 DEF PumpEnds, counters
  <2>2. Machine(ButLast(rust), frames, operands, steps, depth, charged, leaks)
    BY <2>1, InTypes, InnerPump, PumpPopped
  <2>3. operands + 1 \in Nat /\ operands <= operands + 1
    BY InTypes
  <2>4. Machine(ButLast(rust), frames, operands + 1, steps, depth, charged, leaks)
    BY <2>2, <2>3, MachineMore
  <2> QED
    BY <2>1, <2>4, InTypes DEF IInv
<1>3. CASE CloseWindow
  <2>1. /\ InPump /\ Top.saved # -1 /\ steps' = Top.saved /\ charged' = ButLast(charged)
        /\ frames' = frames /\ operands' = operands /\ depth' = depth /\ raised' = raised
        /\ executions' = executions /\ pumps' = pumps /\ leaks' = leaks
        /\ rust' = ButLast(rust) \/ rust' = Append(ButLast(rust), Pump(-1))
    BY <1>3 DEF CloseWindow, counters, SetTop
  <2>2. PICK t, c, s, x : t = steps' /\ c = charged' /\ s = ButLast(rust) /\ x = Pump(-1)
    OBVIOUS
  <2>3. Machine(s, frames, operands, t, depth, c, leaks)
    BY <2>1, <2>2, InTypes, InnerPump, PumpPopped
  <2>4. x \in RustItem /\ x \notin Chunks /\ x \notin Windows /\ x \notin Called
    <3>1. -1 \in Nat \cup {-1}
      OBVIOUS
    <3> QED
      BY <2>2, <3>1, NewPump, PumpShape
  <2>5. operands <= operands /\ depth + 0 = depth
    BY InTypes
  <2>6. Machine(Append(s, x), IF x \in Chunks THEN Append(frames, x.owner) ELSE frames,
                operands, t, depth + (IF x \in Called THEN 1 ELSE 0), c, leaks)
    BY <2>3, <2>4, <2>5, InTypes, MachinePushed
  <2>7. Machine(Append(s, x), frames, operands, t, depth, c, leaks)
    BY <2>4, <2>5, <2>6
  <2>8. Machine(rust', frames, operands, t, depth, c, leaks)
    BY <2>1, <2>2, <2>3, <2>7
  <2> QED
    BY <2>1, <2>2, <2>8, InTypes DEF IInv
<1> QED
  BY <1>1, <1>2, <1>3

\* An event runs a callback in a window of its own.
LEMMA EventStep ==
  ASSUME IInv, NEW owner \in Owners, PumpEvent(owner), MaxSteps \in Nat, MaxCallDepth \in Nat
  PROVE  IInv'
<1>1. /\ InPump /\ Top.saved = -1 /\ steps' = 0 /\ charged' = Append(charged, 0)
      /\ Enter(Append(ButLast(rust), Pump(steps)), owner) /\ operands' = operands
      /\ executions' = executions /\ pumps' = pumps /\ leaks' = leaks
  BY DEF PumpEvent, counters
<1>2. PICK s, c : s = Append(ButLast(rust), Pump(steps)) /\ c = Append(charged, 0)
  OBVIOUS
<1>3. Machine(ButLast(rust), frames, operands, steps, depth, charged, leaks)
  BY <1>1, InTypes, InnerPump, PumpPopped
<1>4. Machine(s, frames, operands, 0, depth, c, leaks)
  BY <1>2, <1>3, WindowOpened
<1>5. Enter(s, owner)
  BY <1>1, <1>2
<1>6. Machine(rust', frames', operands, 0, depth', c, leaks) /\ raised' \in BOOLEAN
  BY <1>4, <1>5, EnterStep
<1> QED
  BY <1>1, <1>2, <1>6, InTypes DEF IInv

-----------------------------------------------------------------------------
(* The theorems. *)

\* The machine starts with nothing running.
LEMMA Initially ==
  ASSUME Init, MaxSteps \in Nat, MaxCallDepth \in Nat
  PROVE  IInv
<1>1. /\ rust = <<>> /\ frames = <<>> /\ operands = 0 /\ steps = 0 /\ depth = 0
      /\ raised = FALSE /\ executions = 0 /\ pumps = 0 /\ charged = <<0>> /\ leaks = 0
  BY DEF Init
<1>2. <<>> \in Seq(Owners) /\ 0 \in Nat
  BY EmptySeq
<1>3. Machine(<<>>, <<>>, 0, 0, 0, <<0>>, 0)
  BY <1>2, MachineEmpty
<1> QED
  BY <1>1, <1>2, <1>3 DEF IInv

\* Whatever the program does, the call depth, the frames, the operands and the
\* windows stay those of the Rust stack.
THEOREM Invariance ==
  ASSUME MaxSteps \in Nat, MaxCallDepth \in Nat
  PROVE  Spec => []IInv
<1>1. Init => IInv
  BY Initially
<1>2. IInv /\ [Next]_vars => IInv'
  <2> SUFFICES ASSUME IInv, [Next]_vars PROVE IInv'
    OBVIOUS
  <2>1. CASE Execute
    BY <2>1, ExecuteStep
  <2>2. CASE Push \/ Pop \/ Fail
    BY <2>2, OperandStep
  <2>3. CASE TryBegin \/ TryEnd \/ Catch
    BY <2>3, HandlerStep
  <2>4. ASSUME NEW owner \in Owners, CallMethod(owner) PROVE IInv'
    BY <2>4, CallStep
  <2>5. CASE Return \/ ReturnRefused \/ StepBudgetExceeded \/ Unwind
    BY <2>5, LeaveStep
  <2>6. CASE StartPump \/ PumpEnds \/ CloseWindow
    BY <2>6, PumpStep
  <2>7. ASSUME NEW owner \in Owners, PumpEvent(owner) PROVE IInv'
    BY <2>7, EventStep
  <2>8. CASE UNCHANGED vars
    BY <2>8 DEF vars, IInv
  <2> QED
    BY <2>1, <2>2, <2>3, <2>4, <2>5, <2>6, <2>7, <2>8 DEF Next
<1> QED
  BY <1>1, <1>2, PTL DEF Spec

\* Type correctness.
THEOREM TypesCorrect ==
  ASSUME MaxSteps \in Nat, MaxCallDepth \in Nat
  PROVE  Spec => []TypeOK
<1>1. IInv => TypeOK
  BY InTypes DEF TypeOK
<1> QED
  BY <1>1, Invariance, PTL

\* A callback never takes from the budget of the execution it interrupts: no
\* window is ever charged more than max_steps.
THEOREM BudgetsIsolated ==
  ASSUME MaxSteps \in Nat, MaxCallDepth \in Nat
  PROVE  Spec => []WindowsIsolated
<1>1. IInv => WindowsIsolated
  BY DEF IInv, Machine, WindowsOf, WindowsIsolated
<1> QED
  BY <1>1, Invariance, PTL

\* call_depth is the number of calls under way.
LEMMA DepthIsCounted ==
  ASSUME IInv
  PROVE  DepthCounts
<1>1. /\ depth = Cardinality(Those(rust, Called, Len(rust))) /\ depth <= MaxCallDepth
  BY InTypes DEF Machine, Upto
<1>2. Those(rust, Called, Len(rust)) = {n \in Activations : rust[n].called}
  <2>1. ASSUME NEW n \in 1..Len(rust)
        PROVE  rust[n] \in Called <=> rust[n].kind = "chunk" /\ rust[n].called
    <3>1. rust[n] \in RustItem
      BY InTypes, ElementOfSeq
    <3> QED
      BY <3>1 DEF Called, Chunks
  <2> QED
    BY <2>1 DEF Those, Activations
<1> QED
  BY <1>1, <1>2 DEF DepthCounts

\* The activations are the items of their kind.
LEMMA ActivationsAre ==
  ASSUME IInv
  PROVE  /\ Len(rust) \in Nat
         /\ \A n \in 1..Len(rust) : rust[n] \in RustItem /\ (n \in Activations <=> rust[n] \in Chunks)
         /\ Activations \subseteq 1..Len(rust)
<1>1. Len(rust) \in Nat /\ \A n \in 1..Len(rust) : rust[n] \in RustItem
  BY InTypes, LenProperties, ElementOfSeq
<1> QED
  BY <1>1 DEF Activations, Chunks

\* The frames are those of the activations.
LEMMA FramesAre ==
  ASSUME IInv
  PROVE  FramesFollow
<1> SUFFICES ASSUME leaks = 0
             PROVE  /\ Len(frames) = Cardinality(Activations)
                    /\ \A n \in Activations :
                         frames[Cardinality({m \in Activations : m <= n})] = rust[n].owner
  BY DEF FramesFollow
<1>1. /\ Len(frames) = Cardinality(Those(rust, Chunks, Len(rust)))
      /\ \A n \in 1..Len(rust) : rust[n] \in Chunks =>
           frames[Cardinality(Those(rust, Chunks, n))] = rust[n].owner
  BY InTypes DEF Machine, FramesOf, Upto
<1>2. Those(rust, Chunks, Len(rust)) = Activations
  BY ActivationsAre DEF Those
<1>3. ASSUME NEW n \in Activations
      PROVE  Those(rust, Chunks, n) = {m \in Activations : m <= n}
  <2>1. n \in 1..Len(rust) /\ Len(rust) \in Nat
    BY ActivationsAre
  <2>2. ASSUME NEW m PROVE m \in 1..n /\ rust[m] \in Chunks <=> m \in Activations /\ m <= n
    <3>1. m \in 1..n => m \in 1..Len(rust) /\ m <= n
      BY <2>1
    <3>2. m \in 1..Len(rust) /\ m <= n => m \in 1..n
      BY <2>1
    <3> QED
      BY <3>1, <3>2, ActivationsAre
  <2> QED
    BY <2>2 DEF Those
<1> QED
  BY <1>1, <1>2, <1>3, ActivationsAre

\* No activation loses an operand.
LEMMA OperandsAre ==
  ASSUME IInv
  PROVE  OperandsKept
<1> SUFFICES ASSUME NEW n \in Activations
             PROVE  LET marks == <<rust[n].base>> \o rust[n].handlers
                        above == {rust[m].base : m \in {k \in Activations : k > n}} \cup {operands}
                    IN  /\ \A i, j \in 1..Len(marks) : i < j => marks[i] <= marks[j]
                        /\ \A mark \in above : marks[Len(marks)] <= mark
  BY DEF OperandsKept
<1>1. PICK x, h, k, b : x = rust[n] /\ h = x.handlers /\ k = Len(h) /\ b = x.base
  OBVIOUS
<1>2. /\ x \in Chunks /\ b \in Nat /\ h \in Seq(Nat) /\ k \in Nat /\ n \in 1..Len(rust)
      /\ \A i \in 1..k : h[i] \in Nat
  BY <1>1, ActivationsAre, ChunkShape
<1>3. /\ Ordered(x) /\ LastMark(x) <= operands
      /\ \A j \in 1..Len(rust) : j > n /\ rust[j] \in Chunks => LastMark(x) <= rust[j].base
  BY <1>1, <1>2, InTypes DEF Machine, Kept
<1>4. PICK marks : marks = <<b>> \o h
  OBVIOUS
<1>5. Len(marks) = k + 1 /\ \A i \in 1..k + 1 : marks[i] = IF i = 1 THEN b ELSE h[i - 1]
  <2>1. <<b>> \in Seq(Nat) /\ Len(<<b>>) = 1 /\ <<b>>[1] = b
    BY <1>2
  <2>2. /\ Len(marks) = Len(<<b>>) + Len(h)
        /\ \A i \in 1..Len(<<b>>) + Len(h) :
             marks[i] = IF i <= Len(<<b>>) THEN <<b>>[i] ELSE h[i - Len(<<b>>)]
    BY <1>2, <1>4, <2>1, ConcatProperties
  <2> QED
    BY <1>1, <1>2, <2>1, <2>2
<1>6. /\ \A i \in 1..k : b <= h[i]
      /\ \A i, j \in 1..k : i < j => h[i] <= h[j]
  BY <1>1, <1>3 DEF Ordered
<1>7. ASSUME NEW i \in 1..Len(marks), NEW j \in 1..Len(marks), i < j
      PROVE  marks[i] <= marks[j]
  <2>1. j \in 1..k + 1 /\ j # 1 /\ j - 1 \in 1..k /\ marks[j] = h[j - 1]
    BY <1>2, <1>5, <1>7
  <2>2. CASE i = 1
    BY <1>2, <1>5, <1>6, <2>1, <2>2
  <2>3. CASE i # 1
    <3>1. i - 1 \in 1..k /\ marks[i] = h[i - 1] /\ i - 1 < j - 1
      BY <1>2, <1>5, <1>7, <2>3
    <3> QED
      BY <1>6, <2>1, <3>1
  <2> QED
    BY <2>2, <2>3
<1>8. marks[Len(marks)] = LastMark(x)
  <2>1. CASE h = <<>>
    <3>1. k = 0
      BY <1>1, <2>1, EmptySeq
    <3> QED
      BY <1>1, <1>5, <2>1, <3>1 DEF LastMark
  <2>2. CASE h # <<>>
    <3>1. k # 0 /\ k + 1 \in 1..k + 1 /\ k + 1 # 1 /\ k + 1 - 1 = k
      BY <1>1, <1>2, <2>2, EmptySeq
    <3> QED
      BY <1>1, <1>5, <2>2, <3>1 DEF LastMark
  <2> QED
    BY <2>1, <2>2
<1>9. ASSUME NEW mark \in {rust[m].base : m \in {i \in Activations : i > n}} \cup {operands}
      PROVE  marks[Len(marks)] <= mark
  <2>1. CASE mark = operands
    BY <1>3, <1>8, <2>1
  <2>2. ASSUME NEW m \in Activations, m > n, mark = rust[m].base PROVE LastMark(x) <= mark
    BY <1>3, <2>2, ActivationsAre
  <2> QED
    BY <1>8, <1>9, <2>1, <2>2
<1> QED
  BY <1>1, <1>4, <1>7, <1>9

\* Whatever way an activation ends, by a return, an error, a spent budget,
\* inside a callback or not, it gives back what it took.
THEOREM UnwindingCorrect ==
  ASSUME MaxSteps \in Nat, MaxCallDepth \in Nat
  PROVE  Spec => []UnwindingRestores
<1>1. IInv => UnwindingRestores
  BY DepthIsCounted, FramesAre, OperandsAre DEF UnwindingRestores
<1> QED
  BY <1>1, Invariance, PTL

\* While no step budget has been exceeded, check_access asks the frame of the
\* code that runs (src/vm.rs:2271).
THEOREM AccessAsksTheRunner ==
  ASSUME MaxSteps \in Nat, MaxCallDepth \in Nat
  PROVE  Spec => [](leaks = 0 => RunningFrameOnTop)
<1>1. IInv => (leaks = 0 => RunningFrameOnTop)
  <2> SUFFICES ASSUME IInv, leaks = 0, Runs PROVE frames[Len(frames)] = Top.owner
    BY DEF RunningFrameOnTop
  <2>1. rust # <<>> /\ Top \in Chunks /\ Top = rust[Len(rust)]
    BY InnerChunk DEF Runs
  <2>2. Len(rust) \in 1..Len(rust)
    BY <2>1, InTypes, EmptySeq
  <2> QED
    BY <2>1, <2>2, InTypes DEF Machine, FramesOf
<1> QED
  BY <1>1, Invariance, PTL
=============================================================================

---------------------------- MODULE ProjectStorage ----------------------------
(***************************************************************************)
(* Locking a project and replacing one of its files: storage.rs.  Every    *)
(* process reads the file, and writes back what it read with one more      *)
(* edit, under the project lock.  A process may be killed and the machine  *)
(* may lose power between any two system calls, each of which may fail.    *)
(*                                                                         *)
(* A content is the number of edits in it.  What was written and not       *)
(* synced is torn by a power failure; a rename and not synced directory    *)
(* may be lost by one.                                                     *)
(***************************************************************************)
EXTENDS Integers, FiniteSets, TLAPS, FiniteSetTheorems

CONSTANTS
  Procs,       \* processes by their identifier, which names their files
  Attempts,    \* CACHE_LOCK_BIND_ATTEMPTS
  MaxEdits, MaxHarm

VARIABLES
  lockFile,    \* the lock file there is now, 0 if none
  holders,     \* <<p, f>>: p holds the lock of file f
  dest,        \* the file: what it holds
  past,        \* what it could hold after a power failure
  temporary,   \* temporary[p]: the temporary file of p
  proc,        \* the call of each process
  acknowledged,\* history: the edits a commit was reported for
  edits, harm,
  deleted      \* how often the user deleted the lock file

storageVars == <<lockFile, holders, dest, past, temporary, proc, acknowledged, edits, harm, deleted>>

Absent == [data |-> -1, synced |-> FALSE]
Torn == -2
NoProc == [step |-> "idle", lock |-> 0, tries |-> 0, seen |-> 0]
Contents == -2 .. MaxEdits

TypeOK ==
  /\ holders \subseteq Procs \X (1 .. MaxHarm + 1)
  /\ dest \in Contents /\ past \subseteq Contents /\ dest \in past
  /\ \A p \in Procs : temporary[p].data \in Contents /\ proc[p].tries < Attempts
  /\ acknowledged \in 0 .. MaxEdits

At(p, step) == proc[p].step = step
Goto(p, step) == proc' = [proc EXCEPT ![p].step = step]

-----------------------------------------------------------------------------
(* ProjectLock. *)
\* acquire_under_once opens the directories one below the other and creates
\* the file in the last; a directory that is replaced on the way is tried
\* again, so often and no oftener.
Begin(p) ==
  /\ At(p, "idle") /\ edits < MaxEdits
  /\ Goto(p, "open") /\ edits' = edits + 1
  /\ UNCHANGED <<lockFile, holders, dest, past, temporary, acknowledged, harm, deleted>>

OpenLock(p) ==
  /\ At(p, "open")
  /\ \/ /\ lockFile' = IF lockFile = 0 THEN deleted + 1 ELSE lockFile
        /\ proc' = [proc EXCEPT ![p].step = "take", ![p].lock = lockFile', ![p].tries = 0]
     \/ /\ deleted > 0 /\ UNCHANGED lockFile
        /\ proc' = IF proc[p].tries + 1 < Attempts THEN [proc EXCEPT ![p].tries = @ + 1]
                   ELSE [proc EXCEPT ![p] = NoProc]
  /\ UNCHANGED <<holders, dest, past, temporary, acknowledged, edits, harm, deleted>>

Take(p) ==
  /\ At(p, "take") /\ \A q \in Procs : <<q, proc[p].lock>> \notin holders
  /\ holders' = holders \cup {<<p, proc[p].lock>>}

Acquire(p) ==
  /\ Take(p) /\ Goto(p, "read")
  /\ UNCHANGED <<lockFile, dest, past, temporary, acknowledged, edits, harm, deleted>>

Release(p) == holders' = {h \in holders : h[1] # p} /\ proc' = [proc EXCEPT ![p] = NoProc]

\* The owner reads the file it is about to replace.
Read(p) ==
  /\ At(p, "read") /\ proc' = [proc EXCEPT ![p].step = "create", ![p].seen = dest]
  /\ UNCHANGED <<lockFile, holders, dest, past, temporary, acknowledged, edits, harm, deleted>>

-----------------------------------------------------------------------------
(* AtomicFile. *)
\* Dropping a pending file removes it, whatever the error was.
Drop(p) == temporary' = [temporary EXCEPT ![p] = Absent] /\ Release(p)
Rest == UNCHANGED <<lockFile, edits, harm, deleted>>

\* create_new: a file of this name that a killed process has left is an error,
\* and stays.
Create(p) ==
  /\ At(p, "create") /\ UNCHANGED <<dest, past, acknowledged>> /\ Rest
  /\ IF temporary[p] # Absent THEN Release(p) /\ UNCHANGED temporary
     ELSE /\ temporary' = [temporary EXCEPT ![p] = [data |-> 0, synced |-> FALSE]]
          /\ Goto(p, "write") /\ UNCHANGED holders

Write(p) ==
  /\ At(p, "write") /\ UNCHANGED <<dest, past, acknowledged>> /\ Rest
  /\ \/ Drop(p)
     \/ /\ temporary' = [temporary EXCEPT ![p].data = proc[p].seen + 1]
        /\ Goto(p, "sync") /\ UNCHANGED holders

\* commit: sync the file, open its directory, rename, sync the directory.
MutFlushed(p) == temporary' = temporary
Flushed(p) == temporary' = [temporary EXCEPT ![p].synced = TRUE]

Sync(p) ==
  /\ At(p, "sync") /\ UNCHANGED <<dest, past, acknowledged>> /\ Rest
  /\ Drop(p) \/ (Flushed(p) /\ Goto(p, "rename") /\ UNCHANGED holders)

Rename(p) ==
  /\ At(p, "rename") /\ UNCHANGED acknowledged /\ Rest
  /\ \/ Drop(p) /\ UNCHANGED <<dest, past>>
     \/ /\ dest' = temporary[p].data
        /\ past' = past \cup {dest', IF temporary[p].synced THEN dest' ELSE Torn}
        /\ temporary' = [temporary EXCEPT ![p] = Absent]
        /\ Goto(p, "directory") /\ UNCHANGED holders

\* The directory may fail to be synced: an error, and the file is replaced.
SyncDirectory(p) ==
  /\ At(p, "directory") /\ UNCHANGED <<dest, temporary>> /\ Rest /\ Release(p)
  /\ \/ UNCHANGED <<past, acknowledged>>
     \/ /\ past' = {x \in past : x = dest \/ x = Torn}
        /\ acknowledged' = acknowledged + 1

-----------------------------------------------------------------------------
(* A killed process keeps its name, as in a container; what it opened is   *)
(* closed and its lock is given back by the system.                        *)
Kill(p) ==
  /\ ~At(p, "idle") /\ Release(p)
  /\ UNCHANGED <<lockFile, dest, past, temporary, acknowledged, edits, harm, deleted>>

PowerFails ==
  /\ harm < MaxHarm /\ harm' = harm + 1
  /\ dest' \in past /\ past' = {dest'}
  /\ temporary' \in [Procs -> {Absent}] \cup {temporary}
  /\ holders' = {} /\ proc' = [p \in Procs |-> NoProc]
  /\ UNCHANGED <<lockFile, acknowledged, edits, deleted>>

\* The user deletes the state of the project.
DeleteLock ==
  /\ deleted < MaxHarm /\ deleted' = deleted + 1 /\ lockFile # 0 /\ lockFile' = 0
  /\ UNCHANGED <<holders, dest, past, temporary, proc, acknowledged, edits, harm>>

Init ==
  /\ lockFile = 0 /\ holders = {} /\ dest = 0 /\ past = {0}
  /\ temporary = [p \in Procs |-> Absent] /\ proc = [p \in Procs |-> NoProc]
  /\ acknowledged = 0 /\ edits = 0 /\ harm = 0 /\ deleted = 0

Next ==
  \/ PowerFails \/ DeleteLock
  \/ \E p \in Procs : \/ Begin(p) \/ OpenLock(p) \/ Acquire(p) \/ Read(p) \/ Create(p) \/ Write(p)
                      \/ Sync(p) \/ Rename(p) \/ SyncDirectory(p) \/ Kill(p)

Spec == Init /\ [][Next]_storageVars

-----------------------------------------------------------------------------
\* At every moment, and after every power failure, the file is one that some
\* process meant to write, and while the lock file was left alone it holds
\* every edit that was acknowledged (atomic_write, ProjectLock::acquire).
WrittenIsKept ==
  /\ past \subseteq 0 .. MaxEdits
  /\ deleted = 0 => \A x \in past : x >= acknowledged

-----------------------------------------------------------------------------
(***************************************************************************)
(* Proofs for any number of processes and every bound on edits, attempts   *)
(* and harm.  The invariant counts: what the file holds, or may hold after *)
(* a power failure, and the edits that are not yet in it are together no   *)
(* more than were begun.                                                   *)
(***************************************************************************)
Holding == {"read", "create", "write", "sync", "rename", "directory"}
Editing == {"create", "write", "sync", "rename"}

Busy == {p \in Procs : proc[p].step # "idle"}
Pending == {p \in Procs : proc[p].step \notin {"idle", "directory"}}

Steps == {"idle", "open", "take"} \cup Holding
Proc == [step : Steps, lock : Nat, tries : 0..Attempts - 1, seen : Nat]
Temporary == [data : Contents, synced : BOOLEAN]

Shapes ==
  /\ proc \in [Procs -> Proc]
  /\ temporary \in [Procs -> Temporary]
  /\ lockFile \in 0..deleted + 1 /\ deleted \in 0..MaxHarm
  /\ edits \in 0..MaxEdits /\ acknowledged \in Nat
  /\ dest \in past /\ past \subseteq Nat
  /\ holders \subseteq Procs \X Nat

\* Whoever is past the lock holds it, of a file there has been, alone.
Locks ==
  /\ \A p \in Procs : proc[p].step \in Holding \cup {"take"} => proc[p].lock \in 1..deleted + 1
  /\ \A p \in Procs, f \in Nat :
       <<p, f>> \in holders <=> proc[p].step \in Holding /\ proc[p].lock = f
  /\ \A p, q \in Procs : proc[p].step \in Holding /\ proc[q].step \in Holding
                           /\ proc[p].lock = proc[q].lock => p = q

\* Begun edits are acknowledged, pending, or over.
Counts ==
  /\ IsFiniteSet(Busy) /\ IsFiniteSet(Pending)
  /\ acknowledged + Cardinality(Busy) <= edits
  /\ \A x \in past : x + Cardinality(Pending) <= edits
  /\ \A p \in Procs : proc[p].step \in Editing => proc[p].seen + Cardinality(Pending) <= edits

\* What will be renamed is an edit more than what was read, and on the disk.
Written ==
  \A p \in Procs :
    /\ proc[p].step \in {"sync", "rename"} => temporary[p].data = proc[p].seen + 1
    /\ proc[p].step = "rename" => temporary[p].synced

\* With one lock file, nobody edits behind the back of an acknowledged edit.
Current ==
  deleted = 0 =>
    /\ \A x \in past : x >= acknowledged
    /\ \A p \in Procs : /\ proc[p].step \in Editing => proc[p].seen >= acknowledged
                        /\ proc[p].step = "directory" => dest >= acknowledged + 1

IInv == Shapes /\ Locks /\ Counts /\ Written /\ Current

\* What the invariant says of the types.
LEMMA InShapes ==
  ASSUME Shapes, NEW p \in Procs
  PROVE  /\ proc[p] \in Proc /\ proc[p].step \in Steps /\ proc[p].lock \in Nat
         /\ proc[p].tries \in 0..Attempts - 1 /\ proc[p].seen \in Nat
         /\ temporary[p] \in Temporary
BY DEF Shapes, Proc

\* A process that has done something more, and the others as they were.
LEMMA OneMoves ==
  ASSUME Shapes, NEW p \in Procs, NEW r \in Proc, proc' = [proc EXCEPT ![p] = r]
  PROVE  /\ proc' \in [Procs -> Proc] /\ proc'[p] = r
         /\ \A q \in Procs : q # p => proc'[q] = proc[q]
BY DEF Shapes

\* A process that is not idle is counted.
LEMMA SomePending ==
  ASSUME Counts, NEW p \in Pending
  PROVE  Cardinality(Pending) \in Nat \ {0}
BY FS_EmptySet, FS_CardinalityType DEF Counts

\* Fewer processes under way and none that knows more: the counts stay.
LEMMA CountsKept ==
  ASSUME Shapes, Counts, Busy' \subseteq Busy, Pending' \subseteq Pending,
         acknowledged' = acknowledged, edits' = edits, past' \subseteq past,
         \A q \in Procs : proc'[q].step \in Editing =>
           proc'[q].seen \in past \/ (proc[q].step \in Editing /\ proc'[q].seen = proc[q].seen)
  PROVE  Counts'
<1>1. PICK b, c : b = Busy' /\ c = Pending'
  OBVIOUS
<1>2. /\ IsFiniteSet(b) /\ Cardinality(b) <= Cardinality(Busy)
      /\ IsFiniteSet(c) /\ Cardinality(c) <= Cardinality(Pending)
  BY <1>1, FS_Subset DEF Counts
<1>3. /\ Cardinality(b) \in Nat /\ Cardinality(Busy) \in Nat
      /\ Cardinality(c) \in Nat /\ Cardinality(Pending) \in Nat
  BY <1>2, FS_CardinalityType DEF Counts
<1>4. edits \in Nat /\ acknowledged \in Nat /\ \A x \in past : x \in Nat
  BY DEF Shapes
<1>5. acknowledged + Cardinality(b) <= edits
  BY <1>2, <1>3, <1>4 DEF Counts
<1>6. ASSUME NEW x \in past PROVE x + Cardinality(c) <= edits
  BY <1>2, <1>3, <1>4 DEF Counts
<1>7. ASSUME NEW q \in Procs, proc'[q].step \in Editing
      PROVE  proc'[q].seen + Cardinality(c) <= edits
  <2>1. CASE proc'[q].seen \in past
    BY <1>6, <2>1
  <2>2. CASE proc[q].step \in Editing /\ proc'[q].seen = proc[q].seen
    <3>1. proc[q].seen \in Nat /\ proc[q].seen + Cardinality(Pending) <= edits
      BY <2>2, InShapes DEF Counts
    <3> QED
      BY <1>2, <1>3, <1>4, <2>2, <3>1
  <2> QED
    BY <1>7, <2>1, <2>2
<1>8. /\ IsFiniteSet(Busy') /\ IsFiniteSet(Pending')
      /\ acknowledged' + Cardinality(Busy') <= edits'
      /\ \A x \in past' : x + Cardinality(Pending') <= edits'
      /\ \A q \in Procs : proc'[q].step \in Editing => proc'[q].seen + Cardinality(Pending') <= edits'
  BY <1>1, <1>2, <1>5, <1>6, <1>7
<1> QED
  BY <1>8 DEF Counts

\* A step that keeps or drops the lock.
LEMMA LocksKept ==
  ASSUME Shapes, Locks, NEW p \in Procs, NEW r \in Proc, proc' = [proc EXCEPT ![p] = r],
         deleted' = deleted,
         \/ /\ holders' = holders /\ proc[p].step \in Holding /\ r.step \in Holding
            /\ r.lock = proc[p].lock
         \/ /\ holders' = holders /\ proc[p].step \notin Holding /\ r.step \notin Holding
            /\ r.step = "take" => r.lock \in 1..deleted + 1
         \/ holders' = {h \in holders : h[1] # p} /\ r.step = "idle"
  PROVE  Locks'
<1>1. /\ proc'[p] = r /\ \A q \in Procs : q # p => proc'[q] = proc[q]
  BY OneMoves
<1>2. ASSUME NEW q \in Procs, proc'[q].step \in Holding \cup {"take"}
      PROVE  proc'[q].lock \in 1..deleted + 1
  BY <1>1, <1>2 DEF Locks, Holding
<1>3. ASSUME NEW q \in Procs, NEW f \in Nat
      PROVE  <<q, f>> \in holders' <=> proc'[q].step \in Holding /\ proc'[q].lock = f
  <2>1. <<q, f>> \in holders <=> proc[q].step \in Holding /\ proc[q].lock = f
    BY DEF Locks
  <2>2. CASE q = p
    BY <1>1, <2>1, <2>2 DEF Holding
  <2>3. CASE q # p
    BY <1>1, <2>1, <2>3
  <2> QED
    BY <2>2, <2>3
<1>4. ASSUME NEW q \in Procs, NEW u \in Procs, proc'[q].step \in Holding,
             proc'[u].step \in Holding, proc'[q].lock = proc'[u].lock
      PROVE  q = u
  BY <1>1, <1>4 DEF Locks, Holding
<1>5. /\ \A q \in Procs : proc'[q].step \in Holding \cup {"take"} => proc'[q].lock \in 1..deleted' + 1
      /\ \A q \in Procs, f \in Nat :
           <<q, f>> \in holders' <=> proc'[q].step \in Holding /\ proc'[q].lock = f
      /\ \A q, u \in Procs : proc'[q].step \in Holding /\ proc'[u].step \in Holding
                               /\ proc'[q].lock = proc'[u].lock => q = u
  BY <1>2, <1>3, <1>4
<1> QED
  BY <1>5 DEF Locks

\* With one lock file there is one holder.
LEMMA OneHolder ==
  ASSUME Shapes, Locks, deleted = 0, NEW p \in Procs, NEW q \in Procs,
         proc[p].step \in Holding, proc[q].step \in Holding
  PROVE  p = q
<1>1. proc[p].lock \in 1..0 + 1 /\ proc[q].lock \in 1..0 + 1
  BY DEF Locks
<1>2. proc[p].lock = 1 /\ proc[q].lock = 1
  BY <1>1
<1> QED
  BY <1>2 DEF Locks

\* The process of a step that is over, or is refused, is idle.
LEMMA IdleProc ==
  ASSUME Attempts \in Nat \ {0}
  PROVE  NoProc \in Proc /\ NoProc.step = "idle"
BY DEF NoProc, Proc, Steps

\* A process gives up what it has, and perhaps its temporary file.
LEMMA GivesUp ==
  ASSUME IInv, NEW p \in Procs, Release(p), Attempts \in Nat \ {0}, MaxEdits \in Nat,
         \/ temporary' = temporary \/ temporary' = [temporary EXCEPT ![p] = Absent],
         lockFile' = lockFile, deleted' = deleted, edits' = edits, dest' = dest, past' = past,
         acknowledged' = acknowledged
  PROVE  IInv'
<1>1. PICK r : r = NoProc
  OBVIOUS
<1>2. /\ proc' = [proc EXCEPT ![p] = r] /\ holders' = {h \in holders : h[1] # p}
      /\ r \in Proc /\ r.step = "idle"
  BY <1>1, IdleProc DEF Release
<1>3. /\ proc' \in [Procs -> Proc] /\ proc'[p] = r
      /\ \A q \in Procs : q # p => proc'[q] = proc[q]
  BY <1>2, OneMoves DEF IInv
<1>4. \A q \in Procs : q # p => temporary'[q] = temporary[q]
  BY DEF IInv, Shapes
<1>5. Shapes'
  <2>1. Absent \in Temporary
    BY DEF Absent, Temporary, Contents
  <2>2. temporary' \in [Procs -> Temporary]
    BY <2>1 DEF IInv, Shapes
  <2> QED
    BY <1>2, <1>3, <2>2 DEF IInv, Shapes
<1>6. Locks'
  BY <1>2, LocksKept DEF IInv
<1>7. Counts'
  <2>1. Busy' \subseteq Busy /\ Pending' \subseteq Pending
    BY <1>2, <1>3 DEF Busy, Pending
  <2>2. \A q \in Procs : proc'[q].step \in Editing =>
          proc[q].step \in Editing /\ proc'[q].seen = proc[q].seen
    BY <1>2, <1>3 DEF Editing
  <2> QED
    BY <2>1, <2>2, CountsKept DEF IInv
<1>8. Written'
  <2>1. \A q \in Procs : proc'[q].step \in {"sync", "rename"} => q # p
    BY <1>2, <1>3
  <2> QED
    BY <1>3, <1>4, <2>1 DEF IInv, Written
<1>9. Current'
  <2>1. \A q \in Procs : proc'[q].step \in Editing \cup {"directory"} => q # p
    BY <1>2, <1>3 DEF Editing
  <2> QED
    BY <1>3, <2>1 DEF IInv, Current
<1> QED
  BY <1>5, <1>6, <1>7, <1>8, <1>9 DEF IInv

\* An edit begins.
LEMMA BeginStep ==
  ASSUME IInv, NEW p \in Procs, Begin(p), MaxEdits \in Nat
  PROVE  IInv'
<1>1. PICK r : r = [proc[p] EXCEPT !.step = "open"]
  OBVIOUS
<1>2. /\ proc[p].step = "idle" /\ proc' = [proc EXCEPT ![p] = r] /\ edits < MaxEdits
      /\ edits' = edits + 1 /\ lockFile' = lockFile /\ holders' = holders /\ dest' = dest
      /\ past' = past /\ temporary' = temporary /\ acknowledged' = acknowledged
      /\ deleted' = deleted
  BY <1>1 DEF Begin, At, Goto
<1>3. r \in Proc /\ r.step = "open"
  BY <1>1, InShapes DEF IInv, Proc, Steps
<1>4. /\ proc' \in [Procs -> Proc] /\ proc'[p] = r
      /\ \A q \in Procs : q # p => proc'[q] = proc[q]
  BY <1>2, <1>3, OneMoves DEF IInv
<1>5. Shapes'
  <2>1. edits' \in 0..MaxEdits
    BY <1>2 DEF IInv, Shapes
  <2> QED
    BY <1>2, <1>4, <2>1 DEF IInv, Shapes
<1>6. Locks'
  BY <1>2, <1>3, LocksKept DEF IInv, Holding
<1>7. Counts'
  <2>1. PICK b, c : b = Busy /\ c = Pending
    OBVIOUS
  <2>2. Busy' = b \cup {p} /\ Pending' = c \cup {p} /\ p \notin b /\ p \notin c
    BY <1>2, <1>3, <1>4, <2>1 DEF Busy, Pending
  <2>3. IsFiniteSet(b) /\ IsFiniteSet(c)
    BY <2>1 DEF IInv, Counts
  <2>4. /\ IsFiniteSet(b \cup {p}) /\ Cardinality(b \cup {p}) = Cardinality(b) + 1
        /\ IsFiniteSet(c \cup {p}) /\ Cardinality(c \cup {p}) = Cardinality(c) + 1
        /\ Cardinality(b) \in Nat /\ Cardinality(c) \in Nat
    BY <2>2, <2>3, FS_AddElement, FS_CardinalityType
  <2>5. /\ acknowledged + Cardinality(b) <= edits /\ acknowledged \in Nat /\ edits \in Nat
        /\ \A x \in past : x \in Nat /\ x + Cardinality(c) <= edits
        /\ \A q \in Procs : proc[q].step \in Editing =>
             proc[q].seen \in Nat /\ proc[q].seen + Cardinality(c) <= edits
    BY <2>1, InShapes DEF IInv, Counts, Shapes
  <2>6. /\ acknowledged + (Cardinality(b) + 1) <= edits + 1
        /\ \A x \in past : x + (Cardinality(c) + 1) <= edits + 1
    BY <2>4, <2>5
  <2>7. ASSUME NEW q \in Procs, proc'[q].step \in Editing
        PROVE  proc'[q].seen + (Cardinality(c) + 1) <= edits + 1
    <3>1. q # p /\ proc'[q] = proc[q]
      BY <1>3, <1>4, <2>7 DEF Editing
    <3> QED
      BY <2>4, <2>5, <2>7, <3>1
  <2> QED
    BY <1>2, <2>2, <2>4, <2>6, <2>7 DEF Counts
<1>8. Written' /\ Current'
  <2>1. \A q \in Procs : proc'[q].step \in Editing \cup {"directory"} => q # p
    BY <1>3, <1>4 DEF Editing
  <2>2. Written'
    BY <1>2, <1>4, <2>1 DEF IInv, Written, Editing
  <2>3. Current'
    BY <1>2, <1>4, <2>1 DEF IInv, Current
  <2> QED
    BY <2>2, <2>3
<1> QED
  BY <1>5, <1>6, <1>7, <1>8 DEF IInv

\* The lock file is opened, or its directories have changed too often.
LEMMA OpenStep ==
  ASSUME IInv, NEW p \in Procs, OpenLock(p), Attempts \in Nat \ {0}, MaxHarm \in Nat
  PROVE  IInv'
<1>1. /\ proc[p].step = "open" /\ holders' = holders /\ dest' = dest /\ edits' = edits
      /\ past' = past /\ temporary' = temporary /\ acknowledged' = acknowledged
      /\ deleted' = deleted
  BY DEF OpenLock, At
<1>2. PICK r \in Proc : /\ proc' = [proc EXCEPT ![p] = r] /\ r.step \in {"open", "take", "idle"}
                        /\ r.step = "take" => r.lock \in 1..deleted + 1
                        /\ lockFile' \in 0..deleted + 1
  <2>0. lockFile \in 0..deleted + 1 /\ deleted \in Nat /\ proc[p] \in Proc
    BY InShapes DEF IInv, Shapes
  <2>1. CASE /\ lockFile' = IF lockFile = 0 THEN deleted + 1 ELSE lockFile
             /\ proc' = [proc EXCEPT ![p].step = "take", ![p].lock = lockFile', ![p].tries = 0]
    <3>1. lockFile' \in 1..deleted + 1 /\ lockFile' \in 0..deleted + 1
      BY <2>0, <2>1
    <3>2. PICK f, x : f = lockFile' /\ x = [proc[p] EXCEPT !.step = "take", !.lock = f, !.tries = 0]
      OBVIOUS
    <3>3. x \in Proc /\ x.step = "take" /\ x.lock = f
      <4>1. f \in Nat /\ 0 \in 0..Attempts - 1 /\ "take" \in Steps
        BY <2>0, <3>1, <3>2 DEF Steps
      <4> QED
        BY <2>0, <3>2, <4>1 DEF Proc
    <3>4. proc' = [proc EXCEPT ![p] = x]
      BY <2>1, <3>2
    <3> QED
      BY <3>1, <3>2, <3>3, <3>4
  <2>2. CASE lockFile' = lockFile /\ proc' = [proc EXCEPT ![p].tries = @ + 1]
                 /\ proc[p].tries + 1 < Attempts
    <3>1. PICK x : x = [proc[p] EXCEPT !.tries = @ + 1]
      OBVIOUS
    <3>2. x \in Proc /\ x.step = "open"
      BY <1>1, <2>0, <2>2, <3>1 DEF Proc, Steps
    <3>3. proc' = [proc EXCEPT ![p] = x]
      BY <2>2, <3>1
    <3> QED
      BY <2>0, <2>2, <3>2, <3>3
  <2>3. CASE lockFile' = lockFile /\ proc' = [proc EXCEPT ![p] = NoProc]
    BY <2>0, <2>3, IdleProc
  <2> QED
    BY <2>1, <2>2, <2>3 DEF OpenLock
<1>3. /\ proc' \in [Procs -> Proc] /\ proc'[p] = r
      /\ \A q \in Procs : q # p => proc'[q] = proc[q]
  BY <1>2, OneMoves DEF IInv
<1>4. Shapes'
  BY <1>1, <1>2, <1>3 DEF IInv, Shapes
<1>5. Locks'
  BY <1>1, <1>2, LocksKept DEF IInv, Holding
<1>6. Counts'
  <2>1. Busy' \subseteq Busy /\ Pending' \subseteq Pending
    BY <1>1, <1>2, <1>3 DEF Busy, Pending
  <2>2. \A q \in Procs : proc'[q].step \in Editing =>
          proc[q].step \in Editing /\ proc'[q].seen = proc[q].seen
    BY <1>2, <1>3 DEF Editing
  <2> QED
    BY <1>1, <2>1, <2>2, CountsKept DEF IInv
<1>7. Written' /\ Current'
  <2>1. \A q \in Procs : proc'[q].step \in Editing \cup {"directory"} => q # p
    BY <1>2, <1>3 DEF Editing
  <2>2. Written'
    BY <1>1, <1>3, <2>1 DEF IInv, Written, Editing
  <2>3. Current'
    BY <1>1, <1>3, <2>1 DEF IInv, Current
  <2> QED
    BY <2>2, <2>3
<1> QED
  BY <1>4, <1>5, <1>6, <1>7 DEF IInv

\* The lock is taken: nobody else held that file.
LEMMA AcquireStep ==
  ASSUME IInv, NEW p \in Procs, Acquire(p)
  PROVE  IInv'
<1>1. PICK r : r = [proc[p] EXCEPT !.step = "read"]
  OBVIOUS
<1>2. /\ proc[p].step = "take" /\ (\A q \in Procs : <<q, proc[p].lock>> \notin holders)
      /\ holders' = holders \cup {<<p, proc[p].lock>>} /\ proc' = [proc EXCEPT ![p] = r]
      /\ lockFile' = lockFile /\ dest' = dest /\ past' = past /\ temporary' = temporary
      /\ acknowledged' = acknowledged /\ edits' = edits /\ deleted' = deleted
  BY <1>1 DEF Acquire, Take, At, Goto
<1>3. r \in Proc /\ r.step = "read" /\ r.lock = proc[p].lock /\ proc[p].lock \in Nat
  BY <1>1, InShapes DEF IInv, Proc, Steps, Holding
<1>4. /\ proc' \in [Procs -> Proc] /\ proc'[p] = r
      /\ \A q \in Procs : q # p => proc'[q] = proc[q]
  BY <1>2, <1>3, OneMoves DEF IInv
<1>5. Shapes'
  BY <1>2, <1>3, <1>4 DEF IInv, Shapes
<1>6. Locks'
  <2>1. \A q \in Procs : proc[q].step \in Holding => proc[q].lock # proc[p].lock
    BY <1>2, <1>3 DEF IInv, Locks
  <2>2. \A q \in Procs : proc'[q].step \in Holding \cup {"take"} => proc'[q].lock \in 1..deleted + 1
    BY <1>2, <1>3, <1>4 DEF IInv, Locks, Holding
  <2>3. ASSUME NEW q \in Procs, NEW f \in Nat
        PROVE  <<q, f>> \in holders' <=> proc'[q].step \in Holding /\ proc'[q].lock = f
    <3>1. <<q, f>> \in holders <=> proc[q].step \in Holding /\ proc[q].lock = f
      BY DEF IInv, Locks
    <3>2. CASE q = p
      BY <1>2, <1>3, <1>4, <3>1, <3>2 DEF Holding
    <3>3. CASE q # p
      BY <1>2, <1>4, <3>1, <3>3
    <3> QED
      BY <3>2, <3>3
  <2>4. ASSUME NEW q \in Procs, NEW u \in Procs, proc'[q].step \in Holding,
               proc'[u].step \in Holding, proc'[q].lock = proc'[u].lock
        PROVE  q = u
    BY <1>3, <1>4, <2>1, <2>4 DEF IInv, Locks
  <2>5. /\ \A q \in Procs : proc'[q].step \in Holding \cup {"take"} => proc'[q].lock \in 1..deleted' + 1
        /\ \A q \in Procs, f \in Nat :
             <<q, f>> \in holders' <=> proc'[q].step \in Holding /\ proc'[q].lock = f
        /\ \A q, u \in Procs : proc'[q].step \in Holding /\ proc'[u].step \in Holding
                                 /\ proc'[q].lock = proc'[u].lock => q = u
    BY <1>2, <2>2, <2>3, <2>4
  <2> QED
    BY <2>5 DEF Locks
<1>7. Counts'
  <2>1. Busy' \subseteq Busy /\ Pending' \subseteq Pending
    BY <1>2, <1>3, <1>4 DEF Busy, Pending
  <2>2. \A q \in Procs : proc'[q].step \in Editing =>
          proc[q].step \in Editing /\ proc'[q].seen = proc[q].seen
    BY <1>3, <1>4 DEF Editing
  <2> QED
    BY <1>2, <2>1, <2>2, CountsKept DEF IInv
<1>8. Written' /\ Current'
  <2>1. \A q \in Procs : proc'[q].step \in Editing \cup {"directory"} => q # p
    BY <1>3, <1>4 DEF Editing
  <2>2. Written'
    BY <1>2, <1>4, <2>1 DEF IInv, Written, Editing
  <2>3. Current'
    BY <1>2, <1>4, <2>1 DEF IInv, Current
  <2> QED
    BY <2>2, <2>3
<1> QED
  BY <1>5, <1>6, <1>7, <1>8 DEF IInv

\* A holder goes on to its next step: what the step needs is there, and the
\* file is as it was.
LEMMA HolderGoesOn ==
  ASSUME IInv, NEW p \in Procs, NEW r \in Proc, NEW x \in Temporary,
         proc[p].step \in Holding \ {"directory"}, proc' = [proc EXCEPT ![p] = r],
         r.step \in Editing, r.lock = proc[p].lock,
         \/ r.seen = dest
         \/ r.seen = proc[p].seen /\ proc[p].step \in Editing,
         temporary' = [temporary EXCEPT ![p] = x],
         r.step \in {"sync", "rename"} => x.data = r.seen + 1,
         r.step = "rename" => x.synced,
         holders' = holders, lockFile' = lockFile, dest' = dest, past' = past,
         acknowledged' = acknowledged, edits' = edits, deleted' = deleted
  PROVE  IInv'
<1>1. /\ proc' \in [Procs -> Proc] /\ proc'[p] = r
      /\ \A q \in Procs : q # p => proc'[q] = proc[q]
  BY OneMoves DEF IInv
<1>2. /\ temporary' \in [Procs -> Temporary] /\ temporary'[p] = x
      /\ \A q \in Procs : q # p => temporary'[q] = temporary[q]
  BY DEF IInv, Shapes
<1>3. Shapes'
  BY <1>1, <1>2 DEF IInv, Shapes
<1>4. Locks'
  BY LocksKept DEF IInv, Holding, Editing
<1>5. Counts'
  <2>1. Busy' \subseteq Busy /\ Pending' \subseteq Pending
    BY <1>1 DEF Busy, Pending, Holding
  <2>2. dest \in past
    BY DEF IInv, Shapes
  <2>3. \A q \in Procs : proc'[q].step \in Editing =>
          proc'[q].seen \in past \/ (proc[q].step \in Editing /\ proc'[q].seen = proc[q].seen)
    BY <1>1, <2>2
  <2> QED
    BY <2>1, <2>3, CountsKept DEF IInv
<1>6. Written'
  <2>1. ASSUME NEW q \in Procs
        PROVE  /\ proc'[q].step \in {"sync", "rename"} => temporary'[q].data = proc'[q].seen + 1
               /\ proc'[q].step = "rename" => temporary'[q].synced
    <3>1. CASE q = p
      BY <1>1, <1>2, <3>1
    <3>2. CASE q # p
      BY <1>1, <1>2, <3>2 DEF IInv, Written
    <3> QED
      BY <3>1, <3>2
  <2> QED
    BY <2>1 DEF Written
<1>7. Current'
  <2> SUFFICES ASSUME deleted = 0
               PROVE  /\ \A y \in past : y >= acknowledged
                      /\ \A q \in Procs :
                           /\ proc'[q].step \in Editing => proc'[q].seen >= acknowledged
                           /\ proc'[q].step = "directory" => dest >= acknowledged + 1
    BY DEF Current
  <2>1. /\ \A y \in past : y >= acknowledged
        /\ \A q \in Procs : /\ proc[q].step \in Editing => proc[q].seen >= acknowledged
                            /\ proc[q].step = "directory" => dest >= acknowledged + 1
        /\ dest \in past
    BY DEF IInv, Current, Shapes
  <2> QED
    BY <1>1, <2>1 DEF Editing
<1> QED
  BY <1>3, <1>4, <1>5, <1>6, <1>7 DEF IInv

\* What is read and written is an edit within the bound.
LEMMA NextContent ==
  ASSUME IInv, NEW p \in Procs, proc[p].step \in Editing, MaxEdits \in Nat
  PROVE  proc[p].seen + 1 \in 0..MaxEdits /\ proc[p].seen + 1 \in Contents
<1>1. p \in Pending
  BY DEF Pending, Editing
<1>2. Cardinality(Pending) \in Nat \ {0}
  BY <1>1, SomePending DEF IInv
<1>3. proc[p].seen \in Nat /\ proc[p].seen + Cardinality(Pending) <= edits /\ edits \in 0..MaxEdits
  BY InShapes DEF IInv, Counts, Shapes
<1> QED
  BY <1>2, <1>3 DEF Contents

\* Reading, and the steps of the atomic file up to the rename; each of them may
\* fail instead and give up.
LEMMA EditStep ==
  ASSUME IInv, NEW p \in Procs, Read(p) \/ Create(p) \/ Write(p) \/ Sync(p),
         Attempts \in Nat \ {0}, MaxEdits \in Nat
  PROVE  IInv'
<1>1. /\ lockFile' = lockFile /\ dest' = dest /\ past' = past /\ acknowledged' = acknowledged
      /\ edits' = edits /\ deleted' = deleted
  BY DEF Read, Create, Write, Sync, Rest
<1>2. proc[p] \in Proc /\ temporary[p] \in Temporary /\ temporary \in [Procs -> Temporary]
      /\ proc \in [Procs -> Proc] /\ dest \in Nat
  BY InShapes DEF IInv, Shapes
<1>3. CASE Read(p)
  <2>1. PICK r, x : r = [proc[p] EXCEPT !.step = "create", !.seen = dest] /\ x = temporary[p]
    OBVIOUS
  <2>2. /\ proc[p].step = "read" /\ proc' = [proc EXCEPT ![p] = r] /\ holders' = holders
        /\ temporary' = [temporary EXCEPT ![p] = x]
    BY <1>2, <1>3, <2>1 DEF Read, At
  <2>3. r \in Proc /\ r.step = "create" /\ r.seen = dest /\ r.lock = proc[p].lock /\ x \in Temporary
    BY <1>2, <2>1 DEF Proc, Steps, Holding
  <2> QED
    BY <1>1, <2>2, <2>3, HolderGoesOn DEF Holding, Editing
<1>4. CASE Create(p)
  <2>1. CASE temporary[p] # Absent
    BY <1>1, <1>4, <2>1, GivesUp DEF Create
  <2>2. CASE temporary[p] = Absent
    <3>1. PICK r, x : r = [proc[p] EXCEPT !.step = "write"] /\ x = [data |-> 0, synced |-> FALSE]
      OBVIOUS
    <3>2. /\ proc[p].step = "create" /\ proc' = [proc EXCEPT ![p] = r] /\ holders' = holders
          /\ temporary' = [temporary EXCEPT ![p] = x]
      BY <1>4, <2>2, <3>1 DEF Create, At, Goto
    <3>3. /\ r \in Proc /\ r.step = "write" /\ r.seen = proc[p].seen /\ r.lock = proc[p].lock
          /\ x \in Temporary
      BY <1>2, <3>1 DEF Proc, Steps, Holding, Temporary, Contents
    <3> QED
      BY <1>1, <3>2, <3>3, HolderGoesOn DEF Holding, Editing
  <2> QED
    BY <2>1, <2>2
<1>5. CASE Write(p)
  <2>1. CASE Drop(p)
    BY <1>1, <2>1, GivesUp DEF Drop
  <2>2. CASE /\ temporary' = [temporary EXCEPT ![p].data = proc[p].seen + 1]
             /\ Goto(p, "sync") /\ holders' = holders
    <3>1. PICK r, x : /\ r = [proc[p] EXCEPT !.step = "sync"]
                      /\ x = [temporary[p] EXCEPT !.data = proc[p].seen + 1]
      OBVIOUS
    <3>2. /\ proc[p].step = "write" /\ proc' = [proc EXCEPT ![p] = r]
          /\ temporary' = [temporary EXCEPT ![p] = x]
      BY <1>5, <2>2, <3>1 DEF Write, At, Goto
    <3>3. proc[p].seen + 1 \in Contents
      BY <3>2, NextContent DEF Editing
    <3>4. /\ r \in Proc /\ r.step = "sync" /\ r.seen = proc[p].seen /\ r.lock = proc[p].lock
          /\ x \in Temporary /\ x.data = r.seen + 1
      BY <1>2, <3>1, <3>3 DEF Proc, Steps, Holding, Temporary
    <3> QED
      BY <1>1, <2>2, <3>2, <3>4, HolderGoesOn DEF Holding, Editing
  <2> QED
    BY <1>5, <2>1, <2>2 DEF Write
<1>6. CASE Sync(p)
  <2>1. CASE Drop(p)
    BY <1>1, <2>1, GivesUp DEF Drop
  <2>2. CASE Flushed(p) /\ Goto(p, "rename") /\ holders' = holders
    <3>1. PICK r, x : /\ r = [proc[p] EXCEPT !.step = "rename"]
                      /\ x = [temporary[p] EXCEPT !.synced = TRUE]
      OBVIOUS
    <3>2. /\ proc[p].step = "sync" /\ proc' = [proc EXCEPT ![p] = r]
          /\ temporary' = [temporary EXCEPT ![p] = x]
      BY <1>6, <2>2, <3>1 DEF Sync, At, Goto, Flushed
    <3>3. temporary[p].data = proc[p].seen + 1
      BY <3>2 DEF IInv, Written
    <3>4. /\ r \in Proc /\ r.step = "rename" /\ r.seen = proc[p].seen /\ r.lock = proc[p].lock
          /\ x \in Temporary /\ x.data = r.seen + 1 /\ x.synced
      BY <1>2, <3>1, <3>3 DEF Proc, Steps, Holding, Temporary
    <3> QED
      BY <1>1, <2>2, <3>2, <3>4, HolderGoesOn DEF Holding, Editing
  <2> QED
    BY <1>6, <2>1, <2>2 DEF Sync
<1> QED
  BY <1>3, <1>4, <1>5, <1>6

\* The file is replaced: it was read under this lock, and is on the disk.
LEMMA RenameStep ==
  ASSUME IInv, NEW p \in Procs, Rename(p), Attempts \in Nat \ {0}, MaxEdits \in Nat
  PROVE  IInv'
<1>1. /\ proc[p].step = "rename" /\ lockFile' = lockFile /\ acknowledged' = acknowledged
      /\ edits' = edits /\ deleted' = deleted
  BY DEF Rename, Rest, At
<1>2. CASE Drop(p) /\ dest' = dest /\ past' = past
  BY <1>1, <1>2, GivesUp DEF Drop
<1>3. CASE /\ dest' = temporary[p].data
           /\ past' = past \cup {dest', IF temporary[p].synced THEN dest' ELSE Torn}
           /\ temporary' = [temporary EXCEPT ![p] = Absent]
           /\ Goto(p, "directory") /\ holders' = holders
  <2>1. PICK r, new : r = [proc[p] EXCEPT !.step = "directory"] /\ new = proc[p].seen + 1
    OBVIOUS
  <2>2. temporary[p].data = new /\ temporary[p].synced
    BY <1>1, <2>1 DEF IInv, Written
  <2>3. dest' = new /\ past' = past \cup {new} /\ proc' = [proc EXCEPT ![p] = r]
    BY <1>3, <2>1, <2>2 DEF Goto
  <2>4. r \in Proc /\ r.step = "directory" /\ r.lock = proc[p].lock /\ proc[p].seen \in Nat
    BY <2>1, InShapes DEF IInv, Proc, Steps, Holding
  <2>5. /\ proc' \in [Procs -> Proc] /\ proc'[p] = r
        /\ \A q \in Procs : q # p => proc'[q] = proc[q]
    BY <2>3, <2>4, OneMoves DEF IInv
  <2>6. Shapes'
    <3>1. Absent \in Temporary
      BY DEF Absent, Temporary, Contents
    <3>2. temporary' \in [Procs -> Temporary]
      BY <1>3, <3>1 DEF IInv, Shapes
    <3>3. new \in Nat
      BY <2>1, <2>4
    <3> QED
      BY <1>1, <1>3, <2>3, <2>5, <3>2, <3>3 DEF IInv, Shapes
  <2>7. Locks'
    BY <1>1, <1>3, <2>3, <2>4, LocksKept DEF IInv, Holding
  <2>8. Counts'
    <3>1. PICK b, c : b = Busy /\ c = Pending
      OBVIOUS
    <3>2. Busy' = b /\ Pending' = c \ {p} /\ p \in c
      BY <1>1, <2>4, <2>5, <3>1 DEF Busy, Pending
    <3>3. IsFiniteSet(b) /\ IsFiniteSet(c)
      BY <3>1 DEF IInv, Counts
    <3>4. /\ IsFiniteSet(c \ {p}) /\ Cardinality(c \ {p}) = Cardinality(c) - 1
          /\ Cardinality(c) \in Nat
      BY <3>2, <3>3, FS_RemoveElement, FS_CardinalityType
    <3>5. /\ acknowledged + Cardinality(b) <= edits /\ edits \in Nat
          /\ \A x \in past : x \in Nat /\ x + Cardinality(c) <= edits
          /\ \A q \in Procs : proc[q].step \in Editing =>
               proc[q].seen \in Nat /\ proc[q].seen + Cardinality(c) <= edits
      BY <3>1, InShapes DEF IInv, Counts, Shapes
    <3>6. ASSUME NEW x \in past \cup {new} PROVE x + (Cardinality(c) - 1) <= edits
      <4>1. CASE x \in past
        BY <3>4, <3>5, <4>1
      <4>2. CASE x = new
        <5>1. proc[p].seen + Cardinality(c) <= edits
          BY <1>1, <3>5 DEF Editing
        <5> QED
          BY <2>1, <2>4, <3>4, <3>5, <4>2, <5>1
      <4> QED
        BY <3>6, <4>1, <4>2
    <3>7. ASSUME NEW q \in Procs, proc'[q].step \in Editing
          PROVE  proc'[q].seen + (Cardinality(c) - 1) <= edits
      <4>1. q # p /\ proc'[q] = proc[q]
        BY <2>4, <2>5, <3>7 DEF Editing
      <4> QED
        BY <3>4, <3>5, <3>7, <4>1
    <3> QED
      BY <1>1, <2>3, <3>2, <3>3, <3>4, <3>5, <3>6, <3>7 DEF Counts
  <2>9. Written'
    <3>1. \A q \in Procs : proc'[q].step \in {"sync", "rename"} => q # p
      BY <2>4, <2>5
    <3>2. \A q \in Procs : q # p => temporary'[q] = temporary[q]
      BY <1>3 DEF IInv, Shapes
    <3> QED
      BY <2>5, <3>1, <3>2 DEF IInv, Written
  <2>10. Current'
    <3> SUFFICES ASSUME deleted = 0
                 PROVE  /\ \A y \in past' : y >= acknowledged
                        /\ \A q \in Procs :
                             /\ proc'[q].step \in Editing => proc'[q].seen >= acknowledged
                             /\ proc'[q].step = "directory" => dest' >= acknowledged + 1
      BY <1>1 DEF Current
    <3>1. /\ \A y \in past : y >= acknowledged
          /\ \A q \in Procs : proc[q].step \in Editing => proc[q].seen >= acknowledged
          /\ acknowledged \in Nat
      BY DEF IInv, Current, Shapes
    <3>2. proc[p].seen >= acknowledged
      BY <1>1, <3>1 DEF Editing
    <3>3. new >= acknowledged + 1 /\ new >= acknowledged
      BY <2>1, <2>4, <3>1, <3>2
    <3> QED
      BY <2>3, <2>4, <2>5, <3>1, <3>3 DEF Editing
  <2> QED
    BY <2>6, <2>7, <2>8, <2>9, <2>10 DEF IInv
<1> QED
  BY <1>2, <1>3 DEF Rename

\* The directory is synced and the edit acknowledged, or it fails.
LEMMA DirectoryStep ==
  ASSUME IInv, NEW p \in Procs, SyncDirectory(p), Attempts \in Nat \ {0}, MaxEdits \in Nat
  PROVE  IInv'
<1>1. /\ proc[p].step = "directory" /\ Release(p) /\ lockFile' = lockFile /\ edits' = edits
      /\ deleted' = deleted /\ dest' = dest /\ temporary' = temporary
  BY DEF SyncDirectory, Rest, At
<1>2. CASE past' = past /\ acknowledged' = acknowledged
  BY <1>1, <1>2, GivesUp
<1>3. CASE past' = {x \in past : x = dest \/ x = Torn} /\ acknowledged' = acknowledged + 1
  <2>1. PICK r : r = NoProc
    OBVIOUS
  <2>2. /\ proc' = [proc EXCEPT ![p] = r] /\ holders' = {h \in holders : h[1] # p}
        /\ r \in Proc /\ r.step = "idle"
    BY <1>1, <2>1, IdleProc DEF Release
  <2>3. /\ proc' \in [Procs -> Proc] /\ proc'[p] = r
        /\ \A q \in Procs : q # p => proc'[q] = proc[q]
    BY <2>2, OneMoves DEF IInv
  <2>4. past' = {dest} /\ dest \in past /\ dest \in Nat /\ acknowledged \in Nat /\ edits \in Nat
    BY <1>3 DEF IInv, Shapes, Torn
  <2>5. Shapes'
    BY <1>1, <1>3, <2>2, <2>3, <2>4 DEF IInv, Shapes
  <2>6. Locks'
    BY <1>1, <2>2, LocksKept DEF IInv
  <2>7. Counts'
    <3>1. PICK b, c : b = Busy /\ c = Pending
      OBVIOUS
    <3>2. Busy' = b \ {p} /\ Pending' = c /\ p \in b
      BY <1>1, <2>2, <2>3, <3>1 DEF Busy, Pending
    <3>3. IsFiniteSet(b) /\ IsFiniteSet(c)
      BY <3>1 DEF IInv, Counts
    <3>4. /\ IsFiniteSet(b \ {p}) /\ Cardinality(b \ {p}) = Cardinality(b) - 1
          /\ Cardinality(b) \in Nat
      BY <3>2, <3>3, FS_RemoveElement, FS_CardinalityType
    <3>5. acknowledged + Cardinality(b) <= edits /\ \A x \in past : x + Cardinality(c) <= edits
      BY <3>1 DEF IInv, Counts
    <3>6. acknowledged + 1 + (Cardinality(b) - 1) <= edits
      BY <2>4, <3>4, <3>5
    <3>7. ASSUME NEW q \in Procs, proc'[q].step \in Editing
          PROVE  proc'[q].seen + Cardinality(c) <= edits
      <4>1. q # p /\ proc'[q] = proc[q]
        BY <2>2, <2>3, <3>7 DEF Editing
      <4> QED
        BY <3>1, <3>7, <4>1 DEF IInv, Counts
    <3> QED
      BY <1>1, <1>3, <2>4, <3>2, <3>3, <3>4, <3>5, <3>6, <3>7 DEF Counts
  <2>8. Written'
    <3>1. \A q \in Procs : proc'[q].step \in {"sync", "rename"} => q # p
      BY <2>2, <2>3
    <3> QED
      BY <1>1, <2>3, <3>1 DEF IInv, Written
  <2>9. Current'
    <3> SUFFICES ASSUME deleted = 0
                 PROVE  /\ dest >= acknowledged + 1
                        /\ \A q \in Procs : proc'[q].step \notin Editing \cup {"directory"}
      BY <1>1, <1>3, <2>4 DEF Current
    <3>1. dest >= acknowledged + 1
      BY <1>1 DEF IInv, Current
    <3>2. ASSUME NEW q \in Procs, proc'[q].step \in Editing \cup {"directory"} PROVE FALSE
      <4>1. q # p /\ proc[q].step \in Holding
        BY <2>2, <2>3, <3>2 DEF Editing, Holding
      <4>2. proc[p].step \in Holding
        BY <1>1 DEF Holding
      <4> QED
        BY <4>1, <4>2, OneHolder DEF IInv
    <3> QED
      BY <3>1, <3>2
  <2> QED
    BY <2>5, <2>6, <2>7, <2>8, <2>9 DEF IInv
<1> QED
  BY <1>2, <1>3 DEF SyncDirectory

\* The machine loses power: nobody is under way.
LEMMA PowerStep ==
  ASSUME IInv, PowerFails, Attempts \in Nat \ {0}, MaxEdits \in Nat
  PROVE  IInv'
<1>1. /\ dest' \in past /\ past' = {dest'} /\ temporary' \in [Procs -> {Absent}] \cup {temporary}
      /\ holders' = {} /\ proc' = [p \in Procs |-> NoProc] /\ lockFile' = lockFile
      /\ acknowledged' = acknowledged /\ edits' = edits /\ deleted' = deleted
  BY DEF PowerFails
<1>2. \A p \in Procs : proc'[p] = NoProc /\ proc'[p].step = "idle" /\ NoProc \in Proc
  BY <1>1, IdleProc
<1>3. Shapes'
  <2>1. Absent \in Temporary
    BY DEF Absent, Temporary, Contents
  <2>2. temporary' \in [Procs -> Temporary]
    BY <1>1, <2>1 DEF IInv, Shapes
  <2> QED
    BY <1>1, <1>2, <2>2 DEF IInv, Shapes
<1>4. Locks'
  BY <1>1, <1>2 DEF Locks, Holding
<1>5. Counts'
  <2>1. Busy' = {} /\ Pending' = {}
    BY <1>2 DEF Busy, Pending
  <2>2. IsFiniteSet({}) /\ Cardinality({}) = 0
    BY FS_EmptySet
  <2>3. dest' \in Nat /\ acknowledged \in Nat /\ edits \in Nat
    BY <1>1 DEF IInv, Shapes
  <2>4. PICK d, e, k : d = dest' /\ e = edits /\ k = acknowledged
    OBVIOUS
  <2>5. \A p \in Procs : proc'[p].step \notin Editing
    BY <1>2 DEF Editing
  <2>6. k + 0 <= e /\ d + 0 <= e
    <3>1. PICK b, c : b = Cardinality(Busy) /\ c = Cardinality(Pending)
      OBVIOUS
    <3>2. b \in Nat /\ c \in Nat /\ k + b <= e /\ d + c <= e
      BY <1>1, <2>4, <3>1, FS_CardinalityType DEF IInv, Counts
    <3>3. d \in Nat /\ e \in Nat /\ k \in Nat
      BY <2>3, <2>4
    <3> QED
      BY <3>2, <3>3
  <2>7. acknowledged + 0 <= edits /\ dest' + 0 <= edits
    BY <2>4, <2>6
  <2> QED
    BY <1>1, <2>1, <2>2, <2>5, <2>7 DEF Counts
<1>6. Written'
  BY <1>2 DEF Written
<1>7. Current'
  BY <1>1, <1>2 DEF IInv, Current, Editing
<1> QED
  BY <1>3, <1>4, <1>5, <1>6, <1>7 DEF IInv

\* The lock file is deleted, and another one made in its place later.
LEMMA DeleteStep ==
  ASSUME IInv, DeleteLock, MaxHarm \in Nat
  PROVE  IInv'
<1>1. /\ deleted < MaxHarm /\ deleted' = deleted + 1 /\ lockFile' = 0 /\ holders' = holders
      /\ dest' = dest /\ past' = past /\ temporary' = temporary /\ proc' = proc
      /\ acknowledged' = acknowledged /\ edits' = edits
  BY DEF DeleteLock
<1>2. deleted \in Nat /\ deleted' \in 0..MaxHarm /\ 0 \in 0..deleted' + 1 /\ deleted' # 0
  BY <1>1 DEF IInv, Shapes
<1>3. Shapes'
  BY <1>1, <1>2 DEF IInv, Shapes
<1>4. Locks'
  <2>1. \A f \in 1..deleted + 1 : f \in 1..deleted' + 1
    BY <1>1, <1>2
  <2> QED
    BY <1>1, <2>1 DEF IInv, Locks
<1>5. Counts' /\ Written' /\ Current'
  BY <1>1, <1>2 DEF IInv, Counts, Written, Current, Busy, Pending
<1> QED
  BY <1>3, <1>4, <1>5 DEF IInv

\* Whatever processes are killed, whenever the power fails, however often the
\* lock file is deleted, the invariant holds.
THEOREM Invariance ==
  ASSUME Attempts \in Nat \ {0}, MaxEdits \in Nat, MaxHarm \in Nat
  PROVE  Spec => []IInv
<1>1. Init => IInv
  <2> SUFFICES ASSUME Init PROVE IInv
    OBVIOUS
  <2>1. /\ lockFile = 0 /\ holders = {} /\ dest = 0 /\ past = {0}
        /\ temporary = [p \in Procs |-> Absent] /\ proc = [p \in Procs |-> NoProc]
        /\ acknowledged = 0 /\ edits = 0 /\ deleted = 0
    BY DEF Init
  <2>2. NoProc \in Proc /\ NoProc.step = "idle" /\ Absent \in Temporary
    BY IdleProc DEF Absent, Temporary, Contents
  <2>3. Shapes
    BY <2>1, <2>2 DEF Shapes
  <2>4. Locks
    BY <2>1, <2>2 DEF Locks, Holding
  <2>5. Counts
    <3>1. Busy = {} /\ Pending = {}
      BY <2>1, <2>2 DEF Busy, Pending
    <3>2. IsFiniteSet({}) /\ Cardinality({}) = 0
      BY FS_EmptySet
    <3>3. \A p \in Procs : proc[p].step \notin Editing
      BY <2>1, <2>2 DEF Editing
    <3> QED
      BY <2>1, <3>1, <3>2, <3>3 DEF Counts
  <2>6. Written /\ Current
    BY <2>1, <2>2 DEF Written, Current, Editing
  <2> QED
    BY <2>3, <2>4, <2>5, <2>6 DEF IInv
<1>2. IInv /\ [Next]_storageVars => IInv'
  <2> SUFFICES ASSUME IInv, [Next]_storageVars PROVE IInv'
    OBVIOUS
  <2>1. CASE PowerFails
    BY <2>1, PowerStep
  <2>2. CASE DeleteLock
    BY <2>2, DeleteStep
  <2>3. ASSUME NEW p \in Procs, Begin(p) PROVE IInv'
    BY <2>3, BeginStep
  <2>4. ASSUME NEW p \in Procs, OpenLock(p) PROVE IInv'
    BY <2>4, OpenStep
  <2>5. ASSUME NEW p \in Procs, Acquire(p) PROVE IInv'
    BY <2>5, AcquireStep
  <2>6. ASSUME NEW p \in Procs, Read(p) \/ Create(p) \/ Write(p) \/ Sync(p) PROVE IInv'
    BY <2>6, EditStep
  <2>7. ASSUME NEW p \in Procs, Rename(p) PROVE IInv'
    BY <2>7, RenameStep
  <2>8. ASSUME NEW p \in Procs, SyncDirectory(p) PROVE IInv'
    BY <2>8, DirectoryStep
  <2>9. ASSUME NEW p \in Procs, Kill(p) PROVE IInv'
    BY <2>9, GivesUp DEF Kill
  <2>10. CASE UNCHANGED storageVars
    BY <2>10 DEF storageVars, IInv, Shapes, Locks, Counts, Written, Current, Busy, Pending
  <2> QED
    BY <2>1, <2>2, <2>3, <2>4, <2>5, <2>6, <2>7, <2>8, <2>9, <2>10 DEF Next
<1> QED
  BY <1>1, <1>2, PTL DEF Spec

\* Nothing the file can hold is torn, or more than was begun.
LEMMA PastBounded ==
  ASSUME IInv, MaxEdits \in Nat
  PROVE  \A x \in past : x \in 0..MaxEdits
<1>1. PICK c : c = Cardinality(Pending)
  OBVIOUS
<1>2. c \in Nat /\ edits \in 0..MaxEdits /\ \A x \in past : x \in Nat /\ x + c <= edits
  BY <1>1, FS_CardinalityType DEF IInv, Counts, Shapes
<1> QED
  BY <1>2

\* Type correctness.
THEOREM TypesCorrect ==
  ASSUME Attempts \in Nat \ {0}, MaxEdits \in Nat, MaxHarm \in Nat
  PROVE  Spec => []TypeOK
<1>1. IInv => TypeOK
  <2> SUFFICES ASSUME IInv PROVE TypeOK
    OBVIOUS
  <2>1. \A x \in past : x \in 0..MaxEdits
    BY PastBounded
  <2>2. acknowledged \in 0..MaxEdits
    <3>1. PICK b : b = Cardinality(Busy)
      OBVIOUS
    <3>2. b \in Nat /\ acknowledged + b <= edits /\ acknowledged \in Nat /\ edits \in 0..MaxEdits
      BY <3>1, FS_CardinalityType DEF IInv, Counts, Shapes
    <3> QED
      BY <3>2
  <2>3. holders \subseteq Procs \X (1..MaxHarm + 1)
    <3>1. ASSUME NEW h \in holders PROVE h \in Procs \X (1..MaxHarm + 1)
      <4>1. PICK p \in Procs, f \in Nat : h = <<p, f>>
        BY DEF IInv, Shapes
      <4>2. f \in 1..deleted + 1 /\ deleted \in 0..MaxHarm
        BY <3>1, <4>1 DEF IInv, Locks, Shapes
      <4> QED
        BY <4>1, <4>2
    <3> QED
      BY <3>1
  <2>4. \A p \in Procs : temporary[p].data \in Contents /\ proc[p].tries < Attempts
    BY InShapes DEF IInv, Temporary
  <2> QED
    BY <2>1, <2>2, <2>3, <2>4 DEF TypeOK, Contents, IInv, Shapes
<1> QED
  BY <1>1, Invariance, PTL

\* At every moment, and after every power failure, the file is one that some
\* process meant to write, and while the lock file was left alone it holds
\* every edit that was acknowledged, for any number of processes and edits.
THEOREM EditsKept ==
  ASSUME Attempts \in Nat \ {0}, MaxEdits \in Nat, MaxHarm \in Nat
  PROVE  Spec => []WrittenIsKept
<1>1. IInv => WrittenIsKept
  BY PastBounded DEF WrittenIsKept, IInv, Current
<1> QED
  BY <1>1, Invariance, PTL

=============================================================================

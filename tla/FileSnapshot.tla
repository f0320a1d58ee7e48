----------------------------- MODULE FileSnapshot -----------------------------
(***************************************************************************)
(* Reading one file while others write it: the snapshot readers of         *)
(* package.rs.  A file is a sequence of chunks.  A write stores a version  *)
(* no write stored before, so that two equal reads of a chunk have the     *)
(* same write behind them, or one that was stored before and comes back.   *)
(* Time stamps may be too coarse to tell two writes apart.                 *)
(***************************************************************************)
EXTENDS Integers, Sequences, TLAPS, SequenceTheorems

CONSTANTS
  Objects,    \* the files the path may name
  MaxChunks,  \* the longest file others write
  MaxBytes,   \* the reader's limit, in chunks
  MaxWrites,
  Old,        \* bound: the versions that may come back
  NoObject

VARIABLES
  data,    \* data[o]: the chunks of o
  stamp,   \* stamp[o]: the modification time of o
  coarse,  \* time stamps stand still
  named,   \* the object the path names
  reader,  \* the call under way
  since,   \* history: what the opened object has held since it was opened
  repeats, \* history: a version has come back during the call
  writes

snapshotVars == <<data, stamp, coarse, named, reader, since, repeats, writes>>

Methods == {"opened", "stable", "package"}
Stat(o) == [len |-> Len(data[o]), stamp |-> stamp[o]]
NoReader == [method |-> "none", step |-> "idle", first |-> NoObject, file |-> NoObject,
             before |-> [len |-> 0, stamp |-> 0], middle |-> [len |-> 0, stamp |-> 0],
             bytes |-> <<>>, offset |-> 0]

TypeOK ==
  /\ data \in [Objects -> UNION {[1 .. n -> 0 .. MaxWrites] : n \in 0 .. MaxChunks}]
  /\ stamp \in [Objects -> 0 .. MaxWrites]
  /\ named \in Objects /\ writes \in 0 .. MaxWrites
  /\ reader.offset \in 0 .. MaxChunks /\ Len(reader.bytes) <= MaxBytes + 1

Init ==
  /\ data = [o \in Objects |-> <<0, 0>>]
  /\ stamp = [o \in Objects |-> 0]
  /\ coarse \in BOOLEAN
  /\ named \in Objects
  /\ reader = NoReader /\ since = {} /\ repeats = FALSE /\ writes = 0

-----------------------------------------------------------------------------
(* The others: write a chunk in place, cut the file, add to it, or rename  *)
(* another file over the path.                                             *)
Versions == (Old \cap (0 .. writes)) \cup {writes + 1}
Store(o, chunks, v) ==
  /\ writes < MaxWrites /\ writes' = writes + 1
  /\ data' = [data EXCEPT ![o] = chunks]
  /\ stamp' = IF coarse THEN stamp ELSE [stamp EXCEPT ![o] = writes']
  /\ since' = IF o = reader.file THEN since \cup {chunks} ELSE since
  /\ repeats' = (repeats \/ v <= writes)
  /\ UNCHANGED <<coarse, named, reader>>

Overwrite(o, i) == \E v \in Versions : Store(o, [data[o] EXCEPT ![i] = v], v)
Truncate(o) == data[o] # <<>> /\ Store(o, SubSeq(data[o], 1, Len(data[o]) - 1), writes + 1)
Extend(o) == Len(data[o]) < MaxChunks /\ \E v \in Versions : Store(o, Append(data[o], v), v)

Rename(o) ==
  /\ o # named /\ writes < MaxWrites
  /\ named' = o /\ writes' = writes + 1
  /\ UNCHANGED <<data, stamp, coarse, reader, since, repeats>>

-----------------------------------------------------------------------------
Quiet == UNCHANGED <<data, stamp, coarse, named, writes>>
Go(frame) == reader' = frame /\ UNCHANGED <<since, repeats>>
Fail == reader' = NoReader /\ since' = {} /\ UNCHANGED repeats

\* read_package_file_snapshot opens the path once before it opens it to read.
Begin(method) ==
  /\ reader.step \in {"idle", "done"} /\ Quiet
  /\ reader' = [NoReader EXCEPT !.method = method,
                                !.first = IF method = "package" THEN named ELSE NoObject,
                                !.file = IF method = "package" THEN NoObject ELSE named,
                                !.step = IF method = "package" THEN "bind" ELSE "stat"]
  /\ since' = IF method = "package" THEN {} ELSE {data[named]}
  /\ repeats' = FALSE

\* Opens it again, and a third time by its canonical name.
BindOpen ==
  /\ reader.step = "bind" /\ Quiet
  /\ reader' = [reader EXCEPT !.file = named, !.step = "bound"]
  /\ since' = {data[named]} /\ UNCHANGED repeats

BindCheck ==
  /\ reader.step = "bound" /\ Quiet
  /\ IF named = reader.file /\ reader.first = reader.file
     THEN Go([reader EXCEPT !.step = "stat"]) ELSE Fail

StatBefore ==
  /\ reader.step = "stat" /\ Quiet
  /\ IF Stat(reader.file).len > MaxBytes THEN Fail
     ELSE Go([reader EXCEPT !.before = Stat(reader.file), !.step = "read"])

\* One chunk, or the end of the file.
ReadChunk ==
  /\ reader.step = "read" /\ Quiet
  /\ LET n == reader.offset + 1
     IN IF n <= Len(data[reader.file]) /\ reader.offset <= MaxBytes
        THEN Go([reader EXCEPT !.bytes = Append(@, data[reader.file][n]), !.offset = n])
        ELSE IF Len(reader.bytes) > MaxBytes THEN Fail
        ELSE Go([reader EXCEPT !.step = IF reader.method = "package" THEN "reopen" ELSE "again"])

StatMiddle ==
  /\ reader.step = "again" /\ Quiet
  /\ LET now == Stat(reader.file)
     IN IF /\ reader.before.len = Len(reader.bytes) /\ now.len = Len(reader.bytes)
           /\ reader.before.stamp = now.stamp
        THEN Go([reader EXCEPT !.middle = now, !.offset = 0, !.step = "verify"])
        ELSE Fail

\* What the second reading may differ in from the first: nothing.
MutSame(frame, n) == TRUE
Same(frame, n) == n <= Len(frame.bytes) /\ frame.bytes[n] = data[frame.file][n]

VerifyChunk ==
  /\ reader.step = "verify" /\ Quiet
  /\ LET n == reader.offset + 1
     IN IF n <= Len(data[reader.file]) /\ reader.offset <= MaxBytes
        THEN IF Same(reader, n) THEN Go([reader EXCEPT !.offset = n]) ELSE Fail
        ELSE LET now == Stat(reader.file)
             IN IF /\ reader.offset = Len(reader.bytes) /\ now = reader.middle
                THEN Go([reader EXCEPT !.step = IF reader.method = "stable" THEN "path" ELSE "done"])
                ELSE Fail

\* read_stable_metadata_file_snapshot: the path still names the file.
PathCheck ==
  /\ reader.step = "path" /\ Quiet
  /\ IF named = reader.file THEN Go([reader EXCEPT !.step = "done"]) ELSE Fail

\* read_package_file_snapshot reads once and compares the metadata.
ReopenCheck ==
  /\ reader.step = "reopen" /\ Quiet
  /\ LET after == Stat(named)
     IN IF /\ named = reader.file /\ after = reader.before
           /\ after.len = Len(reader.bytes)
        THEN Go([reader EXCEPT !.step = "done"]) ELSE Fail

-----------------------------------------------------------------------------
Next ==
  \/ \E o \in Objects :
       (\E i \in DOMAIN data[o] : Overwrite(o, i)) \/ Truncate(o) \/ Extend(o) \/ Rename(o)
  \/ \E method \in Methods : Begin(method)
  \/ BindOpen \/ BindCheck \/ StatBefore \/ ReadChunk \/ StatMiddle \/ VerifyChunk
  \/ PathCheck \/ ReopenCheck

Spec == Init /\ [][Next]_snapshotVars

\* A snapshot is a content the file really had at one moment of the call, not
\* a mixture of two: time stamps that tell any two writes apart show it, and
\* where they do not, reading twice does unless what was overwritten comes back
\* between the readings (read_opened_regular_file_snapshot,
\* read_package_file_snapshot).
SnapshotIsReal ==
  reader.step = "done" /\ (~coarse \/ (reader.method # "package" /\ ~repeats))
    => reader.bytes \in since

-----------------------------------------------------------------------------
(* Proofs, for any number of files, chunks and writes.  Under one time     *)
(* stamp, nothing was written.  While every write stores a number nothing  *)
(* had before, what is read twice at one place was there in between, and   *)
(* all of it together at the moment between the readings.                  *)

Steps == {"idle", "bind", "bound", "stat", "read", "again", "verify", "path", "reopen", "done"}
Reader == [method : Methods \cup {"none"}, step : Steps,
           first : Objects \cup {NoObject}, file : Objects \cup {NoObject},
           before : [len : Nat, stamp : Nat], middle : [len : Nat, stamp : Nat],
           bytes : Seq(Nat), offset : Nat]

Shapes ==
  /\ data \in [Objects -> Seq(Nat)] /\ stamp \in [Objects -> Nat] /\ coarse \in BOOLEAN
  /\ named \in Objects /\ reader \in Reader /\ since \subseteq Seq(Nat)
  /\ repeats \in BOOLEAN /\ writes \in 0 .. MaxWrites
  /\ \A o \in Objects : Len(data[o]) <= MaxChunks
  /\ reader.offset <= MaxChunks /\ Len(reader.bytes) <= MaxBytes + 1

\* Nothing has a number that was not written yet.
NoFuture ==
  /\ \A o \in Objects : stamp[o] <= writes /\ \A i \in 1 .. Len(data[o]) : data[o][i] <= writes
  /\ reader.before.stamp <= writes
  /\ \A i \in 1 .. Len(reader.bytes) : reader.bytes[i] <= writes

\* Where the call is, and what it has read by then.
Opened ==
  /\ reader.step \notin {"idle", "bind"} => reader.file \in Objects /\ data[reader.file] \in since
  /\ reader.step \in {"bind", "bound", "stat"} => reader.bytes = <<>> /\ reader.offset = 0
  /\ reader.step \in {"read", "again", "reopen"} => reader.offset = Len(reader.bytes)
  /\ reader.step = "reopen" => reader.method = "package"

\* The first reading: as long as the time stamp is the one of before, so is the file.
Once ==
  ~coarse /\ reader.step \in {"read", "reopen", "again"} /\ stamp[reader.file] = reader.before.stamp =>
    /\ Len(reader.bytes) <= Len(data[reader.file])
    /\ \A i \in 1 .. Len(reader.bytes) : reader.bytes[i] = data[reader.file][i]

\* A content of the right length that agrees with the first reading as far as
\* the second has come, and beyond it where the file still does.
Agrees(c) ==
  /\ Len(c) = Len(reader.bytes)
  /\ \A i \in 1 .. Len(c) :
       i <= reader.offset
         \/ (i <= Len(data[reader.file]) /\ data[reader.file][i] = reader.bytes[i])
       => c[i] = reader.bytes[i]

Twice ==
  reader.step = "verify" =>
    /\ ~repeats => \E c \in since : Agrees(c)
    /\ ~coarse => reader.bytes \in since

Returned ==
  /\ reader.step = "path" /\ (~coarse \/ ~repeats) => reader.bytes \in since
  /\ SnapshotIsReal

IInv == Shapes /\ NoFuture /\ Opened /\ Once /\ Twice /\ Returned

\* A store changes what it stores only where it writes its number.
LEMMA StoreKeeps ==
  ASSUME IInv, MaxWrites \in Nat, NEW o \in Objects, NEW s \in Seq(Nat), NEW v \in 0 .. writes + 1,
         Store(o, s, v), NoObject \notin Objects, Len(s) <= MaxChunks,
         \A i \in 1 .. Len(s) :
           s[i] = v \/ (i <= Len(data[o]) /\ s[i] = data[o][i])
  PROVE  IInv'
<1>1. /\ writes < MaxWrites /\ writes' = writes + 1 /\ data' = [data EXCEPT ![o] = s]
      /\ stamp' = IF coarse THEN stamp ELSE [stamp EXCEPT ![o] = writes + 1]
      /\ since' = IF o = reader.file THEN since \cup {s} ELSE since
      /\ repeats' = (repeats \/ v <= writes)
      /\ coarse' = coarse /\ named' = named /\ reader' = reader
  BY DEF Store
<1>2. /\ data \in [Objects -> Seq(Nat)] /\ stamp \in [Objects -> Nat] /\ writes \in Nat
      /\ reader \in Reader /\ since \subseteq Seq(Nat)
  BY DEF IInv, Shapes
<1>3. /\ data'[o] = s /\ \A q \in Objects : q # o => data'[q] = data[q]
      /\ ~coarse => stamp'[o] = writes + 1 /\ \A q \in Objects : q # o => stamp'[q] = stamp[q]
      /\ coarse => stamp' = stamp
  BY <1>1, <1>2
<1>4. reader.bytes \in Seq(Nat) /\ reader.before.stamp \in Nat /\ Len(s) \in Nat
  BY <1>2 DEF Reader
<1>5. Shapes'
  BY <1>1, <1>2 DEF IInv, Shapes
<1>6. NoFuture'
  <2>1. ASSUME NEW q \in Objects
        PROVE  stamp'[q] <= writes' /\ \A i \in 1 .. Len(data'[q]) : data'[q][i] <= writes'
    <3>1. stamp[q] <= writes /\ \A i \in 1 .. Len(data[q]) : data[q][i] \in Nat /\ data[q][i] <= writes
      BY <1>2 DEF IInv, NoFuture
    <3>2. CASE q = o
      <4>1. v \in Nat /\ v <= writes + 1 /\ stamp'[q] \in {stamp[q], writes + 1}
        BY <1>1, <1>2, <1>3, <3>2
      <4>2. data'[q] = s /\ \A i \in 1 .. Len(s) : s[i] = v \/ (i \in 1 .. Len(data[q]) /\ s[i] = data[q][i])
        BY <1>2, <1>3, <3>2
      <4> QED
        BY <1>1, <1>2, <3>1, <4>1, <4>2
    <3>3. CASE q # o
      BY <1>1, <1>2, <1>3, <3>1, <3>3
    <3> QED
      BY <3>2, <3>3
  <2>2. \A i \in 1 .. Len(reader.bytes) : reader.bytes[i] \in Nat /\ reader.bytes[i] <= writes
    BY <1>4 DEF IInv, NoFuture
  <2>3. reader.before.stamp <= writes
    BY DEF IInv, NoFuture
  <2> QED
    BY <1>1, <1>2, <1>4, <2>1, <2>2, <2>3 DEF NoFuture
<1>7. Opened'
  <2>1. reader.step \notin {"idle", "bind"} => data'[reader.file] \in since'
    BY <1>1, <1>3 DEF IInv, Opened
  <2> QED
    BY <1>1, <2>1 DEF IInv, Opened
<1>8. Once'
  <2> SUFFICES ASSUME ~coarse, reader.step \in {"read", "reopen", "again"},
                      stamp'[reader.file] = reader.before.stamp
               PROVE  reader.file # o
    BY <1>1, <1>3 DEF IInv, Once, Opened
  <2>1. reader.before.stamp <= writes
    BY DEF IInv, NoFuture
  <2> QED
    BY <1>2, <1>3, <1>4, <2>1
<1>9. Twice'
  <2>0. reader.step = "verify" /\ ~coarse => reader.bytes \in since'
    BY <1>1 DEF IInv, Twice
  <2> SUFFICES ASSUME reader.step = "verify", ~repeats' PROVE \E c \in since' : Agrees(c)'
    BY <1>1, <2>0 DEF Twice
  <2>b. ~(repeats \/ v <= writes)
    BY <1>1, Zenon
  <2>a. ~repeats /\ v = writes + 1
    BY <1>2, <2>b
  <2>1. PICK c \in since : Agrees(c)
    BY <2>a DEF IInv, Twice
  <2>2. CASE reader.file # o
    <3>1. data'[reader.file] = data[reader.file]
      BY <1>3, <2>2 DEF IInv, Opened
    <3> QED
      BY <1>1, <2>1, <3>1 DEF Agrees
  <2>3. CASE reader.file = o
    <3>1. \A i \in 1 .. Len(reader.bytes) : reader.bytes[i] \in Nat /\ reader.bytes[i] <= writes
      BY <1>4 DEF IInv, NoFuture
    <3>2. \A i \in 1 .. Len(c) :
            i <= Len(s) /\ s[i] = reader.bytes[i]
              => i <= Len(data[o]) /\ data[o][i] = reader.bytes[i]
      <4> SUFFICES ASSUME NEW i \in 1 .. Len(reader.bytes), i <= Len(s), s[i] = reader.bytes[i]
                   PROVE  i <= Len(data[o]) /\ data[o][i] = s[i]
        BY <2>1 DEF Agrees
      <4>1. i \in 1 .. Len(s) /\ s[i] \in Nat /\ s[i] <= writes
        BY <1>4, <3>1
      <4>2. s[i] # v
        BY <1>2, <2>a, <4>1
      <4> QED
        BY <4>1, <4>2
    <3>3. Len(c) = Len(reader.bytes)
          /\ \A i \in 1 .. Len(c) :
               i <= reader.offset \/ (i <= Len(s) /\ s[i] = reader.bytes[i])
                 => c[i] = reader.bytes[i]
      BY <2>1, <2>3, <3>2 DEF Agrees
    <3> QED
      BY <1>1, <1>3, <2>1, <2>3, <3>3 DEF Agrees
  <2> QED
    BY <2>2, <2>3
<1>10. Returned'
  <2>1. since \subseteq since' /\ (~repeats' => ~repeats)
    BY <1>1
  <2> QED
    BY <1>1, <2>1 DEF IInv, Returned, SnapshotIsReal
<1> QED
  BY <1>5, <1>6, <1>7, <1>8, <1>9, <1>10 DEF IInv

\* The three ways to write.
LEMMA WritesKeep ==
  ASSUME IInv, MaxWrites \in Nat, MaxChunks \in Nat, NoObject \notin Objects, NEW o \in Objects,
         (\E i \in DOMAIN data[o] : Overwrite(o, i)) \/ Truncate(o) \/ Extend(o)
  PROVE  IInv'
<1>1. data[o] \in Seq(Nat) /\ Len(data[o]) <= MaxChunks /\ writes + 1 \in Nat /\ Len(data[o]) \in Nat
  BY DEF IInv, Shapes
<1>a. Versions \subseteq 0 .. writes + 1 /\ writes \in Nat
  BY DEF Versions, IInv, Shapes
<1>2. ASSUME NEW i \in DOMAIN data[o], Overwrite(o, i) PROVE IInv'
  <2>1. PICK v \in Versions : Store(o, [data[o] EXCEPT ![i] = v], v)
    BY <1>2 DEF Overwrite
  <2>a. PICK s : s = [data[o] EXCEPT ![i] = v]
    OBVIOUS
  <2>2. i \in 1 .. Len(data[o]) /\ v \in Nat /\ v \in 0 .. writes + 1
    BY <1>1, <1>a
  <2>3. s \in Seq(Nat) /\ Len(s) = Len(data[o])
        /\ \A j \in 1 .. Len(data[o]) : s[j] = IF j = i THEN v ELSE data[o][j]
    BY <1>1, <2>a, <2>2, ExceptSeq
  <2>4. Store(o, s, v)
    BY <2>1, <2>a
  <2>5. \A j \in 1 .. Len(s) : s[j] = v \/ (j <= Len(data[o]) /\ s[j] = data[o][j])
    BY <2>3
  <2>6. Len(s) <= MaxChunks
    BY <1>1, <2>3
  <2> QED
    BY <2>2, <2>3, <2>4, <2>5, <2>6, StoreKeeps
<1>3. ASSUME Truncate(o) PROVE IInv'
  <2>1. PICK s : s = SubSeq(data[o], 1, Len(data[o]) - 1)
    OBVIOUS
  <2>2. Len(data[o]) >= 1
    BY <1>1, <1>3 DEF Truncate
  <2>3. s \in Seq(Nat) /\ Len(s) = Len(data[o]) - 1 /\ \A j \in 1 .. Len(s) : s[j] = data[o][j]
    BY <1>1, <2>1, <2>2
  <2>4. Store(o, s, writes + 1) /\ writes + 1 \in 0 .. writes + 1
    BY <1>3, <1>a, <2>1 DEF Truncate
  <2>5. \A j \in 1 .. Len(s) :
          s[j] = writes + 1 \/ (j <= Len(data[o]) /\ s[j] = data[o][j])
    BY <1>1, <2>3
  <2>6. Len(s) <= MaxChunks
    BY <1>1, <2>3
  <2> QED
    BY <2>3, <2>4, <2>5, <2>6, StoreKeeps
<1>4. ASSUME Extend(o) PROVE IInv'
  <2>1. PICK v \in Versions : Store(o, Append(data[o], v), v)
    BY <1>4 DEF Extend
  <2>a. PICK s : s = Append(data[o], v)
    OBVIOUS
  <2>b. v \in Nat /\ v \in 0 .. writes + 1
    BY <1>a
  <2>2. s \in Seq(Nat) /\ Len(s) = Len(data[o]) + 1
        /\ \A j \in 1 .. Len(s) : s[j] = IF j <= Len(data[o]) THEN data[o][j] ELSE v
    BY <1>1, <2>a, <2>b
  <2>3. Len(data[o]) < MaxChunks /\ Store(o, s, v)
    BY <1>4, <2>1, <2>a DEF Extend
  <2>4. Len(s) <= MaxChunks
    BY <1>1, <2>2, <2>3
  <2>5. \A j \in 1 .. Len(s) : s[j] = v \/ (j <= Len(data[o]) /\ s[j] = data[o][j])
    BY <2>2
  <2> QED
    BY <2>2, <2>3, <2>4, <2>5, <2>b, StoreKeeps
<1> QED
  BY <1>2, <1>3, <1>4

\* Another file under the name.
LEMMA RenameKeeps ==
  ASSUME IInv, MaxWrites \in Nat, NEW o \in Objects, Rename(o)
  PROVE  IInv'
<1>1. /\ writes < MaxWrites /\ writes' = writes + 1 /\ named' = o
      /\ data' = data /\ stamp' = stamp /\ coarse' = coarse /\ reader' = reader /\ since' = since
      /\ repeats' = repeats
  BY DEF Rename
<1>2. /\ data \in [Objects -> Seq(Nat)] /\ stamp \in [Objects -> Nat] /\ writes \in Nat
      /\ reader.bytes \in Seq(Nat) /\ reader.before.stamp \in Nat
  BY DEF IInv, Shapes, Reader
<1>3. Shapes'
  BY <1>1, <1>2 DEF IInv, Shapes
<1>4. NoFuture'
  <2>1. ASSUME NEW q \in Objects
        PROVE  stamp[q] <= writes + 1 /\ \A i \in 1 .. Len(data[q]) : data[q][i] <= writes + 1
    <3>1. stamp[q] \in Nat /\ stamp[q] <= writes
          /\ \A i \in 1 .. Len(data[q]) : data[q][i] \in Nat /\ data[q][i] <= writes
      BY <1>2 DEF IInv, NoFuture
    <3> QED
      BY <1>2, <3>1
  <2>2. \A i \in 1 .. Len(reader.bytes) : reader.bytes[i] <= writes + 1
    <3>1. \A i \in 1 .. Len(reader.bytes) : reader.bytes[i] \in Nat /\ reader.bytes[i] <= writes
      BY <1>2 DEF IInv, NoFuture
    <3> QED
      BY <1>2, <3>1
  <2>3. reader.before.stamp <= writes + 1
    BY <1>2 DEF IInv, NoFuture
  <2> QED
    BY <1>1, <2>1, <2>2, <2>3 DEF NoFuture
<1>5. Opened' /\ Once'
  BY <1>1 DEF IInv, Opened, Once
<1>6. Twice' /\ Returned'
  BY <1>1 DEF IInv, Twice, Agrees, Returned, SnapshotIsReal
<1> QED
  BY <1>3, <1>4, <1>5, <1>6 DEF IInv

\* What a step of the reader must keep of its own.
LEMMA Quietly ==
  ASSUME IInv, Quiet, reader' \in Reader, since' \subseteq Seq(Nat), repeats' \in BOOLEAN,
         reader'.offset <= MaxChunks, Len(reader'.bytes) <= MaxBytes + 1,
         reader'.before.stamp <= writes,
         \A i \in 1 .. Len(reader'.bytes) : reader'.bytes[i] <= writes
  PROVE  Shapes' /\ NoFuture'
<1>1. /\ data' = data /\ stamp' = stamp /\ coarse' = coarse /\ named' = named /\ writes' = writes
  BY DEF Quiet
<1>2. Shapes'
  BY <1>1 DEF IInv, Shapes
<1>3. NoFuture'
  BY <1>1 DEF IInv, NoFuture
<1> QED
  BY <1>2, <1>3

\* A call that is over.
LEMMA NoReaderType == NoReader \in Reader /\ NoReader.step = "idle" /\ NoReader.before.stamp = 0
                        /\ NoReader.bytes = <<>> /\ NoReader.offset = 0
<1>1. <<>> \in Seq(Nat)
  OBVIOUS
<1> QED
  BY <1>1 DEF NoReader, Reader, Steps

\* A call that fails.
LEMMA FailKeeps ==
  ASSUME IInv, Quiet, Fail, MaxBytes \in Nat, MaxChunks \in Nat
  PROVE  IInv'
<1>1. reader' = NoReader /\ since' = {} /\ repeats' \in BOOLEAN /\ writes \in Nat
  BY DEF Fail, IInv, Shapes
<1>2. Len(NoReader.bytes) = 0
  BY NoReaderType
<1>3. Shapes' /\ NoFuture'
  BY <1>1, <1>2, NoReaderType, Quietly
<1>4. Opened' /\ Once' /\ Twice' /\ Returned'
  BY <1>1, <1>2, NoReaderType DEF Opened, Once, Twice, Returned, SnapshotIsReal
<1> QED
  BY <1>3, <1>4 DEF IInv

\* The types the steps rely on.
LEMMA ReaderTypes ==
  ASSUME IInv
  PROVE  /\ reader.method \in Methods \cup {"none"} /\ reader.step \in Steps
         /\ reader.first \in Objects \cup {NoObject} /\ reader.file \in Objects \cup {NoObject}
         /\ reader.before \in [len : Nat, stamp : Nat] /\ reader.middle \in [len : Nat, stamp : Nat]
         /\ reader.bytes \in Seq(Nat) /\ reader.offset \in Nat /\ Len(reader.bytes) \in Nat
         /\ reader.offset <= MaxChunks /\ Len(reader.bytes) <= MaxBytes + 1
         /\ reader.before.stamp <= writes /\ since \subseteq Seq(Nat)
         /\ \A i \in 1 .. Len(reader.bytes) : reader.bytes[i] <= writes
         /\ named \in Objects /\ repeats \in BOOLEAN /\ writes \in Nat
         /\ \A o \in Objects : data[o] \in Seq(Nat) /\ Len(data[o]) \in Nat /\ stamp[o] \in Nat
                               /\ Len(data[o]) <= MaxChunks /\ stamp[o] <= writes
                               /\ \A i \in 1 .. Len(data[o]) : data[o][i] <= writes
BY DEF IInv, Shapes, NoFuture, Reader

\* The file is opened.
LEMMA BeginKeeps ==
  ASSUME IInv, NEW method \in Methods, Begin(method), MaxBytes \in Nat, MaxChunks \in Nat
  PROVE  IInv'
<1>1. /\ Quiet /\ since' = IF method = "package" THEN {} ELSE {data[named]}
      /\ repeats' = FALSE
      /\ reader' = [NoReader EXCEPT !.method = method,
                                    !.first = IF method = "package" THEN named ELSE NoObject,
                                    !.file = IF method = "package" THEN NoObject ELSE named,
                                    !.step = IF method = "package" THEN "bind" ELSE "stat"]
  BY DEF Begin
<1>2. /\ reader'.step = IF method = "package" THEN "bind" ELSE "stat"
      /\ reader'.file = IF method = "package" THEN NoObject ELSE named
      /\ reader'.bytes = <<>> /\ reader'.offset = 0 /\ reader'.before.stamp = 0
      /\ Len(reader'.bytes) = 0
  BY <1>1, NoReaderType DEF NoReader
<1>3. reader' \in Reader
  <2>1. named \in Objects
    BY ReaderTypes
  <2> QED
    BY <1>1, <2>1, NoReaderType DEF Reader, Steps
<1>4. since' \subseteq Seq(Nat)
  BY <1>1, ReaderTypes
<1>a. repeats' \in BOOLEAN
  BY <1>1, Zenon
<1>5. Shapes' /\ NoFuture'
  BY <1>1, <1>2, <1>3, <1>4, <1>a, Quietly, ReaderTypes
<1>6. Opened'
  BY <1>1, <1>2, ReaderTypes DEF Opened, Quiet
<1>7. Once' /\ Twice' /\ Returned'
  BY <1>2 DEF Once, Twice, Returned, SnapshotIsReal
<1> QED
  BY <1>5, <1>6, <1>7 DEF IInv

\* The steps up to the first reading.
LEMMA BindKeeps ==
  ASSUME IInv, MaxBytes \in Nat, MaxChunks \in Nat, BindOpen \/ BindCheck
  PROVE  IInv'
<1>1. CASE BindOpen
  <2>1. /\ Quiet /\ reader.step = "bind" /\ since' = {data[named]} /\ repeats' = repeats
        /\ reader' = [reader EXCEPT !.file = named, !.step = "bound"]
    BY <1>1 DEF BindOpen
  <2>2. /\ reader' \in Reader /\ reader'.step = "bound" /\ reader'.file = named
        /\ reader'.bytes = reader.bytes /\ reader'.offset = reader.offset
        /\ reader'.before = reader.before
    BY <2>1, ReaderTypes DEF IInv, Shapes, Reader, Steps
  <2>3. Shapes' /\ NoFuture'
    BY <2>1, <2>2, ReaderTypes, Quietly
  <2>4. Opened'
    BY <2>1, <2>2, ReaderTypes DEF IInv, Opened, Quiet
  <2>5. Once' /\ Twice' /\ Returned'
    BY <2>2 DEF Once, Twice, Returned, SnapshotIsReal
  <2> QED
    BY <2>3, <2>4, <2>5 DEF IInv
<1>2. CASE BindCheck /\ ~Fail
  <2>1. /\ Quiet /\ reader.step = "bound" /\ since' = since /\ repeats' = repeats
        /\ reader' = [reader EXCEPT !.step = "stat"]
    BY <1>2 DEF BindCheck, Go
  <2>2. /\ reader' \in Reader /\ reader'.step = "stat" /\ reader'.file = reader.file
        /\ reader'.bytes = reader.bytes /\ reader'.offset = reader.offset
        /\ reader'.before = reader.before
    BY <2>1, ReaderTypes DEF IInv, Shapes, Reader, Steps
  <2>3. Shapes' /\ NoFuture'
    BY <2>1, <2>2, ReaderTypes, Quietly
  <2>4. Opened'
    BY <2>1, <2>2 DEF IInv, Opened, Quiet
  <2>5. Once' /\ Twice' /\ Returned'
    BY <2>2 DEF Once, Twice, Returned, SnapshotIsReal
  <2> QED
    BY <2>3, <2>4, <2>5 DEF IInv
<1>3. CASE BindCheck /\ Fail
  BY <1>3, FailKeeps DEF BindCheck
<1> QED
  BY <1>1, <1>2, <1>3

\* The reading begins: nothing has been read, of the file as it is.
LEMMA StatKeeps ==
  ASSUME IInv, MaxBytes \in Nat, MaxChunks \in Nat, StatBefore
  PROVE  IInv'
<1>1. CASE ~Fail
  <2>1. /\ Quiet /\ reader.step = "stat" /\ since' = since /\ repeats' = repeats
        /\ reader' = [reader EXCEPT !.before = Stat(reader.file), !.step = "read"]
    BY <1>1 DEF StatBefore, Go
  <2>2. /\ reader.file \in Objects /\ data[reader.file] \in since
        /\ reader.bytes = <<>> /\ reader.offset = 0 /\ Len(reader.bytes) = 0
    BY <2>1 DEF IInv, Opened
  <2>3. Stat(reader.file) \in [len : Nat, stamp : Nat]
        /\ Stat(reader.file).stamp = stamp[reader.file]
    BY <2>2, ReaderTypes DEF Stat
  <2>4. /\ reader' \in Reader /\ reader'.step = "read" /\ reader'.file = reader.file
        /\ reader'.bytes = reader.bytes /\ reader'.offset = reader.offset
        /\ reader'.before = Stat(reader.file)
    BY <2>1, <2>3, ReaderTypes DEF IInv, Shapes, Reader, Steps
  <2>5. Shapes' /\ NoFuture'
    BY <2>1, <2>2, <2>3, <2>4, ReaderTypes, Quietly
  <2>6. Opened'
    BY <2>1, <2>2, <2>4 DEF Opened, Quiet
  <2>7. Once'
    BY <2>1, <2>2, <2>4, ReaderTypes DEF Once, Quiet
  <2>8. Twice' /\ Returned'
    BY <2>4 DEF Twice, Returned, SnapshotIsReal
  <2> QED
    BY <2>5, <2>6, <2>7, <2>8 DEF IInv
<1>2. CASE Fail
  BY <1>2, FailKeeps DEF StatBefore
<1> QED
  BY <1>1, <1>2

\* One chunk more, which is the one there is now.
LEMMA ReadKeeps ==
  ASSUME IInv, MaxBytes \in Nat, MaxChunks \in Nat, ReadChunk
  PROVE  IInv'
<1>0. PICK n : n = reader.offset + 1
  OBVIOUS
<1>1. /\ Quiet /\ reader.step = "read" /\ reader.offset = Len(reader.bytes)
      /\ reader.file \in Objects /\ data[reader.file] \in since
  BY DEF ReadChunk, IInv, Opened
<1>2. n \in Nat /\ n = reader.offset + 1 /\ reader.offset \in Nat /\ n >= 1
  BY <1>0, ReaderTypes
<1>3. CASE /\ n <= Len(data[reader.file]) /\ reader.offset <= MaxBytes
           /\ Go([reader EXCEPT !.bytes = Append(@, data[reader.file][n]), !.offset = n])
  <2>1. PICK b : b = Append(reader.bytes, data[reader.file][n])
    OBVIOUS
  <2>2. PICK d : d = data[reader.file]
    OBVIOUS
  <2>3. n \in 1 .. Len(d) /\ d \in Seq(Nat) /\ d[n] \in Nat /\ d[n] <= writes
    <3>1. d \in Seq(Nat) /\ Len(d) \in Nat /\ \A i \in 1 .. Len(d) : d[i] <= writes
      BY <1>1, <2>2, ReaderTypes
    <3>2. n <= Len(d)
      BY <1>3, <2>2
    <3> QED
      BY <1>2, <3>1, <3>2
  <2>4. /\ b \in Seq(Nat) /\ Len(b) = n /\ b[n] = d[n]
        /\ \A i \in 1 .. Len(reader.bytes) : b[i] = reader.bytes[i]
    BY <1>1, <1>2, <2>1, <2>2, <2>3, ReaderTypes
  <2>5. /\ since' = since /\ repeats' = repeats
        /\ reader' = [reader EXCEPT !.bytes = b, !.offset = n]
    BY <1>3, <2>1 DEF Go
  <2>6. /\ reader' \in Reader /\ reader'.step = "read" /\ reader'.file = reader.file
        /\ reader'.bytes = b /\ reader'.offset = n /\ reader'.before = reader.before
    BY <1>1, <1>2, <2>4, <2>5, ReaderTypes DEF IInv, Shapes, Reader
  <2>7. \A i \in 1 .. Len(b) : b[i] <= writes
    <3> SUFFICES ASSUME NEW i \in 1 .. Len(b) PROVE b[i] <= writes
      OBVIOUS
    <3>1. i = n \/ i \in 1 .. Len(reader.bytes)
      BY <1>1, <1>2, <2>4, ReaderTypes
    <3> QED
      BY <2>3, <2>4, <3>1, ReaderTypes
  <2>8. n <= MaxChunks /\ Len(b) <= MaxBytes + 1
    <3>1. Len(d) \in Nat /\ Len(d) <= MaxChunks
      BY <1>1, <2>2, ReaderTypes
    <3>2. reader.offset <= MaxBytes
      BY <1>3
    <3> QED
      BY <1>2, <2>3, <2>4, <3>1, <3>2
  <2>9. Shapes' /\ NoFuture'
    BY <1>1, <2>5, <2>6, <2>7, <2>8, ReaderTypes, Quietly
  <2>10. Opened'
    BY <1>1, <2>4, <2>5, <2>6 DEF Opened, Quiet
  <2>11. Once'
    <3> SUFFICES ASSUME ~coarse, stamp[reader.file] = reader.before.stamp
                 PROVE  Len(b) <= Len(d) /\ \A i \in 1 .. Len(b) : b[i] = d[i]
      BY <1>1, <2>2, <2>6 DEF Once, Quiet
    <3>1. \A i \in 1 .. Len(reader.bytes) : reader.bytes[i] = d[i]
      BY <1>1, <2>2 DEF IInv, Once
    <3>2. \A i \in 1 .. Len(b) : i = n \/ i \in 1 .. Len(reader.bytes)
      BY <1>1, <1>2, <2>4, ReaderTypes
    <3>3. Len(b) <= Len(d)
      BY <2>3, <2>4, ReaderTypes
    <3> QED
      BY <2>4, <3>1, <3>2, <3>3
  <2>12. Twice' /\ Returned'
    BY <2>6 DEF Twice, Returned, SnapshotIsReal
  <2> QED
    BY <2>9, <2>10, <2>11, <2>12 DEF IInv
<1>4. CASE Go([reader EXCEPT !.step = IF reader.method = "package" THEN "reopen" ELSE "again"])
  <2>1. /\ since' = since /\ repeats' = repeats
        /\ reader' = [reader EXCEPT !.step = IF reader.method = "package" THEN "reopen" ELSE "again"]
    BY <1>4 DEF Go
  <2>2. /\ reader' \in Reader /\ reader'.file = reader.file /\ reader'.method = reader.method
        /\ reader'.bytes = reader.bytes /\ reader'.offset = reader.offset
        /\ reader'.before = reader.before
        /\ reader'.step = IF reader.method = "package" THEN "reopen" ELSE "again"
    BY <2>1, ReaderTypes DEF IInv, Shapes, Reader, Steps
  <2>3. Shapes' /\ NoFuture'
    BY <1>1, <2>1, <2>2, ReaderTypes, Quietly
  <2>4. Opened' /\ Once'
    BY <1>1, <2>1, <2>2 DEF IInv, Opened, Once, Quiet
  <2>5. Twice' /\ Returned'
    BY <2>2 DEF Twice, Returned, SnapshotIsReal
  <2> QED
    BY <2>3, <2>4, <2>5 DEF IInv
<1>5. CASE Fail
  BY <1>1, <1>5, FailKeeps
<1> QED
  BY <1>0, <1>3, <1>4, <1>5 DEF ReadChunk

\* Between the two readings: the content of this moment is the one.
LEMMA MiddleKeeps ==
  ASSUME IInv, MaxBytes \in Nat, MaxChunks \in Nat, StatMiddle
  PROVE  IInv'
<1>1. CASE ~Fail
  <2>1. /\ Quiet /\ reader.step = "again" /\ since' = since /\ repeats' = repeats
        /\ Stat(reader.file).len = Len(reader.bytes)
        /\ reader.before.stamp = Stat(reader.file).stamp
        /\ reader' = [reader EXCEPT !.middle = Stat(reader.file), !.offset = 0, !.step = "verify"]
    BY <1>1 DEF StatMiddle, Go
  <2>2. reader.file \in Objects /\ data[reader.file] \in since
    BY <2>1 DEF IInv, Opened
  <2>3. Stat(reader.file) \in [len : Nat, stamp : Nat]
        /\ Len(data[reader.file]) = Len(reader.bytes)
    BY <2>1, <2>2, ReaderTypes DEF Stat
  <2>4. /\ reader' \in Reader /\ reader'.step = "verify" /\ reader'.file = reader.file
        /\ reader'.bytes = reader.bytes /\ reader'.offset = 0 /\ reader'.before = reader.before
    BY <2>1, <2>3, ReaderTypes DEF IInv, Shapes, Reader, Steps
  <2>5. Shapes' /\ NoFuture'
    BY <2>1, <2>4, ReaderTypes, Quietly
  <2>6. Opened'
    BY <2>1, <2>2, <2>4 DEF Opened, Quiet
  <2>7. Once' /\ Returned'
    BY <2>4 DEF Once, Returned, SnapshotIsReal
  <2>8. Twice'
    <3>1. PICK d : d = data[reader.file]
      OBVIOUS
    <3>2. data'[reader'.file] = d /\ d \in since'
      BY <2>1, <2>2, <2>4, <3>1 DEF Quiet
    <3>3. Agrees(d)'
      BY <2>3, <2>4, <3>1, <3>2 DEF Agrees
    <3>4. ASSUME ~coarse PROVE reader.bytes = d
      <4>1. stamp[reader.file] = reader.before.stamp
        BY <2>1 DEF Stat
      <4>2. \A i \in 1 .. Len(reader.bytes) : reader.bytes[i] = d[i]
        BY <2>1, <3>1, <3>4, <4>1 DEF IInv, Once
      <4> QED
        BY <2>2, <2>3, <3>1, <4>2, ReaderTypes, SeqEqual
    <3> QED
      BY <2>1, <2>4, <3>2, <3>3, <3>4 DEF Twice, Quiet
  <2> QED
    BY <2>5, <2>6, <2>7, <2>8 DEF IInv
<1>2. CASE Fail
  BY <1>2, FailKeeps DEF StatMiddle
<1> QED
  BY <1>1, <1>2

\* The second reading: what agrees at its end is what was read.
LEMMA VerifyKeeps ==
  ASSUME IInv, MaxBytes \in Nat, MaxChunks \in Nat, VerifyChunk
  PROVE  IInv'
<1>0. PICK n : n = reader.offset + 1
  OBVIOUS
<1>1. /\ Quiet /\ reader.step = "verify" /\ reader.file \in Objects
      /\ data[reader.file] \in since
  BY DEF VerifyChunk, IInv, Opened
<1>2. ~repeats => \E c \in since : Agrees(c)
  BY <1>1 DEF IInv, Twice
<1>3. ~coarse => reader.bytes \in since
  BY <1>1 DEF IInv, Twice
<1>4. n \in Nat /\ n = reader.offset + 1 /\ reader.offset \in Nat /\ n >= 1
  BY <1>0, ReaderTypes
<1>5. CASE /\ n <= Len(data[reader.file]) /\ Same(reader, n)
           /\ Go([reader EXCEPT !.offset = n])
  <2>1. since' = since /\ repeats' = repeats /\ reader' = [reader EXCEPT !.offset = n]
    BY <1>5 DEF Go
  <2>2. /\ reader' \in Reader /\ reader'.step = "verify" /\ reader'.file = reader.file
        /\ reader'.bytes = reader.bytes /\ reader'.offset = n /\ reader'.before = reader.before
    BY <1>1, <1>4, <2>1, ReaderTypes DEF IInv, Shapes, Reader
  <2>3. n <= MaxChunks /\ n \in 1 .. Len(reader.bytes) /\ reader.bytes[n] = data[reader.file][n]
    <3>1. Len(data[reader.file]) \in Nat /\ Len(data[reader.file]) <= MaxChunks
      BY <1>1, ReaderTypes
    <3>2. n <= Len(reader.bytes) /\ Len(reader.bytes) \in Nat
          /\ reader.bytes[n] = data[reader.file][n]
      BY <1>5, ReaderTypes DEF Same
    <3> QED
      BY <1>4, <1>5, <3>1, <3>2
  <2>4. Shapes' /\ NoFuture'
    BY <1>1, <2>1, <2>2, <2>3, ReaderTypes, Quietly
  <2>5. Opened'
    BY <1>1, <2>1, <2>2 DEF Opened, Quiet
  <2>6. Once' /\ Returned'
    BY <2>2 DEF Once, Returned, SnapshotIsReal
  <2>7. ASSUME NEW c \in since, Agrees(c) PROVE Agrees(c)'
    <3>0. c \in Seq(Nat) /\ Len(c) = Len(reader.bytes)
      BY <2>7, ReaderTypes DEF Agrees
    <3>1. c[n] = reader.bytes[n]
      BY <1>5, <2>3, <2>7, <3>0 DEF Agrees
    <3>2. \A i \in 1 .. Len(c) : i <= n => i <= reader.offset \/ i = n
      BY <1>0, <3>0, ReaderTypes
    <3>3. data' = data
      BY <1>1 DEF Quiet
    <3> QED
      BY <2>2, <2>7, <3>1, <3>2, <3>3 DEF Agrees
  <2>8. Twice'
    BY <1>1, <1>2, <1>3, <2>1, <2>2, <2>7 DEF Twice, Quiet
  <2> QED
    BY <2>4, <2>5, <2>6, <2>8 DEF IInv
<1>6. CASE /\ reader.offset = Len(reader.bytes)
           /\ Go([reader EXCEPT !.step = IF reader.method = "stable" THEN "path" ELSE "done"])
  <2>1. /\ since' = since /\ repeats' = repeats
        /\ reader' = [reader EXCEPT !.step = IF reader.method = "stable" THEN "path" ELSE "done"]
    BY <1>6 DEF Go
  <2>2. /\ reader' \in Reader /\ reader'.file = reader.file
        /\ reader'.bytes = reader.bytes /\ reader'.offset = reader.offset
        /\ reader'.before = reader.before
        /\ reader'.step \in {"path", "done"}
    BY <2>1, ReaderTypes DEF IInv, Shapes, Reader, Steps
  <2>3. Shapes' /\ NoFuture'
    BY <1>1, <2>1, <2>2, ReaderTypes, Quietly
  <2>4. Opened'
    BY <1>1, <2>1, <2>2 DEF Opened, Quiet
  <2>5. Once' /\ Twice'
    BY <2>2 DEF Once, Twice
  <2>6. ASSUME NEW c \in since, Agrees(c) PROVE c = reader.bytes
    <3>0. c \in Seq(Nat) /\ Len(c) = Len(reader.bytes)
      BY <2>6, ReaderTypes DEF Agrees
    <3>1. \A i \in 1 .. Len(c) : c[i] = reader.bytes[i]
      BY <1>6, <2>6, <3>0 DEF Agrees
    <3> QED
      BY <3>0, <3>1, ReaderTypes, SeqEqual
  <2>7. ~coarse \/ ~repeats => reader.bytes \in since
    BY <1>2, <1>3, <2>6
  <2>8. Returned'
    BY <1>1, <2>1, <2>2, <2>7 DEF Returned, SnapshotIsReal, Quiet
  <2> QED
    BY <2>3, <2>4, <2>5, <2>8 DEF IInv
<1>7. CASE Fail
  BY <1>1, <1>7, FailKeeps
<1> QED
  BY <1>0, <1>5, <1>6, <1>7 DEF VerifyChunk

\* The last looks at the path; the content has been found before.
LEMMA PathKeeps ==
  ASSUME IInv, MaxBytes \in Nat, MaxChunks \in Nat, PathCheck
  PROVE  IInv'
<1>1. CASE ~Fail
  <2>1. /\ Quiet /\ reader.step = "path" /\ since' = since /\ repeats' = repeats
        /\ reader' = [reader EXCEPT !.step = "done"]
    BY <1>1 DEF PathCheck, Go
  <2>2. /\ reader' \in Reader /\ reader'.step = "done" /\ reader'.file = reader.file
        /\ reader'.bytes = reader.bytes /\ reader'.offset = reader.offset
        /\ reader'.before = reader.before
    BY <2>1, ReaderTypes DEF IInv, Shapes, Reader, Steps
  <2>3. Shapes' /\ NoFuture'
    BY <2>1, <2>2, ReaderTypes, Quietly
  <2>4. Opened' /\ Once' /\ Twice'
    BY <2>1, <2>2 DEF IInv, Opened, Once, Twice, Quiet
  <2>a. ~coarse \/ ~repeats => reader.bytes \in since
    BY <2>1 DEF IInv, Returned
  <2>b. ~coarse' \/ ~repeats' => reader'.bytes \in since'
    BY <2>1, <2>2, <2>a DEF Quiet
  <2>5. Returned'
    BY <2>2, <2>b DEF Returned, SnapshotIsReal
  <2> QED
    BY <2>3, <2>4, <2>5 DEF IInv
<1>2. CASE Fail
  BY <1>2, FailKeeps DEF PathCheck
<1> QED
  BY <1>1, <1>2

\* Read once, under the time stamp and the length of before: that is the file.
LEMMA ReopenKeeps ==
  ASSUME IInv, MaxBytes \in Nat, MaxChunks \in Nat, ReopenCheck
  PROVE  IInv'
<1>1. CASE ~Fail
  <2>1. /\ Quiet /\ reader.step = "reopen" /\ since' = since /\ repeats' = repeats
        /\ named = reader.file
        /\ Stat(named) = reader.before /\ Stat(named).len = Len(reader.bytes)
        /\ reader' = [reader EXCEPT !.step = "done"]
    BY <1>1 DEF ReopenCheck, Go
  <2>2. /\ reader' \in Reader /\ reader'.step = "done" /\ reader'.file = reader.file
        /\ reader'.bytes = reader.bytes /\ reader'.offset = reader.offset
        /\ reader'.before = reader.before /\ reader'.method = reader.method
    BY <2>1, ReaderTypes DEF IInv, Shapes, Reader, Steps
  <2>3. Shapes' /\ NoFuture'
    BY <2>1, <2>2, ReaderTypes, Quietly
  <2>4. Opened' /\ Once' /\ Twice'
    BY <2>1, <2>2 DEF IInv, Opened, Once, Twice, Quiet
  <2>5. Returned'
    <3> SUFFICES ASSUME ~coarse PROVE reader.bytes \in since
      BY <2>1, <2>2 DEF IInv, Opened, Returned, SnapshotIsReal, Quiet
    <3>1. /\ Len(data[reader.file]) = Len(reader.bytes)
          /\ stamp[reader.file] = reader.before.stamp
      BY <2>1 DEF Stat
    <3>2. \A i \in 1 .. Len(reader.bytes) : reader.bytes[i] = data[reader.file][i]
      BY <2>1, <3>1 DEF IInv, Once
    <3>3. reader.file \in Objects /\ data[reader.file] \in since
      BY <2>1 DEF IInv, Opened
    <3>4. reader.bytes = data[reader.file]
      BY <3>1, <3>2, <3>3, ReaderTypes, SeqEqual
    <3> QED
      BY <3>3, <3>4
  <2> QED
    BY <2>3, <2>4, <2>5 DEF IInv
<1>2. CASE Fail
  BY <1>2, FailKeeps DEF ReopenCheck
<1> QED
  BY <1>1, <1>2

\* The inductive invariant.
THEOREM Invariance ==
  ASSUME MaxBytes \in Nat, MaxWrites \in Nat, MaxChunks \in Nat, MaxChunks >= 2,
         NoObject \notin Objects
  PROVE  Spec => []IInv
<1>1. Init => IInv
  <2> SUFFICES ASSUME Init PROVE IInv
    OBVIOUS
  <2>1. /\ data = [o \in Objects |-> <<0, 0>>] /\ stamp = [o \in Objects |-> 0]
        /\ coarse \in BOOLEAN /\ named \in Objects /\ reader = NoReader /\ since = {} /\ writes = 0
        /\ repeats = FALSE
    BY DEF Init
  <2>2. <<0, 0>> \in Seq(Nat) /\ Len(<<0, 0>>) = 2
        /\ \A i \in 1 .. Len(<<0, 0>>) : <<0, 0>>[i] <= 0
    OBVIOUS
  <2>3. Len(NoReader.bytes) = 0
    BY NoReaderType
  <2>a. repeats \in BOOLEAN
    BY <2>1, Zenon
  <2>4. Shapes
    BY <2>1, <2>2, <2>3, <2>a, NoReaderType DEF Shapes
  <2>5. NoFuture
    BY <2>1, <2>2, <2>3, NoReaderType DEF NoFuture
  <2>6. Opened /\ Once /\ Twice /\ Returned
    BY <2>1, <2>3, NoReaderType DEF Opened, Once, Twice, Returned, SnapshotIsReal
  <2> QED
    BY <2>4, <2>5, <2>6 DEF IInv
<1>2. IInv /\ [Next]_snapshotVars => IInv'
  <2> SUFFICES ASSUME IInv, [Next]_snapshotVars PROVE IInv'
    OBVIOUS
  <2>1. CASE \E o \in Objects : \/ \E i \in DOMAIN data[o] : Overwrite(o, i)
                                \/ Truncate(o) \/ Extend(o)
    BY <2>1, WritesKeep
  <2>2. CASE \E o \in Objects : Rename(o)
    BY <2>2, RenameKeeps
  <2>3. CASE \E method \in Methods : Begin(method)
    BY <2>3, BeginKeeps
  <2>4. CASE BindOpen \/ BindCheck
    BY <2>4, BindKeeps
  <2>5. CASE StatBefore \/ ReadChunk
    BY <2>5, StatKeeps, ReadKeeps
  <2>6. CASE StatMiddle \/ VerifyChunk
    BY <2>6, MiddleKeeps, VerifyKeeps
  <2>7. CASE PathCheck \/ ReopenCheck
    BY <2>7, PathKeeps, ReopenKeeps
  <2>8. CASE UNCHANGED snapshotVars
    <3>1. Shapes' /\ NoFuture' /\ Opened' /\ Once'
      BY <2>8 DEF snapshotVars, IInv, Shapes, NoFuture, Opened, Once
    <3>2. Twice' /\ Returned'
      BY <2>8 DEF snapshotVars, IInv, Twice, Agrees, Returned, SnapshotIsReal
    <3> QED
      BY <3>1, <3>2 DEF IInv
  <2> QED
    BY <2>1, <2>2, <2>3, <2>4, <2>5, <2>6, <2>7, <2>8 DEF Next
<1> QED
  BY <1>1, <1>2, PTL DEF Spec

\* Type correctness: sizes are within their bounds.
THEOREM TypesCorrect ==
  ASSUME MaxBytes \in Nat, MaxWrites \in Nat, MaxChunks \in Nat, MaxChunks >= 2,
         NoObject \notin Objects
  PROVE  Spec => []TypeOK
<1>1. IInv => TypeOK
  <2> SUFFICES ASSUME IInv PROVE TypeOK
    OBVIOUS
  <2>1. ASSUME NEW o \in Objects
        PROVE  data[o] \in UNION {[1 .. n -> 0 .. MaxWrites] : n \in 0 .. MaxChunks}
    <3>1. PICK d, k : d = data[o] /\ k = Len(d)
      OBVIOUS
    <3>2. d \in Seq(Nat) /\ k \in 0 .. MaxChunks /\ writes \in 0 .. MaxWrites
          /\ \A i \in 1 .. k : d[i] <= writes
      BY <3>1, ReaderTypes DEF IInv, Shapes
    <3>3. d \in [1 .. k -> Nat]
      BY <3>1, <3>2
    <3>4. d \in [1 .. k -> 0 .. MaxWrites]
      BY <3>2, <3>3
    <3> QED
      BY <3>1, <3>2, <3>4
  <2>2. ASSUME NEW o \in Objects PROVE stamp[o] \in 0 .. MaxWrites
    BY ReaderTypes DEF IInv, Shapes
  <2>3. /\ data \in [Objects -> UNION {[1 .. n -> 0 .. MaxWrites] : n \in 0 .. MaxChunks}]
        /\ stamp \in [Objects -> 0 .. MaxWrites]
    BY <2>1, <2>2 DEF IInv, Shapes
  <2>4. reader.offset \in 0 .. MaxChunks
    BY ReaderTypes
  <2> QED
    BY <2>3, <2>4 DEF TypeOK, IInv, Shapes
<1> QED
  BY <1>1, Invariance, PTL

\* Every snapshot is a content the file really had during the call, for any
\* number of files, chunks and writes between any two steps of the reader.
THEOREM SnapshotsAreReal ==
  ASSUME MaxBytes \in Nat, MaxWrites \in Nat, MaxChunks \in Nat, MaxChunks >= 2,
         NoObject \notin Objects
  PROVE  Spec => []SnapshotIsReal
<1>1. IInv => SnapshotIsReal
  BY DEF IInv, Returned
<1> QED
  BY <1>1, Invariance, PTL

=============================================================================

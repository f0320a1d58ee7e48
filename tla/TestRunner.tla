------------------------------- MODULE TestRunner -------------------------------
(***************************************************************************)
(* The test runner (src/testing.rs): workers take files from one queue,    *)
(* run each under a time limit and send what came of it; the caller        *)
(* receives, joins and sorts.                                              *)
(*                                                                         *)
(* A file has a mark for an expected failure, none, one that any failure   *)
(* meets, or one with a reason; what its run comes to is chosen as it runs.*)
(* A program calls one host operation at most, which may never return.     *)
(***************************************************************************)
EXTENDS Integers, Sequences, FiniteSets

CONSTANTS
  MaxFiles,   \* bound: files found, in the order of their paths
  MaxJobs     \* bound: jobs asked for

VARIABLES
  marks,    \* the mark of each file
  queue,    \* files no worker has taken yet
  worker,   \* the file each worker runs, 0 when it looks for one, -1 when it is over
  inside,   \* where its run is: in the "program", in a "host" operation, "after" it
  channel,  \* results on their way
  got,      \* results received
  failure,  \* the first error received
  main,     \* "receiving", "joining", "returned"
  ran       \* history: what each file's run came to

vars == <<marks, queue, worker, inside, channel, got, failure, main, ran>>

Files == 1 .. Len(marks)
Workers == DOMAIN worker
Outcomes == {"passed", "failed", "other failure", "panic", "unreadable"}
Good == {"passed", "expected"}

\* Mutant: a marked test that passes has passed.
MutStatus(mark, outcome) ==
  CASE outcome = "passed" -> "passed"
    [] outcome = "failed" /\ mark # "none" -> "expected"
    [] outcome = "other failure" /\ mark = "any" -> "expected"
    [] OTHER -> "failed"
\* run_case: the status of a run that was neither too slow nor cut short.
Status(mark, outcome) ==
  CASE outcome = "passed" -> IF mark = "none" THEN "passed" ELSE "unexpected"
    [] outcome = "failed" /\ mark # "none" -> "expected"
    [] outcome = "other failure" /\ mark = "any" -> "expected"
    [] OTHER -> "failed"

\* run_case_with_timeout: the clock has the last word, and a panic is a
\* failure even of a test that is expected to fail.
Result(f, outcome, slow) ==
  [file |-> f,
   status |-> IF slow THEN "timed out"
              ELSE IF outcome = "unreadable" THEN "error"
              ELSE IF outcome = "panic" THEN "failed" ELSE Status(marks[f], outcome)]

\* The loop of a worker.
Take(w) ==
  /\ worker[w] = 0
  /\ \/ queue # <<>> /\ worker' = [worker EXCEPT ![w] = Head(queue)] /\ queue' = Tail(queue)
     \/ queue = <<>> /\ worker' = [worker EXCEPT ![w] = -1] /\ UNCHANGED queue
  /\ inside' = [inside EXCEPT ![w] = "program"]
  /\ UNCHANGED <<marks, channel, got, failure, main, ran>>

\* The program of the file calls a host operation; the time limit does not
\* reach into it.
EnterHost(w) ==
  /\ worker[w] > 0 /\ inside[w] = "program" /\ inside' = [inside EXCEPT ![w] = "host"]
  /\ UNCHANGED <<marks, queue, worker, channel, got, failure, main, ran>>
LeaveHost(w) ==
  /\ inside[w] = "host" /\ inside' = [inside EXCEPT ![w] = "after"]
  /\ UNCHANGED <<marks, queue, worker, channel, got, failure, main, ran>>

\* A run ends, at its end or where the limit stops the program.
Finish(w, outcome, slow) ==
  /\ worker[w] > 0 /\ inside[w] # "host"
  /\ inside' = [inside EXCEPT ![w] = "program"]
  /\ channel' = Append(channel, Result(worker[w], outcome, slow))
  /\ worker' = [worker EXCEPT ![w] = 0]
  /\ ran' = [ran EXCEPT ![worker[w]] = Append(@, <<outcome, slow>>)]
  /\ UNCHANGED <<marks, queue, got, failure, main>>

\* run_with_options, from the first recv on.
Receive ==
  /\ main = "receiving" /\ channel # <<>>
  /\ channel' = Tail(channel)
  /\ LET r == Head(channel)
     IN /\ got' = Append(got, r)
        /\ failure' = (failure \/ r.status = "error")
        /\ main' = IF Len(got) + 1 = Len(marks) THEN "joining" ELSE main
  /\ UNCHANGED <<marks, queue, worker, inside, ran>>

Sorted == [f \in Files |-> CHOOSE r \in {got[i] : i \in DOMAIN got} : r.file = f]
Return ==
  /\ main = "joining" /\ \A w \in Workers : worker[w] = -1
  /\ main' = "returned"
  /\ got' = IF failure THEN <<>> ELSE Sorted
  /\ UNCHANGED <<marks, queue, worker, inside, channel, failure, ran>>

Init ==
  /\ \E n \in 1 .. MaxFiles : marks \in [1 .. n -> {"none", "any", "reason"}]
  /\ \E jobs \in 1 .. MaxJobs :
       worker = [w \in 1 .. (IF jobs < Len(marks) THEN jobs ELSE Len(marks)) |-> 0]
  /\ inside = [w \in Workers |-> "program"]
  /\ queue = [f \in Files |-> f] /\ channel = <<>>
  /\ got = <<>> /\ failure = FALSE /\ main = "receiving"
  /\ ran = [f \in Files |-> <<>>]

\* What a thread that is scheduled does; a program without the host is stopped
\* by its time limit at the latest.
Work(w) == w \in Workers /\ (Take(w) \/ \E outcome \in Outcomes, slow \in BOOLEAN : Finish(w, outcome, slow))
Collect == Receive \/ Return
Next == (\E w \in Workers : Work(w) \/ EnterHost(w) \/ LeaveHost(w)) \/ Collect

Spec == Init /\ [][Next]_vars

-----------------------------------------------------------------------------
TypeOK ==
  /\ main \in {"receiving", "joining", "returned"} /\ failure \in BOOLEAN
  /\ \A w \in Workers : worker[w] \in -1 .. Len(marks)
  /\ Len(queue) <= Len(marks) /\ Len(channel) <= Len(marks)

Returned == main = "returned"
Hangs == \E w \in Workers : inside[w] = "host"

\* What is returned has every file once, in order, though workers race; a test
\* is reported good if it kept within its time and either passed unmarked or
\* failed as it was marked; and nothing is returned if a file could not be read.
ReportIsWhole ==
  Returned =>
    /\ \A f \in Files : Len(ran[f]) = 1
    /\ failure = (\E f \in Files : ran[f][1] = <<"unreadable", FALSE>>)
    /\ ~failure =>
         /\ [f \in Files |-> got[f].file] = [f \in Files |-> f] /\ Len(got) = Len(marks)
         /\ \A f \in Files :
              got[f].status \in Good <=>
                \/ ran[f][1] = <<"passed", FALSE>> /\ marks[f] = "none"
                \/ ran[f][1] = <<"failed", FALSE>> /\ marks[f] # "none"
                \/ ran[f][1] = <<"other failure", FALSE>> /\ marks[f] = "any"
==============================================================================

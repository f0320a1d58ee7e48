------------------------------ MODULE Supervisor ------------------------------
(***************************************************************************)
(* Running a command under a budget: subprocess.rs on Unix.  run starts    *)
(* the command as the leader of a process group, reads its two streams in  *)
(* threads of their own, polls, and ends the whole group before it         *)
(* returns.  A watchdog process ends the group if the caller dies.         *)
(*                                                                         *)
(* The processes of the command may fork, write, exit, grow the directory  *)
(* they work in and leave their group; the caller may be killed.           *)
(***************************************************************************)
EXTENDS Integers, FiniteSets

CONSTANTS
  Processes,   \* processes the command can have; Leader is the first
  Leader,
  MaxOutput,   \* [Streams -> bytes a stream carries at most]
  Budget,      \* [Streams -> bytes kept]
  MaxDisk      \* units of disk the command may use

VARIABLES
  life,     \* life[p]: "unborn", "running", "exited" (by itself) or "killed"
  group,    \* members of the process group
  holds,    \* <<p, s>>: p has the write end of s
  pipe,     \* pipe[s]: bytes written and not yet read
  written,  \* history: bytes ever written to s
  reader,   \* reader[s]: the reading thread
  disk,     \* how much the working directory holds; a link in it counts as
            \* too much
  caller,   \* where run stands; "dead" once its process was killed
  outcome,  \* why the polling loop ended
  result,   \* what run returned
  watchdog, \* "none", "up", "gone"
  stop      \* "timeout" once the deadline has passed, "cancelled" once the
            \* caller was asked to stop, whichever came first

supervisorVars == <<life, group, holds, pipe, written, reader, disk, caller, outcome, result,
                    watchdog, stop>>

Streams == {"stdout", "stderr"}
Living == {p \in Processes : life[p] = "running"}
Members == Living \cap group
NoReader == [step |-> "none", got |-> 0]

TypeOK ==
  /\ group \subseteq Processes /\ holds \subseteq Living \X Streams
  /\ \A s \in Streams : /\ pipe[s] + reader[s].got <= MaxOutput[s]
                        /\ reader[s].got <= Budget[s]
  /\ watchdog = "up" => life[Leader] # "unborn"

\* The parts of the state an action leaves alone.
Command == <<life, group, holds, pipe, written, disk>>
World == <<Command, reader, watchdog, stop>>

-----------------------------------------------------------------------------
(* The command. *)
Fork(p) ==
  /\ p \in Living
  /\ \E q \in Processes :
       /\ life[q] = "unborn" /\ life' = [life EXCEPT ![q] = "running"]
       /\ group' = IF p \in group THEN group \cup {q} ELSE group
       /\ holds' = holds \cup ({q} \X {s \in Streams : <<p, s>> \in holds})
  /\ UNCHANGED <<pipe, written, disk, reader, caller, outcome, result, watchdog, stop>>

Leave(p) ==
  /\ p \in Members /\ p # Leader /\ group' = group \ {p}
  /\ UNCHANGED <<life, holds, pipe, written, disk, reader, caller, outcome, result, watchdog, stop>>

Write(p, s) ==
  /\ <<p, s>> \in holds /\ written[s] < MaxOutput[s] /\ reader[s].step \in {"none", "reading"}
  /\ pipe' = [pipe EXCEPT ![s] = @ + 1] /\ written' = [written EXCEPT ![s] = @ + 1]
  /\ UNCHANGED <<life, group, holds, disk, reader, caller, outcome, result, watchdog, stop>>

Close(p, s) ==
  /\ <<p, s>> \in holds /\ holds' = holds \ {<<p, s>>}
  /\ UNCHANGED <<life, group, pipe, written, disk, reader, caller, outcome, result, watchdog, stop>>

Grow(p) ==
  /\ p \in Living /\ disk \in 0 .. MaxDisk
  /\ disk' = disk + 1
  /\ UNCHANGED <<life, group, holds, pipe, written, reader, caller, outcome, result, watchdog, stop>>

Died(dead, how) ==
  /\ life' = [p \in Processes |-> IF p \in dead THEN how ELSE life[p]]
  /\ holds' = {h \in holds : h[1] \notin dead}

Exit(p) ==
  /\ p \in Living /\ Died({p}, "exited")
  /\ UNCHANGED <<group, pipe, written, disk, reader, caller, outcome, result, watchdog, stop>>

-----------------------------------------------------------------------------
(* read_bounded, one thread per stream.                                    *)
Set(s, r) == reader' = [reader EXCEPT ![s] = r]

\* Mutant: the budget is compared with what was there before this read.
MutTooMuch(s, n) == reader[s].got > Budget[s]
TooMuch(s, n) == reader[s].got + n > Budget[s]

Read(s) ==
  /\ reader[s].step = "reading"
  /\ \/ /\ pipe[s] > 0
        /\ \E n \in 1 .. pipe[s] :
             /\ pipe' = [pipe EXCEPT ![s] = @ - n]
             /\ IF TooMuch(s, n)
                THEN Set(s, [reader[s] EXCEPT !.step = "limit"])
                ELSE Set(s, [reader[s] EXCEPT !.got = @ + n])
     \/ /\ pipe[s] = 0 /\ \A p \in Processes : <<p, s>> \notin holds
        /\ Set(s, [reader[s] EXCEPT !.step = "complete"]) /\ UNCHANGED pipe
  /\ UNCHANGED <<life, group, holds, written, disk, caller, outcome, result, watchdog, stop>>

\* The system call fails, or the thread panics.
ReadFails(s) ==
  /\ reader[s].step = "reading" /\ Set(s, [reader[s] EXCEPT !.step = "failed"])
  /\ UNCHANGED <<Command, caller, outcome, result, watchdog, stop>>

-----------------------------------------------------------------------------
(* The caller. *)
Here(step) == caller = step
Goto(step) == caller' = step

\* DiskMonitor::check asks for the deadline first and last.
Measured == IF stop # "no" THEN stop ELSE IF disk > MaxDisk THEN "disk" ELSE "no"

Return(r) == result' = r /\ Goto("returned")
Refuse(why) == Return([kind |-> why, stdout |-> 0])
Nothing == [kind |-> "none", stdout |-> 0]

Start ==
  /\ Here("idle") /\ UNCHANGED <<World, outcome>>
  /\ IF Measured # "no" THEN Refuse(Measured) ELSE Goto("spawn") /\ UNCHANGED result

Spawn ==
  /\ Here("spawn") /\ UNCHANGED <<pipe, written, disk, reader, outcome, watchdog, stop>>
  /\ \/ Refuse("spawn") /\ UNCHANGED <<life, group, holds>>
     \/ /\ life' = [life EXCEPT ![Leader] = "running"] /\ group' = {Leader}
        /\ holds' = {Leader} \X Streams
        /\ Goto("attach") /\ UNCHANGED result

\* terminate: the signal reaches every member of the group at once; then the
\* watchdog is dismissed and the leader reaped.
MutKillGroup == Died(Living \cap {Leader}, "killed") /\ watchdog' = "gone"
KillGroup == Died(Members, "killed") /\ watchdog' = "gone"

Attach ==
  /\ Here("attach") /\ UNCHANGED <<group, pipe, written, disk, reader, outcome, stop>>
  /\ \/ watchdog' = "up" /\ Goto("check") /\ UNCHANGED <<life, holds, result>>
     \/ KillGroup /\ Refuse("containment")

\* Leaving before the readers exist drops the contained child.
CheckAttached ==
  /\ Here("check") /\ UNCHANGED <<group, pipe, written, disk, reader, outcome, stop>>
  /\ IF stop # "no" THEN KillGroup /\ Refuse(stop)
     ELSE Goto("read stdout") /\ UNCHANGED <<life, holds, watchdog, result>>

SpawnReader(s) ==
  /\ Here(IF s = "stdout" THEN "read stdout" ELSE "read stderr")
  /\ UNCHANGED <<group, pipe, written, disk, stop>>
  /\ \/ /\ Set(s, [step |-> "reading", got |-> 0])
        /\ Goto(IF s = "stdout" THEN "read stderr" ELSE "control")
        /\ UNCHANGED <<life, holds, watchdog, outcome, result>>
     \/ /\ KillGroup /\ UNCHANGED reader
        /\ IF s = "stdout" THEN Refuse("reader") /\ UNCHANGED outcome
           ELSE outcome' = "reader" /\ Goto("join stdout") /\ UNCHANGED result

\* One round of the polling loop, in the order of its tests.
Poll(step, next, verdict) ==
  /\ Here(step) /\ UNCHANGED <<World, result>>
  /\ IF verdict # "no" THEN outcome' = verdict /\ Goto("terminate")
     ELSE Goto(next) /\ UNCHANGED outcome

SomeReader(step) == \E s \in Streams : reader[s].step = step
\* Mutant: neither the deadline nor a cancellation is looked at.
MutPollControl == Poll("control", "flags", "no")
PollControl == Poll("control", "flags", stop)
PollFlags == Poll("flags", "exit", IF SomeReader("limit") THEN "limit"
                                   ELSE IF SomeReader("failed") THEN "failed" ELSE "no")
PollExit == Poll("exit", "disk", IF life[Leader] = "running" THEN "no" ELSE "status")
PollDisk == Poll("disk", "control", Measured) \/ Poll("disk", "control", "no")

Terminate ==
  /\ Here("terminate") /\ KillGroup /\ Goto("join stdout")
  /\ UNCHANGED <<group, pipe, written, disk, reader, outcome, result, stop>>

Join(s) ==
  /\ Here(IF s = "stdout" THEN "join stdout" ELSE "join stderr")
  /\ reader[s].step \in {"none", "complete", "limit", "failed"}
  /\ Goto(IF s = "stdout" /\ outcome # "reader" THEN "join stderr" ELSE "conclude")
  /\ UNCHANGED <<World, outcome, result>>

\* A stream that was too long comes first, then the reason the loop ended,
\* then a reader that failed, and the disk is measured once more.
MutConclude ==
  CASE outcome # "status" -> outcome
    [] SomeReader("failed") -> "failed"
    [] Measured # "no" -> Measured
    [] OTHER -> "ok"
Conclude ==
  CASE SomeReader("limit") /\ outcome # "reader" -> "limit"
    [] outcome # "status" -> outcome
    [] SomeReader("failed") -> "failed"
    [] Measured # "no" -> Measured
    [] OTHER -> "ok"

Finish ==
  /\ Here("conclude") /\ UNCHANGED <<World, outcome>>
  /\ Return([kind |-> Conclude, stdout |-> IF Conclude = "ok" THEN reader["stdout"].got ELSE 0])

-----------------------------------------------------------------------------
(* Time, the one who cancels, the death of the caller, the watchdog.       *)
Stop(why) ==
  /\ stop = "no" /\ stop' = why
  /\ UNCHANGED <<Command, reader, caller, outcome, result, watchdog>>
Expire == Stop("timeout")
Cancel == Stop("cancelled")

\* The threads of the caller die with it.
Killed ==
  /\ caller \notin {"returned", "dead"} /\ Goto("dead")
  /\ reader' = [s \in Streams |-> NoReader] /\ outcome' = "none"
  /\ UNCHANGED <<Command, result, watchdog, stop>>

\* The watchdog sees its pipe end, or that it has another parent.
Watch ==
  /\ Here("dead") /\ watchdog = "up" /\ KillGroup
  /\ UNCHANGED <<group, pipe, written, disk, reader, caller, outcome, result, stop>>

-----------------------------------------------------------------------------
Init ==
  /\ life = [p \in Processes |-> "unborn"] /\ group = {} /\ holds = {}
  /\ pipe = [s \in Streams |-> 0] /\ written = [s \in Streams |-> 0]
  /\ reader = [s \in Streams |-> NoReader]
  /\ disk = 0 /\ caller = "idle" /\ outcome = "none" /\ result = Nothing
  /\ watchdog = "none" /\ stop = "no"

CallerStep ==
  \/ Start \/ Spawn \/ Attach \/ CheckAttached \/ PollControl \/ PollFlags \/ PollExit \/ PollDisk
  \/ Terminate \/ Finish \/ \E s \in Streams : SpawnReader(s) \/ Join(s)

Next ==
  \/ CallerStep \/ Expire \/ Cancel \/ Killed \/ Watch
  \/ \E s \in Streams : Read(s) \/ ReadFails(s)
  \/ \E p \in Processes : Fork(p) \/ Leave(p) \/ Grow(p) \/ Exit(p)
                          \/ \E s \in Streams : Write(p, s) \/ Close(p, s)

\* The system schedules the threads of the program and the watchdog and lets
\* time pass; nothing is owed by the command.
Fairness ==
  /\ WF_supervisorVars(CallerStep) /\ WF_supervisorVars(Watch) /\ WF_supervisorVars(Expire)
  /\ \A s \in Streams : WF_supervisorVars(Read(s))

Spec == Init /\ [][Next]_supervisorVars /\ Fairness

-----------------------------------------------------------------------------
\* However run ends, no process of the group is left, no thread reads and no
\* watchdog waits; and it says ok only when the leader ended by itself and
\* all it wrote to its standard output is in the answer, with both streams
\* within the budget (run_supported, terminate_and_reap).
ReturnIsClean ==
  caller = "returned" =>
    /\ Members = {} /\ watchdog # "up" /\ ~SomeReader("reading")
    /\ result.kind = "ok" => /\ life[Leader] = "exited"
                             /\ result.stdout = written["stdout"]
                             /\ \A s \in Streams : written[s] <= Budget[s]

\* A command is over in bounded time whatever it does, as long as no process
\* that has left the group keeps a stream open (DiskBudget, CommandControl).
Outsider == \E p \in Processes \ group, s \in Streams : <<p, s>> \in holds
RunReturns == caller = "spawn" ~> (caller = "returned" \/ caller = "dead" \/ Outsider)

\* When the caller dies with a watchdog in place, so does the group
\* (ChildContainment::attach).
Guarded == watchdog = "up"
OrphansEnd == (caller = "dead" /\ Guarded) ~> Members = {}
=============================================================================

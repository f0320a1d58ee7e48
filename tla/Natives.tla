-------------------------------- MODULE Natives --------------------------------
(***************************************************************************)
(* The native functions that reach the host: what the tree interpreter     *)
(* (src/interpreter.rs) and the machine (src/vm.rs) ask of the arguments   *)
(* and of the permissions, in their order, the files they change, and the  *)
(* run of another program (src/stdlib.rs).                                 *)
(*                                                                         *)
(* An argument is right, of a wrong kind, or out of its range.  What the   *)
(* network answers is not modelled here.                                   *)
(***************************************************************************)
EXTENDS Integers, Sequences, FiniteSets

CONSTANTS
  MaxOutput,   \* PROCESS_MAX_OUTPUT_BYTES, in pieces
  MaxWritten,  \* bound: pieces a program writes to one stream
  MaxCalls     \* bound: calls of natives

VARIABLES
  files,    \* what is at two paths: one may be granted, the other never is
  granted,  \* the permissions
  call,     \* the call: [native, path, wrong], wrong has a fault by argument
  ended,    \* how it ended in each engine: [tree, vm], and what it told
  calls,
  runs,     \* the process of process_run: "none", "runs", "exited", "killed", "reaped"
  holds,    \* whether a descendant of it holds its streams open
  stream,   \* its two streams: [written, pipe, read, reader]
  waiter,   \* process_run itself: "none", "polls", "late", or the stream it joins
  late      \* whether the deadline of the call has passed

vars == <<files, granted, call, ended, calls, runs, holds, stream, waiter, late>>

Paths == {"mine", "other"}
Streams == {"stdout", "stderr"}
Ask(of, at) == [of |-> of, at |-> at]   \* an argument to be had as a kind of value
Permit(what) == [of |-> what, at |-> 0]

-----------------------------------------------------------------------------
\* What each function of the tree interpreter asks, before its effect; in
\* call_guarded_native the path and its permission come first.
string(at) == Ask("text", at)
Path(permission) == <<string(1), Permit(permission)>>
native_write_file == <<string(1), string(2)>>
native_write_bytes == <<string(1), Ask("bytes", 2)>>
native_append_file == <<string(1), string(2)>>
native_append_bytes == <<string(1), Ask("bytes", 2)>>
native_http_request == <<Ask("count", 4), Ask("count", 5), string(1), string(2), string(3)>>
native_http_bytes_request ==
  <<Ask("texts", 3), Ask("bytes", 4), Ask("count", 5), Ask("count", 6), string(1), string(2)>>
native_socket_tcp_connect == <<string(1), Ask("millis", 2)>>
native_socket_accept == <<Ask("millis", 2), Ask("socket", 1)>>
native_socket_send == <<string(2), Ask("millis", 3), Ask("socket", 1)>>
native_socket_receive == <<Ask("size", 2), Ask("millis", 3), Ask("socket", 1)>>
native_socket_send_bytes == <<Ask("bytes", 2), Ask("millis", 3), Ask("socket", 1)>>
native_socket_receive_bytes == <<Ask("size", 2), Ask("millis", 3), Ask("socket", 1)>>
native_socket_read_exact == <<Ask("size", 2), Ask("millis", 3), Ask("socket", 1)>>
native_socket_udp_send_to == <<string(2), string(3), Ask("millis", 4), Ask("socket", 1)>>
native_socket_udp_receive_from == <<Ask("size", 2), Ask("millis", 3), Ask("socket", 1)>>
native_socket_udp_send_bytes_to == <<Ask("bytes", 2), string(3), Ask("millis", 4), Ask("socket", 1)>>
native_socket_udp_receive_bytes_from == <<Ask("size", 2), Ask("millis", 3), Ask("socket", 1)>>
native_socket_set_nodelay == <<Ask("flag", 2), Ask("socket", 1)>>
native_process_run == <<string(1), Ask("texts", 2), Ask("directory", 3), Ask("count", 4)>>

FileNatives == {"ReadFile", "ReadBytes", "FileStatus", "PathExists", "ReadDirectory", "CreateDirectory",
                "WriteFile", "WriteBytes", "AppendFile", "AppendBytes", "RemovePath"}
TreeFiles(native) ==
  Path("file") \o
  CASE native = "WriteFile" -> native_write_file
    [] native = "WriteBytes" -> native_write_bytes
    [] native = "AppendFile" -> native_append_file
    [] native = "AppendBytes" -> native_append_bytes
    [] native = "RemovePath" -> <<Ask("flag", 2)>>
    [] OTHER -> <<string(1)>>
SocketNatives == {"SocketTcpConnect", "SocketAccept", "SocketSend", "SocketReceive", "SocketSendBytes",
                  "SocketReceiveBytes", "SocketReadExact", "SocketUdpSendTo", "SocketUdpReceiveFrom",
                  "SocketUdpSendBytesTo", "SocketUdpReceiveBytesFrom", "SocketSetNodelay"}
OtherNatives == {"HttpPost", "HttpRequest", "HttpBytesRequest", "EnvRead", "ProcessRun"}
Natives == FileNatives \cup SocketNatives \cup OtherNatives
TreeOthers(native) ==
  CASE native = "SocketTcpConnect" -> native_socket_tcp_connect
    [] native = "SocketAccept" -> native_socket_accept
    [] native = "SocketSend" -> native_socket_send
    [] native = "SocketReceive" -> native_socket_receive
    [] native = "SocketSendBytes" -> native_socket_send_bytes
    [] native = "SocketReceiveBytes" -> native_socket_receive_bytes
    [] native = "SocketReadExact" -> native_socket_read_exact
    [] native = "SocketUdpSendTo" -> native_socket_udp_send_to
    [] native = "SocketUdpReceiveFrom" -> native_socket_udp_receive_from
    [] native = "SocketUdpSendBytesTo" -> native_socket_udp_send_bytes_to
    [] native = "SocketUdpReceiveBytesFrom" -> native_socket_udp_receive_bytes_from
    [] native = "SocketSetNodelay" -> native_socket_set_nodelay
    [] native = "HttpPost" -> <<string(1), string(2)>>
    [] native = "HttpRequest" -> native_http_request
    [] native = "HttpBytesRequest" -> native_http_bytes_request
    [] native = "EnvRead" -> Path("environment")
    [] native = "ProcessRun" -> <<Permit("process")>> \o native_process_run
call_guarded_native(native) == IF native \in FileNatives THEN TreeFiles(native) ELSE TreeOthers(native)

\* What the machine asks: the arguments in their order, then the permission.
VmReads == <<string(1), Permit("file")>>
VmWrites(native) ==
  CASE native = "WriteBytes" -> <<string(1), Ask("bytes", 2), Permit("file")>>
    [] OTHER -> <<string(1), string(2), Permit("file")>>
\* Appending that forgets the permission.
MutVmAppends(native) ==
  CASE native = "AppendBytes" -> <<string(1), Ask("bytes", 2)>> [] OTHER -> <<string(1), string(2)>>

VmAppends(native) ==
  CASE native = "AppendBytes" -> <<string(1), Ask("bytes", 2), Permit("file")>>
    [] OTHER -> <<string(1), string(2), Permit("file")>>
VmRemoves == <<string(1), Ask("flag", 2), Permit("file")>>
VmHttp(native) ==
  CASE native = "HttpPost" -> <<string(1), string(2)>>
    [] native = "HttpRequest" -> <<string(1), string(2), string(3), Ask("count", 4), Ask("count", 5)>>
    [] OTHER -> <<string(1), string(2), Ask("texts", 3), Ask("bytes", 4), Ask("count", 5), Ask("count", 6)>>
VmStreams(native) ==
  CASE native = "SocketTcpConnect" -> <<string(1), Ask("millis", 2)>>
    [] native = "SocketAccept" -> <<Ask("socket", 1), Ask("millis", 2)>>
    [] native = "SocketSend" -> <<Ask("socket", 1), string(2), Ask("millis", 3)>>
    [] native = "SocketSendBytes" -> <<Ask("socket", 1), Ask("bytes", 2), Ask("millis", 3)>>
    [] OTHER -> <<Ask("socket", 1), Ask("size", 2), Ask("millis", 3)>>
VmDatagrams(native) ==
  CASE native = "SocketUdpSendTo" -> <<Ask("socket", 1), string(2), string(3), Ask("millis", 4)>>
    [] native = "SocketUdpSendBytesTo" -> <<Ask("socket", 1), Ask("bytes", 2), string(3), Ask("millis", 4)>>
    [] native = "SocketSetNodelay" -> <<Ask("socket", 1), Ask("flag", 2)>>
    [] OTHER -> <<Ask("socket", 1), Ask("size", 2), Ask("millis", 3)>>
VmProcess == <<Permit("process"), string(1), Ask("texts", 2), Ask("directory", 3), Ask("count", 4)>>
call_standard_native(native) ==
  CASE native \in {"WriteFile", "WriteBytes"} -> VmWrites(native)
    [] native \in {"AppendFile", "AppendBytes"} -> VmAppends(native)
    [] native = "RemovePath" -> VmRemoves
    [] native \in FileNatives -> VmReads
    [] native \in {"HttpPost", "HttpRequest", "HttpBytesRequest"} -> VmHttp(native)
    [] native \in {"SocketTcpConnect", "SocketAccept", "SocketSend", "SocketSendBytes", "SocketReceive",
                   "SocketReceiveBytes", "SocketReadExact"} -> VmStreams(native)
    [] native \in SocketNatives -> VmDatagrams(native)
    [] native = "EnvRead" -> <<string(1), Permit("environment")>>
    [] native = "ProcessRun" -> VmProcess

\* The code of the error that a step ends with, "ok" if none.  Counts, sizes
\* and times have a range; the others are of the kind or not.
Codes(of, fault) ==
  CASE fault = "right" -> "ok"
    [] of = "bytes" -> "BYTES_TYPE"
    [] fault = "range" /\ of = "millis" -> "SOCKET_TIMEOUT"
    [] fault = "range" /\ of = "size" -> "SOCKET_LIMIT"
    [] OTHER -> "RUN000"
Ranged == {"millis", "size", "count"}
Allows(permission, path) == permission \in granted /\ (permission = "file" => path = "mine")
Code(step, c) ==
  IF step.at = 0 THEN IF Allows(step.of, c.path) THEN "ok" ELSE "DENIED"
  ELSE Codes(step.of, c.wrong[step.at])
Outcome(steps, c) ==
  LET failing == {k \in DOMAIN steps : Code(steps[k], c) # "ok"}
  IN IF failing = {} THEN "ok" ELSE Code(steps[CHOOSE k \in failing : \A j \in failing : k <= j], c)

-----------------------------------------------------------------------------
\* The files: nothing, a directory that is empty or full, a text, a longer
\* one, bytes that are no text, and more than a value may hold.
IsFile(x) == x \in {"text", "longer", "bytes", "huge"}
IsDirectory(x) == x \in {"dir", "full"}
Did(ok, after) == [ok |-> ok, after |-> after]
fs_write(x, with) == Did(~IsDirectory(x), IF IsDirectory(x) THEN x ELSE with)
fs_append(x, with) ==
  Did(~IsDirectory(x),
      CASE IsDirectory(x) \/ x = "huge" -> x
        [] x = "absent" -> with
        [] x = "bytes" \/ with = "bytes" -> "bytes"
        [] OTHER -> "longer")
read_file(x) == Did(x \in {"text", "longer", "huge"}, x)
read_file_bytes(x) == Did(IsFile(x) /\ x # "huge", x)
file_status(x) == Did(x # "absent", x)
read_directory(x) == Did(IsDirectory(x), x)
create_directory(x) == Did(~IsFile(x), IF x = "absent" THEN "dir" ELSE x)
remove_path(x, recursive) ==
  LET gone == IsFile(x) \/ x = "dir" \/ (x = "full" /\ recursive) IN Did(gone, IF gone THEN "absent" ELSE x)
Effect(native, x, recursive) ==
  CASE native = "ReadFile" -> read_file(x)
    [] native = "ReadBytes" -> read_file_bytes(x)
    [] native = "FileStatus" -> file_status(x)
    [] native = "PathExists" -> Did(TRUE, x)
    [] native = "ReadDirectory" -> read_directory(x)
    [] native = "CreateDirectory" -> create_directory(x)
    [] native = "RemovePath" -> remove_path(x, recursive)
    [] native = "WriteFile" -> fs_write(x, "text")
    [] native = "WriteBytes" -> fs_write(x, "bytes")
    [] native = "AppendFile" -> fs_append(x, "text")
    [] native = "AppendBytes" -> fs_append(x, "bytes")

-----------------------------------------------------------------------------
NoCall == [native |-> "none", path |-> "mine", wrong |-> [k \in 1 .. 6 |-> "right"]]
NoEnd == [tree |-> "none", vm |-> "none", tells |-> "none"]
Quiet == [s \in Streams |-> [written |-> 0, pipe |-> 0, read |-> 0, reader |-> "none"]]
Asks(native) == {call_standard_native(native)[k] : k \in DOMAIN call_standard_native(native)}
Faults(native) ==
  {[at |-> step.at, fault |-> "kind"] : step \in {x \in Asks(native) : x.at > 0}}
  \cup {[at |-> step.at, fault |-> "range"] : step \in {x \in Asks(native) : x.of \in Ranged}}
\* Calls with at most two arguments that are not what they should be.
Wrong(f, g) == [k \in 1 .. 6 |-> IF k = f.at THEN f.fault ELSE IF k = g.at THEN g.fault ELSE "right"]
Right == [at |-> 0, fault |-> "right"]

Running == waiter # "none"
Call(native) ==
  /\ ~Running /\ calls < MaxCalls /\ calls' = calls + 1
  /\ \E path \in Paths, recursive \in BOOLEAN, f, g \in Faults(native) \cup {Right} :
       /\ f.at < g.at \/ (f = Right /\ g = Right)
       /\ (native \notin FileNatives => path = "mine") /\ (native # "RemovePath" => recursive)
       /\ call' = [native |-> native, path |-> path, wrong |-> Wrong(f, g)]
       /\ LET tree == Outcome(call_guarded_native(native), call')
              vm == Outcome(call_standard_native(native), call')
              did == IF tree = "ok" /\ vm = "ok" /\ native \in FileNatives
                     THEN Effect(native, files[path], recursive) ELSE Did(TRUE, files[path])
              starts == native = "ProcessRun" /\ tree = "ok" /\ vm = "ok"
          IN /\ files' = [files EXCEPT ![path] = did.after]
             /\ \/ /\ starts /\ runs' = "runs" /\ waiter' = "polls"
                   /\ stream' = [s \in Streams |-> [Quiet[s] EXCEPT !.reader = "reads"]]
                   /\ ended' = [tree |-> tree, vm |-> vm, tells |-> "none"]
                \/ /\ runs' = "none" /\ UNCHANGED <<waiter, stream>>   \* also: no such program, no such timeout
                   /\ ended' = [tree |-> tree, vm |-> vm, tells |-> IF did.ok /\ ~starts THEN "done" ELSE "failed"]
  /\ late' = FALSE
  /\ holds' = FALSE   \* what an earlier run has left writes to streams of its own
  /\ UNCHANGED granted

-----------------------------------------------------------------------------
\* The program that runs: it writes, leaves a descendant that shares its
\* streams, which nothing makes it close, and exits.
Rest == UNCHANGED <<files, granted, call, calls>>
Writes(s) ==
  /\ Running /\ (runs = "runs" \/ holds)
  /\ stream[s].reader = "reads" /\ stream[s].written < MaxWritten
  /\ stream' = [stream EXCEPT ![s].written = @ + 1, ![s].pipe = @ + 1]
  /\ Rest /\ UNCHANGED <<ended, runs, holds, waiter, late>>
Spawns ==
  /\ runs = "runs" /\ ~holds /\ holds' = TRUE
  /\ Rest /\ UNCHANGED <<ended, runs, stream, waiter, late>>
Exits ==
  /\ runs = "runs" /\ runs' = "exited"
  /\ Rest /\ UNCHANGED <<ended, holds, stream, waiter, late>>
Closes ==
  /\ holds /\ holds' = FALSE
  /\ Rest /\ UNCHANGED <<ended, runs, stream, waiter, late>>

\* A thread for each stream reads to its end; over the limit it stops.
read_process_output(s) ==
  /\ Running /\ stream[s].reader = "reads"
  /\ \/ \E n \in 1 .. stream[s].pipe :
          stream' = [stream EXCEPT ![s] =
            IF @.read + n > MaxOutput THEN [@ EXCEPT !.reader = "over"]
            ELSE [@ EXCEPT !.read = @ + n, !.pipe = @ - n]]
     \/ /\ stream[s].pipe = 0 /\ runs # "runs" /\ ~holds
        /\ stream' = [stream EXCEPT ![s].reader = "done"]
  /\ Rest /\ UNCHANGED <<ended, runs, holds, waiter, late>>

Answer(code) == waiter' = "none" /\ ended' = [ended EXCEPT !.tells = code]
\* process_run waits for the process until the deadline.  Once the process has
\* ended it waits for the threads, and for these there is no deadline.
try_wait ==
  /\ waiter = "polls" /\ runs = "exited"
  /\ runs' = "reaped" /\ waiter' = "stdout"
  /\ Rest /\ UNCHANGED <<ended, holds, stream, late>>
Deadline ==
  /\ Running /\ ~late /\ late' = TRUE
  /\ Rest /\ UNCHANGED <<ended, runs, holds, stream, waiter>>
Expire ==
  /\ waiter = "polls" /\ runs = "runs" /\ late /\ waiter' = "late"
  /\ Rest /\ UNCHANGED <<ended, runs, holds, stream, late>>
Kill ==
  /\ waiter = "late" /\ runs' = "killed" /\ Answer("PROCESS_TIMEOUT")
  /\ Rest /\ UNCHANGED <<holds, stream, late>>
Joined(s) == stream[s].reader # "reads"
Join(s, next) ==
  /\ waiter = s /\ Joined(s)
  /\ \/ stream[s].reader = "over" /\ Answer("PROCESS_LIMIT")
     \/ stream[s].reader # "over" /\ next = "none" /\ Answer("done")
     \/ stream[s].reader # "over" /\ next # "none" /\ waiter' = next /\ UNCHANGED ended
  /\ Rest /\ UNCHANGED <<runs, holds, stream, late>>
JoinThreads == Join("stdout", "stderr") \/ Join("stderr", "none")

Init ==
  /\ files = [p \in Paths |-> IF p = "mine" THEN "absent" ELSE "text"]
  /\ granted \in {{}, {"file"}, {"environment", "process"}}
  /\ call = NoCall /\ ended = NoEnd /\ calls = 0
  /\ runs = "none" /\ holds = FALSE /\ stream = Quiet /\ waiter = "none" /\ late = FALSE
\* A descendant holds the streams of the run.
Held == Running /\ holds
Program == Spawns \/ Exits \/ Closes \/ \E s \in Streams : Writes(s)
process_run == try_wait \/ Expire \/ Kill \/ JoinThreads
Next ==
  \/ \E native \in Natives : Call(native)
  \/ Program \/ Deadline \/ process_run \/ \E s \in Streams : read_process_output(s)
Spec == Init /\ [][Next]_vars

-----------------------------------------------------------------------------
\* The permissions that a call needs, whichever engine makes it.
Needs(native) ==
  CASE native \in FileNatives -> {"file"} [] native = "EnvRead" -> {"environment"}
    [] native = "ProcessRun" -> {"process"} [] OTHER -> {}
Permitted == \A permission \in Needs(call.native) : Allows(permission, call.path)

\* Without its permission a call ends before its effect in both engines, with
\* an error that depends on the arguments alone.
NothingWithoutPermission ==
  /\ call.native # "none" /\ ~Permitted => "ok" \notin {ended.tree, ended.vm} /\ ended.tells = "done" /\ ~Running
  /\ files["other"] = "text"

\* The same calls succeed in both engines.  Their errors are of one category, as
\* the document of the engines has it, but where more than one thing is wrong
\* and each engine tells the first it asks for: a file that may not be touched
\* and a later argument; a socket, which the tree interpreter looks up last, and
\* an argument with a code of its own; the bytes of a request and its texts.
Wrongs == {k \in 1 .. 6 : call.wrong[k] # "right"}
SocketAskedLast ==
  /\ call.native \in SocketNatives \ {"SocketTcpConnect"} /\ call.wrong[1] # "right"
  /\ \E k \in Wrongs \ {1} :
       /\ \A j \in Wrongs \ {1} : k <= j
       /\ \/ Ask("bytes", k) \in Asks(call.native)
          \/ call.wrong[k] = "range" /\ {Ask("millis", k), Ask("size", k)} \cap Asks(call.native) # {}
CategoriesDiffer ==
  \/ call.native \in FileNatives /\ call.wrong[1] = "right" /\ ~Permitted /\ Wrongs # {}
  \/ SocketAskedLast
  \/ call.native = "HttpBytesRequest" /\ call.wrong[3] = "right" /\ 4 \in Wrongs /\ {1, 2} \cap Wrongs # {}
EnginesAgree ==
  call.native # "none" =>
    /\ (ended.tree = "ok") = (ended.vm = "ok")
    /\ ended.tree # ended.vm <=> CategoriesDiffer

\* What process_run answers is true of the process: it has ended and been
\* waited for, and without an error all it wrote is in the answer.  It is killed
\* and reported as too late only after the deadline, and one that ended by itself
\* never is, however long after the deadline its streams were closed: the
\* document has every run past its deadline end with PROCESS_TIMEOUT (OnTime).
OnTime == late => ended.tells = "PROCESS_TIMEOUT"
AnswersAreTrue ==
  call.native = "ProcessRun" /\ ended.vm = "ok" /\ ~Running /\ runs # "none" =>
    /\ runs \in {"reaped", "killed"}
    /\ runs = "killed" <=> ended.tells = "PROCESS_TIMEOUT"
    /\ runs = "killed" => late
    /\ OnTime <=> runs = "killed" \/ ~late
    /\ ended.tells = "PROCESS_LIMIT" => \E s \in Streams : stream[s].written > MaxOutput
    /\ ended.tells = "done" => \A s \in Streams : stream[s].read = stream[s].written

NativesHold == NothingWithoutPermission /\ EnginesAgree /\ AnswersAreTrue
=============================================================================

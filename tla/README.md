# A verification of yanxu in TLA+

This directory models yanxu (言序), a language implementation in Rust: two
execution engines, a native extension ABI with an event loop, a type checker, a
package manager, permissions, and the tools that build, run, test and debug
programs. The modules are translated from the source, not from the
documentation; where the two disagree, a run shows the disagreement or a property
says exactly how far it goes (section "Findings"). `PROJECT.json` names the source lines behind each definition.

## 1. Inventory

Sources are relative to the repository; `package/` stands for
`crates/yanxu-package/src/`. "Hard" names what tests hardly reach.

| Component | State and operations | Meets | Hard | Correct when |
|---|---|---|---|---|
| Host event queue and timers, `src/host_events.rs` | lifecycle, queue, condition variable, timer workers; post, quit, run, wait, start, cancel | native threads post, the VM drains | posts against quit and timeouts, coalescing, a full queue | bounded, ordered, no lost signal, quit and cancel are final |
| Callback and resource registries, `src/host_handles.rs` | slots with generations, free stack, live set; parents and children | VM, posting threads, destructors | reuse and wrap of generations, panics, depth | a handle reaches its own entry or none; one destructor run each, children first |
| VM side of native ABI v2 and v1, `src/vm.rs`, `src/native_abi*.rs` | VM pointer, pump flag, temporaries; staged libraries, calls, outputs | extensions, file system, lock file | nested pumps, early returns, files that change while they are verified, unloading | nesting restored; only the locked library runs; each output and resource is released once |
| Execution and budgets, `src/vm.rs`, `src/budget.rs` | frames, operands, handlers, meter | tasks, containers, native host | many ways out of an activation | each way gives back what the activation took |
| VM tasks, `src/vm.rs` | task states; make, cancel, await, join | execution | bodies await and cancel one another | run once, final is final, a join settles its group |
| Tree interpreter, compiler, `src/interpreter.rs`, `src/bytecode.rs` | scopes, objects, tasks; instructions | the VM, which must agree | protected regions, scopes, iterators, members | same output, values, errors, task states |
| Type checker, `src/type_checker.rs` | static types, scopes, class tables | both engines | narrowing, inheritance, unions | what it accepts does not fail on types |
| Module loading, `src/vm.rs`, `src/interpreter.rs`, `src/type_checker.rs`, `src/application.rs` | caches, loading stacks, archives | packages, permissions | cycles, retries, edits while running | a module runs once, from a text that was there |
| Garbage collection, both engines | weak list of environments | execution, module cache, callbacks | marking by hand, data that contains itself | nothing reachable is emptied; it ends |
| Standard library, `src/stdlib.rs`, natives of both engines | socket quota, buffers, one child process | permissions, network | deadlines against late data, redirects, pipes held open | quotas exact, data in order, nothing without permission |
| Permissions, `package/permissions.rs` | grants, nets, switches | applications, natives | wildcards against nets, links, restoration | never wider than host and application |
| Embedding and C interface, `src/embed.rs`, `src/ffi.rs` | engine, type history, output | host programs | failures and panics between two runs | checker and runtime agree |
| Debugger, `src/debugger.rs` | breakpoints, step mode | a client | the client leaves, stepping over errors | stops where it was asked to |
| Test runner, `src/testing.rs` | queue, workers, channel | engines | workers race and time out | each file reported once |
| Applications and bundles, `src/application.rs`, `src/gui_bundle.rs`, `src/cli_package.rs`, `src/main.rs` | archive, staging directories | packages, processes that start the output | edits and kills during a build, two builders | what starts is what was built |
| Resolution and lock file, `package/package.rs` | manifest, lock file, caches, project lock | registries, Git, the user | commands and edits at once, yanked releases | one graph, whole, of one moment |
| Registry and Git caches, `package/package.rs` | generations, key locks, object stores | other processes | crashes, damage, links put in place | a name gives the same content for ever |
| Vendor installation, `package/package.rs` | destination, staging and backup directories | file system, the user | failing steps and rollbacks, kills, power failure, leftovers | a safe tree survives, nothing of the user's is lost |
| Path policy and trusted roots, `package/path_policy.rs` | opened directories | loading, packing, resources | renames between system calls | nothing outside an opened root |
| Packing and archives, `package/package.rs`, `package/archive.rs` | capture, tar stream | editors of the tree | changes while packing, limits | what packs is whole and can be read |
| Storage and supervision, `package/storage.rs`, `package/subprocess.rs` | file lock, temporary file; process group | operating system | kills and power failures, forks, full pipes | acknowledged is kept, no process is left |
| Language server, semantic index, resolver, `src/lsp.rs`, `semantic.rs`, `resolver.rs` | open documents | editor, imported files | messages behind the typing, an import saved meanwhile | answers fit their text, a rename changes no meaning |
| Lexer, parser, formatter, binary bytecode format, engineering protocol, text and number functions, documentation | pure functions and I/O | | | not modelled |

`PROJECT.json` lists the components with their status, and under `hazards` what
is hard to test, each at its line with the properties that would catch it.

## 2. Plan

Done, in this order: what several threads or nested calls touch
(`HostEventLoop`, `CallbackRegistry`, `ResourceRegistry`, `NativeHost`);
execution and tasks (`VmExec`, `VmTasks`); the package manager, from the vendor
transaction to the caches, the sessions over trusted roots and the archives; the
two engines compared, on a corpus of programs, on containers, members of classes
and natives; the type checker against both; modules, permissions, sessions, the
debugger, the collectors, the network; applications and bundles; native
extensions from the file to the last resource.

Left:

1. An abstract atomic replacement that `VendorInstall`, `ProjectStorage` and the
   renames of `Bundles` implement.
2. `Resolution` over `DependencyGraph`: today the first knows versions of
   manifests and sources only, the second one command at a time.
3. The wire format of archives against the limits of its readers.

## 3. Modules

### Composition: `MCVm`, `MCPackages`, `MCProcesses`

These run many components on small instances in one state space. The components
of one of them do not share state in the code except through what is modelled on
both sides, so they are explored one at a time: `part` names the one that moves,
and `x1`, `x2`, ... (`others` and the variables of `VmTasks` in `MCVm`) stand for
its variables through `INSTANCE ... WITH`; those a component does not need are 0.
A property of a composite is the conjunction of the properties of its parts, each
under `part = "..."`. The modules below hold the definitions.

### `HostEventLoop` and `ConflatingChannel`

The state of `BoundedHostEventLoop` is one mutex-protected record, so every
operation is one action; `wait_next` is three (`WaitBegin`, `WaitResume`,
`WaitTimeout`), because `Condvar::wait` gives the mutex up. `notified` is the
condition variable: `WaitResume` may also happen without it (spurious wake-up).
`WaitTimeout` returns without looking at the queue again, as the code does.
A timer thread sleeps (`recv_timeout`), posts and sleeps again; `Cancel` sends
the cancellation, `CancelReturns` is the end of `join`. A periodic timer whose
post is refused by a full queue ends for good and nobody is told: the model
keeps that (`TimerRefused`), as nothing in the repository promises otherwise.

`ConflatingChannel` says what users may rely on: ordinary values first in first
out and exactly once, per continuous key only the newest value, a bound, and a
close that discards everything. Values are ranks, so the ordinary ones under way are
a set and the least is delivered next. How an ordinary value and a continuous one are
ordered is left open; `KeepsItsPlace` is about that. The refinement mapping is at
the end of `HostEventLoop`: `Underway` and `KeyPayload` of the queue.

### `Handles`, `CallbackRegistry`, `ResourceRegistry`, `NativeHost`

Handles are (slot, generation) pairs. The callback table is used by one thread;
`live` is `CallbackValidity`, the set other threads read. History `issued` records
handles by creation. Generations wrap at `MaxGeneration` as `next_generation`
does. `MCVm` has two tables side by side (part *vms*).

`ResourceRegistry`: `close` is recursive; the recursion is the stack `closing`,
one frame for each call with the children it has left, in descending order of
handles. A destructor runs in the step `Destroy`, after the entry has been taken.
A panic is caught and changes only the result, so both outcomes are one step.

`NativeHost` extends `CallbackRegistry` and uses its actions. `calls` is the
stack of native calls and pumps. A call goes through the phases *arguments*
(`PassCallable`; two early returns: `ArgumentFails`, `RunRefused`), *native* (VM
pointer, pump error and run guard put aside by `EnterNative` and restored by
`LeaveNative`) and *release* (temporaries released one by one, up to the first
failure). Posting is two steps, the test of `is_live` and the post, with anything
in between. The queue is reduced to what `HostEventLoop` is shown to implement.
`disciplined` says whether the extension keeps the documented rule of one release
for each retain; both kinds are checked.

### `NativeExtensions`

An artifact on its way: opened, sized, read (`Inspect`, `Snapshot`), checked
against lock file and form of library (`Verify` with `validate_elf_library` and
its Mach-O and PE sisters), written to a private directory and read back (`Write`,
`Hold`), opened and described (`Open`, `Describe`), called (`CallNative`,
`Return`, `Judge`, `FreeOutput`, `Deliver`), unloaded when the last of cache,
module values, calls and resources lets go (`Forget`, `Unload`, `RemoveCopy`). An
extension may retain a callback it was lent (`Retain`): the table of callbacks names
no library, so this keeps none.
Anybody may edit the original (`EditFile`), the staged copy until it is locked
(`AlterCopy`) and the lock file (`Relock`) between any two steps. The conversion of
values both ways is by operators (`vm_to_host_value`, `validate_value`,
`encode_value`, `decode_borrowed_value`, `host_to_vm_value`): numbers are counted
in halves and exact up to `Exact`. A library's form is a record of what the
checks look at. v1 is the same with JSON that can or cannot be read; the machine
accepts only v2, so v1 is reached by `load_verified` as an embedding host does.

### `VmExec`

`rust` is the Rust stack: one item per `run_chunk` or pump. `frames` is
`Vm.frames`; the operand stack is reduced to its length, a handler to the length
it cuts the stack to. Instructions are chosen freely among those that compiled
code could contain (`Floor`: code takes only operands it has pushed). All the
ways out of an activation are there: `Return`, `ReturnRefused`, `Unwind`,
`StepBudgetExceeded`. `steps` is saved and restored around pumped callbacks as
`open_step_window` and `close_step_window` do; `charged` counts each window.

### `VmTasks`

An await runs the body of a pending task on the awaiter's stack. Bodies are any
programs over the operations. `await_task` replaces the state by Running before it
looks at it and puts it back on each branch; since nothing runs in between this
is one action per branch. `join_tasks` is a frame of its own with an index.

### `TwoEngines`

The trees of a fragment (plain values, lists, functions, methods of one class with a
private field, tasks, loops, protected regions); `Programs`, a corpus of about a
thousand programs built from them by substitution; the tree interpreter as a
recursive function from a program to its output and outcome (`Interpret`); and
`bytecode.rs` as a function from trees to code. The actions run the code, one per
instruction of `Vm::step`, errors passing activations step by step, and the result is
compared at the end. `Portable` excludes exactly the three differences of finding
5, and `EnginesDiffer` shows each outside of it.

### `Containers`, `Objects`, `StaticTypes`, `Natives`

Beside one another, the two engines' code for the same operations.

- `Containers`: lists, maps, iterators and what wraps them, with callbacks that
  may change the list, advance the iterator they run under, fail, or exceed the
  budget of a collection. State: `lists`, `map`, `iters` (position and what lies
  ahead in each engine), `calls` (next, sort, contains under way). Both engines'
  answers are computed and compared (`answer`); `DifferWhere` says which answers
  differ, and no others do. A course goes on after two answers that differ as long
  as the engines themselves are in one state, and ends where they have parted.
- `Objects`: a member of two classes and a protocol in all declarations, read and
  written by any code. `TreeGet` and `VmGet`, `TreeSets` and `VmSets`, `TreeSuper`
  and `get_super` are compared in every state, `CheckGet`, `CheckSet`,
  `CheckSuper` and `CheckNew` against both.
- `StaticTypes`: one value on its way through a checked program, with the type
  set `belief` the checker has for it; declarations, tests, narrowing by test, nil
  and name, logic, indices, slices, loops.
- `Natives`: every guarded native, its order of questions in each engine, with any
  number of them answered wrongly, the files it changes, and `process_run` with its
  child, a descendant that may hold the pipes, readers and deadline.

### `ModuleLoading`

Five engines load the same modules (interpreter, VM, checker, compiler of
archives, archive that runs), one after another while files are edited: stacks of
texts under way, modules being loaded, the engine's cache, the VM's cache of code
by length and time, the archive. Found file, its metadata and its text are read in
steps of their own.

### `Permissions`, `EngineSession`, `Debugger`, `Collector`, `Networking`

- `Permissions`: grants as words, hosts, addresses and aligned nets; `intersect`,
  the checks and `normalize_existing_or_lexical` over a tree with links;
  `execute_application` swaps the set and tells the native threads' copy.
- `EngineSession`: programs that need, define and import names with types, that
  fail or panic; what the checker remembers against what the runtime has. `left`
  are the names that a panic has left behind.
- `Debugger`: a course of statements with depths and catching lines; a client that
  sets breakpoints, steps, inspects, disconnects or vanishes.
- `Collector`: a heap of environments, closures, bound methods, boxes, classes with
  static fields, instances, iterators, modules and tasks, the results and callbacks
  that hosts and extensions keep; what each collector marks, and what it empties.
  `MachineMarks` is `mark_value` kind by kind, `Endless` its recursion without marks
  on values.
- `Networking`: handles over the quota, streams and datagrams read in pieces while
  the peer sends and the deadline passes, and requests that follow redirects under
  permissions. Bytes are whole characters or halves of one.

### `LanguageServer`

An editor writes messages (`Type`, `Close`, `Ask`, `Leave`) and goes on typing; the
server takes one after another (`DidChange`, `DidClose`, `Answer`, `Exit`); others
save the imported module. A text is a block of statements, its tokens are its
identifiers by position. `Accepts` is the resolver; `Declarations` and `Select` are
the builder of the index, which finds the token of each name in the span of its
statement; `Links` is `resolve_occurrences`. The index knows positions only, so it
is compared with `Meanings`, which follows the structure of the program as it runs:
what a use may stand for, with functions called later than they are declared.
`Untangled` names the texts in which the two must agree; each of its conjuncts is
needed (section 6). A rename of such a text to a name not in use, applied by the
editor, is accepted and leaves every meaning as it was.

### The package manager

- `DependencyGraph`: `install`, `update` and a planned update choose versions and
  reuse the lock file, while releases appear, are yanked and leave the cache.
- `Resolution`: threads with read-only and writing commands, the project lock, the
  graph cache with its scopes, rollbacks of edits; the user saves at any time.
- `CacheDirectories`, `GenerationStore`, `GitObjects`: the way to a key's lock,
  component by component; the publication of a generation by staging, sync and
  rename; the Git stores that are fetched into, validated and replaced. Processes
  are killed, the machine loses power, an outside hand damages things.
- `VendorInstall`: commands one after the other, each from the look at what is there
  through building, syncing and validating the staged tree to `run` and `rollback`,
  every step with its failure beside it. `dir` is what the processes see, `onDisk`
  the states a power failure may leave: all states since the last sync of the parent,
  in which a tree that was never synced may be anything. File systems are assumed to
  keep the order of renames in one directory and never to show half of one. A later
  command may have the name (process id and sequence) of a killed one; the user edits
  the tree in place or puts a directory of his own there. `Safe` means a complete tree
  on everything a power failure may leave; `SomeTreeSurvives` that it stays so.
- `PathPolicy`, `PackagePaths`: which paths a package may contain; a session over
  opened directories, one system call a step, while others rename and replace.
- `FileSnapshot`, `Packing`, `PackageArchives`: reading one file twice while it is
  written, with coarse time stamps or not; packing a tree that is edited; what the
  three readers accept of any archive. A writer may store what was there before
  (`Versions`, `repeats`); editors change the lock file too.
- `ProjectStorage`: the project lock and atomic replacement under kills and power
  failures.

### What runs or writes what others start

- `Supervisor`: a command of several processes that fork, write, leave their
  group; readers, deadline, budget, cancellation and the watchdog.
- `TestRunner`: workers, queue, channel, marks of expected failures; a file may be
  in a host operation (`EnterHost`), which its time limit does not reach.
- `Applications`: `compile_application` collects resources and native modules from
  a package that is edited meanwhile; the archive or executable is written piece by
  piece and may be cut; requests for resources from source and from the archive.
- `Bundles`: builders that stage, verify, move the old bundle aside, install, remove
  the backup and verify the output; each step may fail, the roll-back as well, and
  each builder be killed. `result` keeps how a build ended and where. A program in the output is started meanwhile: it verifies its
  bundle, then reads its archive, each by path.

## 4. Runs

| Run | Question | Bounds and why they are enough |
|---|---|---|
| `HostEventLoop` | order, bound, signals, quit, timers, refinement, liveness | capacity 2, two keys, a periodic and a one-shot timer, 5 posts: the queue fills, coalesces at the front and behind an ordinary event, refuses, all while the owner sleeps |
| `NativeHost` | nesting, references, posting against release and drop, the table below | generations of 2, 3 creates, 2 temporaries, one posting thread, queue of 1, 2 posts: a callback makes a call that pumps while an event for a reused slot waits, and generations wrap |
| `NativeHostLeak` | finding 1 | as above |
| `Vm` | the engines and what is around them, 22 parts | below |
| `TwoVms` | finding 2 | part *vms*: two creates in each VM |
| `VmExecFrames` | finding 3 | as part *machine* |
| `EnginesDiffer` | finding 5 | the corpus |
| `Packages` | the package manager, 11 parts | below |
| `VendorInstallRecovery` | finding 4 | 1 command |
| `LockedGraph` | finding 6 | part *graph* |
| `LongPaths` | finding 7 | part *archives* |
| `Processes` | processes and what they start, 6 parts | below |

The parts of `Vm`, with the property that holds what each is checked for:

| Part | Module, property | Shows | Bounds |
|---|---|---|---|
| *registry* | `ResourceRegistry`: `RegistrySound`, `CloseAllClears` | the table is a forest, fully counted; each resource is in it or destroyed once, children first; `close_all` leaves nothing though destructors panic | 5 creates: all forests of that size, and slots reused |
| *machine* | `VmExec`: `ActivationsIsolated` | a callback's budget takes nothing from the execution it interrupts; depth, operands and frames are given back on every way out | budget 4, two operands and handlers, two executions, one pump |
| *engine* | `TwoEngines`: `PortableProgramsAgree` | both engines print, fail and leave tasks alike; between statements the code is back in its scope | the corpus |
| *containers* | `Containers`: `PortableProgramsAgree` | every answer of iterators, literals, slices and searches is the same in both engines except those `DifferWhere` names; the element budget holds, a map keeps its last entries in order, one borrower advances an iterator | a value and a bound method, collections of 2, 3 iterators, 4 steps |
| *loading* | `ModuleLoading`: `ModulesLoad` | every engine gives a program the same outcome from the same files; a module is initialised before it is used, once, from a text that was there; a cycle is told | 4 modules, 2 runs, 1 edit out of 4 |
| *extensions*, *elf*, *mach*, *pe*, *native values* | `NativeExtensions`: `ModulesLoad` | what is loaded is what the lock file names; a library stays for its values, calls and resources, and for its callbacks just when one of these keeps it; copies follow libraries; resources and outputs are released once, while the library is loaded; values come back as they went, within the limits | 2 libraries, 1 resource, 1 edit; one flaw per form; values at each limit (strings of 2, depth 2, 5 elements, total 3) |
| *sweep* | `Collector`: `CollectionIsExact` | what is unreachable is emptied; of the rest nothing in the interpreter, and in the VM exactly what its marking passes over; it ends except, in the VM, on data that contains itself | four heaps of up to 7 objects that hold each kind, 1 object, 1 store, 1 module or callback more |
| *application* | `Permissions`: `ApplicationConfined` | within host and manifest, and wider exactly by what one names and the other's "*" or net only meets; the set and its copy are restored; what was checked is what is reached | grants of two words of nine, nets for binding too, two directories, two links |
| *session* | `EngineSession`: `HostsServed` | the checker knows the names the runtime has, except those a panic has left behind; a checked program does not fail on the others; each run has its own output, and that of panicked ones | 4 runs |
| *debugger* | `Debugger`: `HostsServed` | it stops where asked to, each request answered once | 2 courses, 7 requests |
| *streams*, *quota*, *http* | `Networking`: `NetworkIsOrderly` | bytes arrive in order and once; the quota counts the open handles; no address, credential or body goes where it must not | 4 bytes, limits 1 and 2; 3 handles over 2 places; 4 sites, 2 redirects |
| *index* | `LanguageServer`: `HostsServed` | each use is linked to what it means; a rename changes no meaning | 520 texts of three statements or more, 2 messages |
| *types* | `StaticTypes`: `CheckedProgramsHold` | a value belongs to the type the checker believes it has; a declaration the checker is sure of does not fail | 14 values, 19 types, 3 steps: more steps repeat shapes |
| *objects* | `Objects`: `CheckedProgramsHold` | engines agree on access; a field keeps its type, a read-only one its value; checked access, `父` and construction do not fail | 2 classes, a protocol, depth 2 |
| *vms* | two `CallbackRegistry` | only `TwoVms` asks of it | 2 creates each |
| *tasks* | `VmTasks`: `BodiesAgree`, `FinalIsFinal`, `GroupSettles` | bodies run once and are on the stack while they run; final is final; a join leaves none pending | 3 tasks, lists of 3 with repetitions, depth 2 |

The parts of `Packages`:

| Part | Module, property | Shows | Bounds |
|---|---|---|---|
| *graph* | `DependencyGraph`: `GraphIsWhole`, `InstallStaysLocked` | graphs are closed and without cycles; with a lock file, offline suffices and no other package comes in | 3 packages, 2 versions, 3 manifests |
| *resolution* | `Resolution`: `CommandsIsolated`, `StandsWhileUsed` | a result is of one moment; the cache dies with its scopes; no acknowledged edit is lost; nothing changes under a build | 2 threads, 2 revisions, 2 contents, 2 commands each |
| *generations*, *git*, *directories* | `GenerationStore`, `GitObjects`, `CacheDirectories`: `CachesAnswer`, `StandsWhileUsed` | one generation, never written over; a revision names its commit, and can be had again offline; racers succeed, stay inside the cache, one holds the lock, what is left is durable | 2 processes, 1 or 2 harms, 2 or 3 requests |
| *vendor* | `VendorInstall`: `VendorRecovers`, `StandsWhileUsed` | a safe tree survives; what is reported is true; leftovers of killed commands and the user's edits are never deleted | 2 commands, 2 graphs, 2 names, 1 edit |
| *paths* | `PackagePaths`: `FilesHeld`, `StandsWhileUsed` | a file is reached from the opened root only, never through a link; imports stay at home; a root's name stands for one directory | 6 directories, 2 links, 2 changes, 3 calls |
| *snapshot* | `FileSnapshot`: `FilesHeld` | a snapshot is a content the file had, unless an old content comes back while time stamps are coarse | 2 files of up to 3 chunks, 3 writes, each of which may store the first content again |
| *packing*, *archives* | `Packing`, `PackageArchives`: `ArchivesAreSound` | an archive is one whole package; what packs unpacks; what unpacks is tame; only an archive is replaced | each kind of path, sizes at the limits |
| *storage* | `ProjectStorage`: `WrittenIsKept` | at every moment, and after a power failure, the file has every acknowledged edit | 2 processes, 3 edits, 1 failure |

The parts of `Processes`:

| Part | Module, property | Shows | Bounds |
|---|---|---|---|
| *command* | `Supervisor`: `ReturnIsClean`, `RunReturns`, `OrphansEnd` | no process, reader or watchdog is left; ok means whole output; it returns; the group ends if the caller dies | 2 processes, 2 bytes, budgets 1 and 0 |
| *natives* | `Natives`: `ReturnIsClean`, `RunReturns` | no effect without permission; both engines succeed alike and tell the same category except where `CategoriesDiffer`; the answer is what the child wrote, and `OnTime` or not; a run returns or a descendant holds it | 2 calls, every argument wrong or right |
| *tests* | `TestRunner`: `ReturnIsClean`, `RunReturns` | each file once, in order, status as marked; it returns or a host operation never does | 2 files, 2 workers |
| *applications* | `Applications`: `ReturnIsClean` | an archive has the resources as they were during the build, readable as from the source; what starts is what was built | 5 files of 3 sizes, 2 builds, 1 edit |
| *editor* | `LanguageServer`: `ReturnIsClean` | an answer fits the text it was asked about, diagnostics the text shown; an applied rename changes no meaning | 20 texts, 3 messages, 1 import saved or not |
| *bundles* | `Bundles`: `ReturnIsClean` | the output is a whole bundle; one survives, in a hidden backup only after a kill or failed roll-back; a failed build leaves what `FailureLeaves` says; a program runs what was installed | 2 builders, 2 builds, 7 archives |

`CHECK_DEADLOCK FALSE` stands where a bound on posts, creates or commands, or the
end of a transaction, lets the model stop.

### Fairness

`HostEventLoop`: a thread that holds or can get the mutex goes on (`WaitResume`
after a signal, the timer thread after its sleep, `join` after the thread's end).
Nothing is assumed of those who post, quit, cancel, or of how long a timer sleeps;
spurious wake-ups are possible and never owed.

`MCProcesses`: the caller of a command, the watchdog, the two readers and the clock
go on, since each is a thread or process of its own that the system schedules; so do
the test runner's threads outside of host operations (`Work`, `Collect`), whose
programs end at the latest at their time limit. Nothing is assumed of what the
commands do, of descendants that hold pipes, or of host operations: `RunReturns`
says that a call returns unless such a descendant holds its pipes for ever, or such
an operation never ends.

## 5. Proofs

Checked by TLAPS for every value of the constants, without the bounds of TLC
(the bounds occur as guards, so a proof holds for each of their values).

`HostEventLoopProofs`: types and bound, `QueueIsSound` (one event per key, order,
lifecycle), `SleeperIsSignalled`, and three action properties: a closed queue stays
closed and empty, a continuous event keeps its place (`KeepsItsPlace`), and a
cancelled timer is silent (`SilentAfterCancel`). The queue changes in three ways
only (in place, at the end, at the front), and a lemma covers each. The invariant
needs two facts besides the checked ones: `Posted`, no event has a rank beyond
`posts`, which makes an appended ordinary event the newest; and `Joined`, a timer
whose cancel has returned has no running worker, which is why it cannot post.
That the queue implements the channel (`ChannelImplemented`, the run's
`ImplementsChannel`) follows from the same invariant. What the mapping makes of a
queue is stated for any queue: a key's payload is that of its only event
(`PayloadOfKey`, from one event per key), and ordinary values and keys together are at
most as many as the events (`ChannelFits`, by counting positions), which is why a post
the queue accepts has room in the channel. An accepted event is a send
(`EnqueueSends`), the first one taken a receive, of the oldest ordinary value because
those stand in order (`TakeReceives`), and quit a close; every other step stutters.
Assumptions: the capacity is positive, keys, timers and the plain kind differ, and
`NoValue`, which stands for an empty key, is no rank.

`NativeHostProofs`, first part, the table of callbacks alone: types (reference counts
within their word) and `TableIsSound`: the free stack, the live set, and
`NeverAnotherCallback`. The last needs `Ages`: as long as there have been no more
creates than generations, a slot's generation is at most the number of creates, so it
has not wrapped, and each handle is at most as old as its slot; a reused slot then has
a generation no older handle has. Assumptions: limits of generations and of references
are positive.

`NativeHostProofs`, second part, the host: types, `PumpIsSafe`, `NestingRestored` and
`HeldIsReferenced`, for any number of threads, callbacks, events and temporaries, on
top of the proof of `TableIsSound`, which the host's actions keep. What makes the
stack tractable is `Nested`: the pump refuses to be entered from inside, so the stack
is a native call, its pump, and a call made by the callback the pump runs, and never
deeper. From it follow `Restores` (what a call has put aside is what held outside of
it), `RunHeld` (the event loop runs while exactly one call holds its run) and `Drops`
(a dropped host has neither calls nor events). `TenantsKnown` and `Meant` tie a handle
to the callback it was issued for, across the time an event spends in the queue and
the time a thread spends between its test and its post; with the ages above, the pump
then runs what was meant or nothing. `Held` counts: the places where the calls of the
stack keep a handle (`Places`), together with the retains the extension owes, are no
more than the references of the slot. Each action moves one place or one reference,
and `FewerPlaces`, `PlacesAfterPass` and `PlacesAfterTail` do the counting once.
Assumptions: positive limits and capacity, and `NoHandle` outside the handles. An
extension that breaks the rule is covered except by `HeldIsReferenced`, which is about
one that keeps it.

`ResourceRegistryProofs`: types, `RegistrySound` (the forest, the count and the free
stack, one destructor run each), `ChildrenFirst`, and the action property
`CloseAllClears`, for any number of resources in trees of any depth and width. Two
facts carry it. `Lineage`: a parent is older than its children, so the forest has no
cycles; a table without roots is then empty, because its oldest resource would be one
(`LeastExists` takes the least number from the library's theorem on well-founded
orders), which is why `close_all`, that goes through the roots only, clears it.
`Descent`: the calls of `close` under way follow one path downwards, each with the
children it has left (`EntryOf(h).children` is the rest together with the child being
closed), so that a resource that is destroyed has none and its parent is on the stack
below. `RootsLeft` says that `close_all` has each root before it or under way; `Ends`
relates the table to what has been destroyed. Assumption: the limit of generations is
positive; nothing is assumed of what stands for no parent.

`VmExecProofs`: types, `WindowsIsolated` and `UnwindingRestores`, for any program, any
nesting of calls, protected regions and pumps, and every budget. The invariant
(`Machine`) says of the Rust stack what each other piece of state must be: the call
depth is the number of its calls, the frames are those of its activations in their
order, each activation keeps the operands below its last mark (`Kept`), and each pump
that runs a callback has a window whose charge is within what it saved (`WindowsOf`).
They are operators of sequences, so that a handful of lemmas say what an item more, an
item less and another last item do to each of them, and a step of the machine is a
composition of these. Every way out of an activation gives back what it took; the
frames need the hypothesis `leaks = 0`, and `AccessAsksTheRunner` shows that this is
the whole extent of finding 3: without a spent step budget `check_access` asks the
frame of the code that runs. Assumption: the two budgets are natural numbers.

`VmTasksProofs`: types and the bound on nesting, `BodiesAgree` (`RunsOnce`,
`RunningIsOnStack`), and the action properties `FinalIsFinal` and `GroupSettles`,
for lists of any length. The steps leave the stack, push a frame or pop one, with a
lemma for each. The invariant adds what a join knows: `JoinsProgress`, the tasks
before `next` have left Pending for good although bodies ran in between; `AboveJoin`,
the frame above a join is the body of the very task it awaits, so the outcome a body
returns belongs to that task; and `AnswerSettled`, an answer the join has not looked
at yet is about a task that has at least begun. Assumption: the depth and the bound
on lists are natural numbers.

`ProjectStorage` (its proofs follow the model in the same module): types and `WrittenIsKept`, for any number of processes (finite
or not), edits, kills and power failures. The invariant counts (`Counts`): begun edits
are acknowledged, pending in a process that is past `Begin`, or over, so whatever the
file may hold after a power failure (`past`), and whatever a process has read, together
with the edits pending, is no more than was begun. `Locks` says that who is past the
lock holds the lock of a file there has been, alone; `Written`, that what is about to be
renamed is one edit more than what its process read, and synced; `Current`, that with
the one lock file nobody is in the middle of replacing a content older than an
acknowledged edit. The second part of `WrittenIsKept` keeps its hypothesis
`deleted = 0`: with a second lock file there can be two holders. Assumptions: at least
one attempt, natural bounds.

`FileSnapshot` (its proofs follow the model in the same module): types and
`SnapshotIsReal`, for any number of files, chunks and writes between any two steps of a
reader. `SnapshotIsReal` speaks of readings under fine time stamps, and of readings
twice as long as no write has stored what was there before (`repeats`): a number that
nothing had then. Read twice (`Twice`): some content
of the call has the length of the first reading and agrees with it as far as the second
has come, and beyond it wherever the file still does; `StatMiddle` finds it, the content
of that very moment, and a write can only make the file disagree, never agree again.
Read once (`Once`): as long as the time stamp is the one of before, what has been read is
what is there, which is why `package` needs stamps that tell writes apart. Assumptions:
the bounds are natural, a file may have the two chunks it begins with, and what stands
for no file is none.

`VendorInstallProofs`: types, `ReportIsTrue`, `LeftoversStay`, `EditsStay` and the action
property `SomeTreeSurvives`, for any number of commands, graphs, names and edits, any
step failing, and kills and power failures between any two: all that `TypeOK`,
`VendorRecovers` and `StandsWhileUsed` say of *vendor*. A tree is known by the
command that wrote it. `Sound` says of one state of the directories, of the present one
and of each a power failure may leave (`World`): a tree is at one place, what is unsynced
is in a staging directory only, and no command finds a tree of its own number before it
has published one. Along the steps of the transaction `Phases` says which `state` each
finds, `OldTree` and `NewTree` where the two trees are (the old one synced in the backup
before the new one is moved or withdrawn, the new one in every state a power failure may
leave before the backup is deleted), `Leftovers` that the command's own hidden places
were empty before it came, `Edits` that what the user may expect to keep is never at a
place a command deletes, `RolledBack` that a rollback which goes on has the old tree
back. A withdrawn tree needs an argument of its own if nothing was installed: the state
before the publication is still among those on the disk, so a tree that was safe then is
safe now. Each step of the code has a lemma; the theorem is their composition.
Assumption: the bound on commands is natural.

Only model-checked: liveness under fairness (`WaitsEnd`, `RunReturns`,
`OrphansEnd`), which is out of the prover's reach; the comparison of the
engines, whose interpreter is a recursive operator; and the modules not
named in this section.

## 6. Findings

1. `NativeHostLeak`: when an argument cannot be converted, or `run` is refused,
   `call_native_v2` returns before the loop that releases the callbacks registered
   for earlier arguments (`src/vm.rs:3956`, `src/vm.rs:3963`).
2. `TwoVms`: `reference/native-abi-v2.md:26` says that handles of another VM are
   refused; a handle names no VM, and the first callbacks of two VMs have the same
   handle.
3. `VmExecFrames`: an activation whose step budget is spent keeps its frame
   (`src/vm.rs:1061`); code that runs later in that VM is taken for code of that
   frame by `check_access`.
4. `VendorInstallRecovery`: `CHANGELOG.md:59` promises that a failed replacement
   restores the old tree or keeps what is needed; if the deletion of the backup
   fails half-way, the old tree is partly gone although the run reports a failure.
5. `EnginesDiffer`: both engines must agree by
   `spec/language/v1/execution-and-compatibility.md:3`; they differ on a list that
   grows while it is iterated, on names of a try branch in its catch branch, and on
   private members in a plain function that a method calls.
6. `LockedGraph`: `spec/language/v1/formats.md:36` promises the locked graph; of two
   locked versions of a package the first that suits is taken
   (`package.rs:3173`), not the one the edge names.
7. `LongPaths`: `archive.rs:33` says paths up to the format's limit can be read; a
   path too long for the tar header packs and is refused when it is unpacked
   (`archive.rs:398`).

The next ones are on passing runs: the property is the exact statement of where the
code keeps to the document and where it does not, so that any further departure
would violate it.

8. `Vm`, `PortableProgramsAgree` (`Containers`): `排序` and `倒序` collect in the VM
   without budget and after a refusal the iterators stand at different places; empty
   bounds of a slice, a map literal with a repeated key at the budget and a bound
   method compared with itself differ (`src/vm.rs:2551`), against
   `execution-and-compatibility.md:3` and `:5`.
9. `Vm`, `ModulesLoad` (`StaysForCallbacks`): a retained callback keeps no library
   loaded (`src/vm.rs:536`), against `reference/native-abi-v2.md:36`.
10. `Vm`, `CollectionIsExact`: `mark_value` passes over receivers, the classes of
    instances, parents and static fields of classes, and objects behind iterators,
    begins at no callback and no result, and does not end on a cyclic list
    (`src/vm.rs:5779`), against `CHANGELOG.md:613` and
    `docs/project/archive/DEVELOPMENT_0_3_TO_0_7.md:65`.
11. `Vm`, `ApplicationConfined` (`Confined`, `Met`): the intersection of "*" with a
    named sensitive address opens that address, though "*" alone does not
    (`permissions.rs:632`), and that of a net with a name of an address to bind keeps
    the name; against the comment at `permissions.rs:176`, `SECURITY.md:11` and
    `execution-and-compatibility.md:7`.
12. `Vm`, `HostsServed` (`CheckerKnowsRuntime`): after a panic caught by the C
    interface the engine is kept as it is (`src/ffi.rs:88`), against
    `execution-and-compatibility.md:11`.
13. `Processes`, `ReturnIsClean` (`FailureLeaves`, `SomeBundleSurvives`): a build that
    fails after its second rename is not rolled back, a failed roll-back is not told,
    and a builder killed between the renames leaves the old bundle where no command
    looks (`src/gui_bundle.rs:235`), against `reference/gui-bundle.md:41` and
    `reference/gui-security.md:30`.
14. `Processes`, `ReturnIsClean` (`CategoriesDiffer`): with two things wrong in one
    call the engines may tell different ones (`src/interpreter.rs:1995`), against
    `execution-and-compatibility.md:3`.
15. `Processes`, `RunReturns` and `OnTime`: a descendant that holds the pipes keeps
    `process_run` beyond its deadline, for ever or to a late success
    (`src/stdlib.rs:94`), against `execution-and-compatibility.md:9`. That a test in a
    host operation is waited for, on the other hand, is what
    `reference/migration-1.1.18.md:28` says.

### Behaviour met on the way

The models keep these as they are. For none of them a sentence was found that promises
otherwise, except where one is named.

- Execution: advancing an iterator from its own callback panics in both engines.
  `包含` over a range whose step is lost to rounding never returns. Objects whose
  `遍始` return each other, and a cyclic list in the initial value of a field, recurse
  without end.
- Checker: a slice of a tuple keeps the tuple's type; comparing the type name of an
  object with "对象" narrows though the name is that of the class. Both are excluded
  by `honest`. The engines test function types and generic declared bases differently.
  A class that overrides a private method makes its parent's checked access fail.
- Collector: it is called only through the public `collect_garbage`; the cache of an
  application's modules is no root of it.
- Sessions: an edited module can make the history fail the checker until a reset.
- Debugger: a step left over when a program ends stops the next one; a disconnect in
  a pause does not end `serve`.
- Language server: a use is linked by name and position alone, so to a member of that
  name, to the error name inside the try branch, to the variable whose own initial
  value it is in (`let a = a`), and never to a declaration that follows it; an empty
  loop takes the name for its iterable. A rename to a name in use is not refused. When
  one import cannot be read, none of them is known, and a member of a module is renamed
  as if it were the document's own. (`docs/project/archive/DEVELOPMENT_0_3_TO_0_7.md:129`
  speaks of one model of lexical scopes for all of them.)
- Network: an exact read that fails loses what it read; a failed text read keeps it,
  so invalid UTF-8 makes every later text read fail. A connection accepted at the
  full quota is dropped.
- Permissions: a net given for binding matches no bind.
- Extensions: a module value may be called after permissions were reduced; integers
  beyond 2^53 are rounded, tuples come back as lists; a killed process leaves its
  staged directory.
- Applications: a resource named "./x" is read from source and refused by the
  archive. Only the compressed size is checked when writing, the decoded one when
  reading, so a large native module gives an archive nobody can read. A standalone
  whose write was cut before its footer starts as the plain command line.
- Bundles: a program that runs in a hidden backup is not verified. Two builders may
  report a manifest that is not the one in the output. A bundle signed as its plan
  says is refused by its own verification.
- Snapshots: `CHANGELOG.md:63` has any drift of the content fail the packing. Under one
  time stamp a file whose two halves are written, written back and written once more
  in the same order, each time in the middle of a reading, is returned as a mixture
  that never was. This takes six writes, more than the run has; by the theorem
  something must have come back (`repeats`). `read_package_file_snapshot`, which the
  packing does not use, reads once, and there two writes are enough.
- Packing: a lock file that is edited after the resolution is archived as it is, with
  sources it does not describe.
- A periodic timer whose post a full queue refuses once is silent for good.
- Vendor installation: what a killed command leaves stays (`LeftoversStay`), and no
  later run takes it up: if the old tree is in its backup, the next command sees none.
  A tree the user edits in the moment it is published is withdrawn and deleted when
  its validation fails.

## 7. Not modelled

- The lexer, the parser and the formatter, the binary bytecode format, completion and
  hover, the engineering protocol, text and number functions, documentation: functions of their
  input without state that lasts.
- Twins for WASI and Windows (job objects, reopening of staged files, ACLs).
- In the modules that exist: sending and addresses of sockets; the JSON of ABI v1;
  inference for generic functions; narrowing of a name that a call reassigns; dangling
  links under permissions; downloads in more than one step; the text of manifests and
  of platform files; the time limit of the execution budget.
- A panic inside a pumped callback, which skips the closing of the step window
  (`src/vm.rs:626`): what may panic there is not told by the code. A native thread that
  uses the host table while the VM is dropped (`src/vm.rs:506`) is undefined behaviour
  outside Rust's reach. A destructor that calls the host again (`src/vm.rs:3552`) meets
  a borrow that is under way and panics.

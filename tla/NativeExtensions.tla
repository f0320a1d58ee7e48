--------------------------- MODULE NativeExtensions ---------------------------
(***************************************************************************)
(* How a native extension is found, verified, staged, loaded, called and   *)
(* let go: src/native_abi.rs and src/native_abi_v2.rs with the load and    *)
(* the value conversions of src/vm.rs.  NativeHost has what happens inside *)
(* a call, ResourceRegistry what happens to a registered resource.         *)
(*                                                                         *)
(* One thread loads and calls.  The file of a package may be edited at any *)
(* time and the staged copy until it is verified.  A program keeps the     *)
(* modules it has loaded; an embedding host does the same by the first     *)
(* ABI, which knows no cache.  A content stands for its checksum.          *)
(***************************************************************************)
EXTENDS Integers, Sequences, FiniteSets, SequencesExt

CONSTANTS
  Images,     \* the contents a library file may have: name -> image
  Artifacts,  \* the artifacts a lock file may name, all of one package
  Values,     \* values a program passes
  Replies,    \* values of the second ABI that an extension may return
  Format,     \* "elf", "mach" or "pe"
  MaxSize, MaxDescriptors, MaxDependencies, MaxSlices,   \* limits of the code
  MaxDepth, MaxElements, MaxString, MaxTotal,       \* HostValueLimits
  Exact,      \* 2^53 - 1
  MaxLibraries, MaxResources, MaxEdits              \* bounds

VARIABLES
  disk,       \* the content of the artifact's file
  lock,       \* the artifact the lock file names
  frames,     \* [permitted, cache, application, modules]: the VM, and applications it runs
  loading,    \* the load under way
  libraries,  \* [artifact, content, tree, loaded, held, entered, retained]: each staged library
  call,       \* the call under way
  resources,  \* [of, holder, destroyed, sound]: what extensions handed over
  answer,     \* the outcome of the last step
  edits

vars == <<disk, lock, frames, loading, libraries, call, resources, answer, edits>>

-----------------------------------------------------------------------------
(***************************************************************************)
(* Values.  A number is counted in halves; a program's numbers and the     *)
(* floating numbers of the ABI have few digits, its integers many.         *)
(***************************************************************************)
Whole(n) == n % 2 = 0
Magnitude(n) == IF n < 0 THEN -n ELSE n

\* i64 as f64: beyond Exact + 1 only every second integer has a number.
as_f64(i) ==
  LET half == i \div 2
  IN  IF Magnitude(i) <= Exact + 1 \/ i % 2 = 0 THEN i ELSE IF half % 2 = 0 THEN 2 * half ELSE 2 * half + 2

V(kind, n) == [kind |-> kind, n |-> n, items |-> <<>>]
W(kind, items) == [kind |-> kind, n |-> 0, items |-> items]
Bad == V("refused", 0)
AllOf(kind, items) == IF Bad \in ToSet(items) THEN Bad ELSE W(kind, items)

\* What a program's value is for the ABI; a map is its keys and values in turn.
RECURSIVE vm_to_host_value(_)
vm_to_host_value(v) ==
  LET items == [i \in DOMAIN v.items |-> vm_to_host_value(v.items[i])] IN
  CASE v.kind \in {"nil", "bool", "text", "bytes", "resource"} -> v
    [] v.kind = "-0" -> V("integer", 0)
    [] v.kind = "number" -> IF Whole(v.n) /\ Magnitude(v.n) <= 2 * Exact THEN V("integer", v.n \div 2) ELSE v
    [] v.kind \in {"list", "tuple"} -> AllOf("array", items)
    [] v.kind = "map" -> AllOf("map", items)
    [] v.kind = "function" -> V("callback", v.n)
    [] OTHER -> Bad   \* not finite, a class, an instance, an error

\* validate_value: how many elements and bytes a value has, or that it is refused.
Refused == [elements |-> MaxElements + 1, bytes |-> 0, fits |-> FALSE]
RECURSIVE validate_value(_, _, _)
validate_value(v, depth, stats) ==
  LET one == [stats EXCEPT !.elements = @ + 1]
      after == FoldLeft(LAMBDA s, item : IF s.fits THEN validate_value(item, depth + 1, s) ELSE s, one,
                        CASE v.kind \in {"array", "map"} -> v.items
                          [] v.kind = "error" /\ v.items[3].kind # "nil" -> <<v.items[3]>>
                          [] OTHER -> <<>>)
      owned == CASE v.kind \in {"text", "bytes"} -> v.n
                 [] v.kind = "error" -> v.items[1].n + v.items[2].n
                 [] OTHER -> 0
  IN  IF depth > MaxDepth \/ one.elements > MaxElements \/ (v.kind = "text" /\ v.n > MaxString) \/ ~after.fits
      THEN Refused
      ELSE [after EXCEPT !.bytes = @ + owned, !.fits = after.bytes + owned <= MaxTotal]
Validate(v) == validate_value(v, 0, [elements |-> 0, bytes |-> 0, fits |-> TRUE]).fits

\* encode_value: the form in which an argument is lent.  A resource is lent as
\* its handle.
RECURSIVE encode_value(_)
encode_value(v) ==
  IF v.kind \in {"array", "map"} THEN AllOf(v.kind, [i \in DOMAIN v.items |-> encode_value(v.items[i])])
  ELSE IF v.kind = "not finite" THEN Bad ELSE v

encode_arguments(v) == IF Validate(v) THEN encode_value(v) ELSE Bad

\* copy_value_bytes: bytes that are too many, or none where some are announced.
copy_value_bytes(v, limit) == IF v.n > limit \/ v.n = -1 THEN Bad ELSE v

\* decode_borrowed_value: what the host copies of a value it has been lent.  A
\* resource inside a value is refused, and so are a text that is not UTF-8, an
\* array without its items and a kind nobody knows.
RECURSIVE decode_borrowed_value(_, _)
decode_borrowed_value(v, depth) ==
  LET items == [i \in DOMAIN v.items |-> decode_borrowed_value(v.items[i], depth + 1)] IN
  CASE depth > MaxDepth -> Bad
    [] v.kind \in {"nil", "bool", "integer", "number", "callback"} -> v
    [] v.kind = "text" -> copy_value_bytes(v, MaxString)
    [] v.kind = "bytes" -> copy_value_bytes(v, MaxTotal)
    [] v.kind = "array" -> IF Len(v.items) > MaxElements THEN Bad ELSE AllOf("array", items)
    [] v.kind = "map" -> IF Len(v.items) > 2 * (MaxElements \div 2) THEN Bad ELSE AllOf("map", items)
    [] v.kind = "error" ->
         IF Len(v.items) # 3 \/ Bad \in ToSet(items) \/ {v.items[1].kind, v.items[2].kind} # {"text"} THEN Bad
         ELSE W("error", items)
    [] OTHER -> Bad

\* What the program gets.  A handle of a callback does not go back to it.
RECURSIVE host_to_vm_value(_)
host_to_vm_value(v) ==
  LET items == [i \in DOMAIN v.items |-> host_to_vm_value(v.items[i])] IN
  CASE v.kind \in {"nil", "bool", "text", "bytes", "number", "resource"} -> v
    [] v.kind = "integer" -> V("number", 2 * as_f64(v.n))
    [] v.kind = "array" -> AllOf("list", items)
    [] v.kind = "map" -> AllOf("map", items)
    [] v.kind = "error" -> W("error", <<v.items[1], v.items[2]>>)   \* the details become part of the message
    [] OTHER -> Bad

-----------------------------------------------------------------------------
(***************************************************************************)
(* Finding and verifying.                                                  *)
(***************************************************************************)
Idle == [at |-> "idle"]
Frame == IF frames = <<>> THEN [permitted |-> FALSE] ELSE frames[Len(frames)]
\* A library that nobody refers to is unloaded before its staged copy goes.  The
\* registry of the callbacks knows no library: one it has retained does not
\* keep it.
Referenced(n) ==
  \/ \E i \in DOMAIN frames : \E entry \in frames[i].cache : entry[2] = n
  \/ libraries[n].held
  \/ call.at # "idle" /\ call.library = n
  \/ \E r \in DOMAIN resources : resources[r].of = n /\ resources[r].holder \in {"call", "host"}
Staged(n) == loading.at \in {"staging", "written", "held", "loaded"} /\ n = Len(libraries)
Dropping(n) == ~Staged(n) /\ ((libraries[n].loaded /\ ~Referenced(n)) \/ libraries[n].tree = "removing")
Settled == \A n \in DOMAIN libraries : ~Dropping(n)
Quiet == Settled /\ loading = Idle /\ call = Idle

No == [what |-> "none"]
Error(code) == [what |-> "error", code |-> code]
Module(n, wanted, permitted) == [what |-> "module", library |-> n, wanted |-> wanted, permitted |-> permitted]
Refuse(code) ==
  /\ loading' = Idle
  /\ answer' = Error(code)
  /\ UNCHANGED <<disk, lock, frames, libraries, call, resources, edits>>

\* validate_artifact_declaration, for either ABI.
Declaration(artifact, abi) ==
  CASE artifact.abi # abi -> "NATIVE_ABI"
    [] ~Frame.permitted -> "NATIVE_PERMISSION"
    [] artifact.target # "here" -> "NATIVE_TARGET"
    [] artifact.checksum \notin DOMAIN Images -> "NATIVE_CHECKSUM"
    [] artifact.size > MaxSize -> "NATIVE_LIMIT"
    [] OTHER -> "none"

Begin(way, artifact, at, content) ==
  [at |-> at, way |-> way, artifact |-> artifact, content |-> content]

\* The key of the cache: where the library comes from and its checksum.
MutKey(way, artifact) == way
Key(way, artifact) == <<way, artifact.checksum>>
Hit(way, artifact) == {n \in DOMAIN libraries : <<Key(way, artifact), n>> \in Frame.cache}

\* A library in the cache is given only under the permissions of the moment.
MutMayReuse == TRUE
MayReuse == Frame.permitted

\* A program asks for the module: from the cache, under the permissions of the
\* moment, or anew; an application has its own bytes, and no file is read.
load_native_v2 ==
  /\ Quiet /\ frames # <<>>
  /\ LET way == IF Frame.application THEN "yxb" ELSE "disk"
         modules == IF Frame.application THEN Frame.modules ELSE {lock}
     IN  \/ modules = {} /\ Refuse("RUNTIME")
         \/ \E artifact \in modules :
              LET hit == Hit(way, artifact)
                  code == Declaration(artifact, 2)
              IN  IF Frame.application /\ artifact.abi # 2 THEN Refuse("RUNTIME")
                  ELSE IF hit # {} /\ ~MayReuse THEN Refuse("NATIVE_PERMISSION")
                  ELSE IF hit # {}
                  THEN \E n \in hit :
                         /\ answer' = Module(n, artifact, Frame.permitted)
                         /\ libraries' = [libraries EXCEPT ![n].held = TRUE]
                         /\ UNCHANGED <<disk, lock, frames, loading, call, resources, edits>>
                  ELSE IF code # "none" THEN Refuse(code)
                  ELSE /\ loading' = IF Frame.application THEN Begin(way, artifact, "read", artifact.checksum)
                                                         ELSE Begin(way, artifact, "opened", disk)
                       /\ answer' = No
                       /\ UNCHANGED <<disk, lock, frames, libraries, call, resources, edits>>

\* An embedding host loads a library of the first ABI.
load_verified ==
  /\ Quiet /\ frames # <<>>
  /\ LET code == Declaration(lock, 1)
     IN  IF code # "none" THEN Refuse(code)
         ELSE /\ loading' = Begin("host", lock, "opened", disk)
              /\ answer' = No
              /\ UNCHANGED <<disk, lock, frames, libraries, call, resources, edits>>

\* The file that was opened has the size the lock file says.
Inspect ==
  /\ loading.at = "opened"
  /\ IF Images[loading.content].size # loading.artifact.size \/ Images[loading.content].size > MaxSize THEN Refuse("NATIVE_LIMIT")
     ELSE /\ loading' = [loading EXCEPT !.at = "inspected"]
          /\ UNCHANGED <<disk, lock, frames, libraries, call, resources, answer, edits>>

\* The snapshot of the file, which may fail.
Snapshot ==
  /\ loading.at = "inspected"
  /\ \/ /\ loading' = [loading EXCEPT !.at = "read"]
        /\ UNCHANGED <<disk, lock, frames, libraries, call, resources, answer, edits>>
     \/ Refuse("NATIVE_IO")

\* The format of a library, of which only the second ABI takes a look: it is one
\* for this machine and depends on nothing but named libraries of the system.
validate_bare_dependency_name(name) == name = "bare"   \* not a path, not hidden
validate_elf_dependencies(f) ==
  /\ Len(f.needed) <= MaxDependencies
  /\ f.tags \cap {"rpath", "runpath"} = {}
  /\ \A i \in DOMAIN f.needed : validate_bare_dependency_name(f.needed[i])
\* Mutant: the tags that add places to search are not looked at.
Mutvalidate_elf_library(f) == f.shared /\ f.machine = "this"
validate_elf_library(f) ==
  /\ f.shared /\ f.machine = "this" /\ f.dynamic
  /\ f.tags \cap {"rpath", "runpath", "audit", "filter"} = {}
  /\ f.resolved
  /\ validate_elf_dependencies(f)

validate_mach_dependencies(f) ==
  Len(f.needed) <= MaxDependencies /\ f.tags = {} /\ ToSet(f.needed) \subseteq {"system"}
validate_mach_library(f) ==
  /\ f.type \in {"dylib", "bundle"} /\ f.machine = "this"
  /\ f.commands \subseteq {"load"}
  /\ f.resolved
  /\ f.identifiers = (IF f.type = "dylib" THEN 1 ELSE 0)
  /\ validate_mach_dependencies(f)
\* A file for several machines has one slice for this one.
validate_mach_container(slices) ==
  /\ Len(slices) \in 1..MaxSlices
  /\ LET mine == SelectSeq(slices, LAMBDA f : f.machine = "this")
     IN  Len(mine) = 1 /\ validate_mach_library(mine[1])

validate_pe_library(f) ==
  /\ f.shared /\ f.machine = "this" /\ f.header
  /\ Len(f.needed) <= MaxDependencies
  /\ ~f.delayed
  /\ \A i \in DOMAIN f.needed : validate_bare_dependency_name(f.needed[i])

\* The build knows the format of its own system.
validate_native_library_metadata(content) ==
  LET form == Images[content].form
  IN  /\ form.format = Format
      /\ Format = "elf" => validate_elf_library(form)
      /\ Format = "mach" => IF form.slices = <<>> THEN validate_mach_library(form) ELSE validate_mach_container(form.slices)
      /\ Format = "pe" => validate_pe_library(form)

\* What is refused in the bytes that were read.  Mutant: their checksum is not
\* compared.
MutVerdict(artifact, content, way) == IF Images[content].size # artifact.size THEN "NATIVE_LIMIT" ELSE "none"
Verdict(artifact, content, way) ==
  CASE Images[content].size # artifact.size \/ Images[content].size > MaxSize -> "NATIVE_LIMIT"
    [] content # artifact.checksum -> "NATIVE_CHECKSUM"
    [] way # "host" /\ ~validate_native_library_metadata(content) -> "NATIVE_FORMAT"
    [] OTHER -> "none"

\* load_verified_bytes_after_policy, up to the staging directory.
Verify ==
  /\ loading.at = "read"
  /\ LET code == Verdict(loading.artifact, loading.content, loading.way)
     IN  \/ code # "none" /\ Refuse(code)
         \/ code = "none" /\ Refuse("NATIVE_IO")   \* no directory can be made
         \/ /\ code = "none" /\ Len(libraries) < MaxLibraries
            /\ libraries' = Append(libraries, [artifact |-> loading.artifact, content |-> "nothing", tree |-> "directory",
                                               loaded |-> FALSE, held |-> FALSE, entered |-> FALSE, retained |-> FALSE])
            /\ loading' = [loading EXCEPT !.at = "staging"]
            /\ UNCHANGED <<disk, lock, frames, call, resources, answer, edits>>

-----------------------------------------------------------------------------
(***************************************************************************)
(* Staging and loading.                                                    *)
(***************************************************************************)
Newest == Len(libraries)
SetLast(field, x) == libraries' = [libraries EXCEPT ![Newest] = [@ EXCEPT ![field] = x]]

\* An error in any step after the directory was made: what was staged is
\* dropped, the library first.
Abandon(code) ==
  /\ loading' = Idle
  /\ answer' = Error(code)
  /\ SetLast("tree", "removing")
  /\ UNCHANGED <<disk, lock, frames, call, resources, edits>>

\* stage_verified_library: the bytes are written to a new file.
Write ==
  /\ loading.at = "staging"
  /\ \/ /\ SetLast("content", loading.content)
        /\ loading' = [loading EXCEPT !.at = "written"]
        /\ UNCHANGED <<disk, lock, frames, call, resources, answer, edits>>
     \/ Abandon("NATIVE_IO")

\* Mutant: the staged copy is not read again.
MutHold ==
  /\ loading.at = "written"
  /\ SetLast("tree", "locked")
  /\ loading' = [loading EXCEPT !.at = "held"]
  /\ UNCHANGED <<disk, lock, frames, call, resources, answer, edits>>

\* The copy is made read-only, read again through its handle and compared; then
\* its directories are locked.
Hold ==
  /\ loading.at = "written"
  /\ LET copy == libraries[Newest].content
         size == Images[loading.content].size
     IN  \/ Images[copy].size # size /\ Abandon("NATIVE_IO")
         \/ Images[copy].size = size /\ copy # loading.content /\ Abandon("NATIVE_CHECKSUM")
         \/ Abandon("NATIVE_IO")
         \/ /\ copy = loading.content
            /\ SetLast("tree", "locked")
            /\ loading' = [loading EXCEPT !.at = "held"]
            /\ UNCHANGED <<disk, lock, frames, call, resources, answer, edits>>

\* The library is opened, which runs its initialisation, unless it cannot be or
\* has no entry.
Open ==
  /\ loading.at = "held"
  /\ \/ /\ libraries' = [libraries EXCEPT ![Newest].loaded = TRUE, ![Newest].entered = Frame.permitted]
        /\ loading' = [loading EXCEPT !.at = "loaded"]
        /\ UNCHANGED <<disk, lock, frames, call, resources, answer, edits>>
     \/ Abandon("NATIVE_LOAD")

\* validate_descriptor and validate_descriptor_v2.  A name that is "" stands for
\* one that cannot be read; the first ABI wants the size of the structure exact.
Distinct(names) == Cardinality(ToSet(names)) = Len(names)
NamesOf(entries) == [i \in DOMAIN entries |-> entries[i].name]
validate_descriptor(d) ==
  CASE d.null -> "NATIVE_DESCRIPTOR"
    [] d.abi # 1 \/ d.struct # 0 -> "NATIVE_ABI"
    [] d.name # "p" -> "NATIVE_NAME"
    [] ~d.frees -> "NATIVE_DESCRIPTOR"
    [] \E count \in {Len(d.functions), Len(d.constants), Len(d.types)} : count > MaxDescriptors -> "NATIVE_LIMIT"
    [] "" \in ToSet(NamesOf(d.functions) \o NamesOf(d.constants) \o d.types) -> "NATIVE_UTF8"
    [] \E i \in DOMAIN d.functions : ~d.functions[i].callable -> "NATIVE_DESCRIPTOR"
    [] \E names \in {NamesOf(d.functions), NamesOf(d.constants), d.types} : ~Distinct(names) -> "NATIVE_DESCRIPTOR"
    [] OTHER -> "none"

\* Mutant: a name may be registered twice.
Mutvalidate_descriptor_v2(d) ==
  IF d.null \/ d.abi # 2 \/ d.struct < 0 \/ d.name # "p" THEN "NATIVE_ABI" ELSE "none"
validate_descriptor_v2(d) ==
  CASE d.null -> "NATIVE_DESCRIPTOR"
    [] d.abi # 2 \/ d.struct < 0 -> "NATIVE_ABI"
    [] d.name # "p" -> "NATIVE_NAME"
    [] ~d.frees -> "NATIVE_DESCRIPTOR"
    [] \E count \in {Len(d.functions), Len(d.constants), Len(d.types)} : count > MaxDescriptors -> "NATIVE_LIMIT"
    [] "" \in ToSet(NamesOf(d.functions) \o NamesOf(d.constants) \o d.types) -> "NATIVE_UTF8"
    [] \E i \in DOMAIN d.functions : ~d.functions[i].callable -> "NATIVE_DESCRIPTOR"
    [] \E names \in {NamesOf(d.functions), NamesOf(d.constants), d.types} : ~Distinct(names) -> "NATIVE_DESCRIPTOR"
    [] \E i \in DOMAIN d.constants :
         LET v == decode_borrowed_value(d.constants[i].value, 0) IN v = Bad \/ ~Validate(v) -> "NATIVE_VALUE"
    [] OTHER -> "none"

\* The descriptor is validated and the module handed out; load_native_v2 puts
\* it into the cache.
Describe ==
  /\ loading.at = "loaded"
  /\ LET d == Images[libraries[Newest].content].descriptor
         code == IF loading.way = "host" THEN validate_descriptor(d) ELSE validate_descriptor_v2(d)
     IN  IF code # "none" THEN Abandon(code)
         ELSE /\ loading' = Idle
              /\ SetLast("held", TRUE)
              /\ answer' = Module(Newest, loading.artifact, Frame.permitted)
              /\ frames' = IF loading.way = "host" THEN frames
                           ELSE [frames EXCEPT ![Len(frames)].cache = @ \cup {<<Key(loading.way, loading.artifact), Newest>>}]
              /\ UNCHANGED <<disk, lock, call, resources, edits>>

\* NativeInnerV2::drop: the library is unloaded before the staged copy is
\* removed.
Unload(n) ==
  /\ Dropping(n) /\ libraries[n].loaded
  /\ libraries' = [libraries EXCEPT ![n].loaded = FALSE, ![n].tree = "removing"]
  /\ UNCHANGED <<disk, lock, frames, loading, call, resources, answer, edits>>
RemoveCopy(n) ==
  /\ libraries[n].tree = "removing" /\ ~libraries[n].loaded
  /\ libraries' = [libraries EXCEPT ![n].tree = "gone"]
  /\ UNCHANGED <<disk, lock, frames, loading, call, resources, answer, edits>>

-----------------------------------------------------------------------------
(***************************************************************************)
(* Calls.                                                                  *)
(***************************************************************************)
Abi(n) == libraries[n].artifact.abi
TypesOf(n) == ToSet(Images[libraries[n].content].descriptor.types)

\* vm_to_host_value and encode_arguments; the first ABI is called with JSON.
CallNative(n, v) ==
  /\ Quiet /\ frames # <<>> /\ libraries[n].held /\ libraries[n].loaded
  /\ Abi(n) = 1 => v.kind = "nil"
  /\ LET host == vm_to_host_value(v)
         lent == IF host = Bad THEN Bad ELSE encode_arguments(host)
     IN  IF lent = Bad
         THEN /\ answer' = [what |-> "refused", argument |-> v]
              /\ UNCHANGED call
         ELSE /\ call' = [at |-> "running", library |-> n, argument |-> v, lent |-> lent]
              /\ answer' = No
  /\ UNCHANGED <<disk, lock, frames, loading, libraries, resources, edits>>

\* native_host_callback_retain and native_host_callback_release: in a call the
\* extension keeps a callback it has been lent, or gives back one it has kept.
\* The registry has the callable alone and not who retained it.
RECURSIVE Lends(_)
Lends(v) == v.kind = "callback" \/ (v.kind \in {"array", "map"} /\ \E i \in DOMAIN v.items : Lends(v.items[i]))
Retain ==
  /\ call.at = "running" /\ Abi(call.library) = 2
  /\ libraries[call.library].retained \/ Lends(call.lent)
  /\ libraries' = [libraries EXCEPT ![call.library].retained = ~@]
  /\ UNCHANGED <<disk, lock, frames, loading, call, resources, answer, edits>>

\* What an extension may return: an error, with or without a resource it had
\* already made, a value, and a resource described in several ways.
Failure(made) == [status |-> "error", kind |-> "nil", made |-> made]
Value(v) == [status |-> "ok", kind |-> "value", value |-> v, made |-> FALSE]
Resource(made, borrowed, described, type) ==
  [status |-> "ok", kind |-> "resource", made |-> made, borrowed |-> borrowed, described |-> described, type |-> type]
Outcomes(lent) ==
  {Failure(made) : made \in BOOLEAN}
  \cup {Value(lent)} \cup {Value(v) : v \in Replies}
  \cup {Resource(TRUE, FALSE, TRUE, t) : t \in {"file", "other", ""}}
  \cup {Resource(FALSE, TRUE, TRUE, "file"), Resource(FALSE, FALSE, FALSE, "file")}

\* A resource that was made belongs to the output until the host takes it.
Return(o) ==
  /\ call.at = "running"
  /\ o # Value(call.lent) => call.argument.kind = "nil"   \* bound: else it returns its argument
  /\ o.made => Len(resources) < MaxResources
  /\ Abi(call.library) = 1 /\ o.kind = "value" => o.value.kind \in {"nil", "unknown"}   \* JSON that is read or is not
  /\ call' = [at |-> "returned", library |-> call.library, argument |-> call.argument, outcome |-> o, freed |-> 0, result |-> Bad,
              resource |-> IF o.made THEN Len(resources) + 1 ELSE 0]
  /\ resources' = IF o.made
                  THEN Append(resources, [of |-> call.library, holder |-> "output", destroyed |-> 0, sound |-> TRUE])
                  ELSE resources
  /\ UNCHANGED <<disk, lock, frames, loading, libraries, answer, edits>>

Destroy(r) ==
  [resources EXCEPT ![r] = [@ EXCEPT !.holder = "none", !.destroyed = @ + 1,
                                     !.sound = @ /\ libraries[resources[r].of].loaded]]

\* take_resource: what is refused in a resource that was returned, in both
\* ABIs; the second knows resources that are only lent.
take_resource(o) ==
  /\ ~(o.borrowed /\ Abi(call.library) = 2)
  /\ o.described /\ o.made
  /\ o.type # ""
Judged(taken, result) ==
  /\ call' = [call EXCEPT !.at = "judged", !.result = result]
  /\ resources' = IF taken THEN [resources EXCEPT ![call.resource].holder = "call"] ELSE resources
  /\ UNCHANGED <<disk, lock, frames, loading, libraries, answer, edits>>

\* The outcome is looked at while the output still belongs to its guard.  A
\* resource of an unknown type has been taken by the second ABI, which destroys
\* it, and has not been by the first.
Judge ==
  /\ call.at = "returned"
  /\ LET o == call.outcome IN
     CASE o.status = "error" -> Judged(FALSE, Bad)
       [] o.kind = "value" ->
            LET v == decode_borrowed_value(o.value, 0)
            IN  Judged(FALSE, IF v # Bad /\ Validate(v) THEN v ELSE Bad)
       [] ~take_resource(o) -> Judged(FALSE, Bad)
       [] o.type \notin TypesOf(call.library) ->
            IF Abi(call.library) = 1 THEN Judged(FALSE, Bad)
            ELSE /\ call' = [call EXCEPT !.at = "judged"]
                 /\ resources' = Destroy(call.resource)
                 /\ UNCHANGED <<disk, lock, frames, loading, libraries, answer, edits>>
       [] OTHER -> Judged(TRUE, V("resource", call.resource))

\* The guard of the output: the extension's free_value destroys a resource that
\* was not taken (external); for the first ABI the host calls its destructor.
\* Mutant: a resource that was taken is still in the output.
MutFreeOutput ==
  /\ call.at = "judged"
  /\ call' = [call EXCEPT !.at = "freed", !.freed = @ + 1]
  /\ resources' = IF call.resource # 0
                  THEN [resources EXCEPT ![call.resource].destroyed = @ + 1]
                  ELSE resources
  /\ UNCHANGED <<disk, lock, frames, loading, libraries, answer, edits>>
FreeOutput ==
  /\ call.at = "judged"
  /\ call' = [call EXCEPT !.at = "freed", !.freed = @ + 1]
  /\ resources' = IF call.resource # 0 /\ resources[call.resource].holder = "output"
                  THEN Destroy(call.resource) ELSE resources
  /\ UNCHANGED <<disk, lock, frames, loading, libraries, answer, edits>>

\* The end of the call.  An error of a pump or of the release of a callback
\* replaces the result, and the registry may refuse the resource: what was
\* taken is dropped then.  A host of the first ABI keeps the resource itself.
Dropped == IF call.result.kind = "resource" THEN Destroy(call.resource) ELSE resources
Deliver ==
  /\ call.at = "freed"
  /\ call' = Idle
  /\ \/ /\ Abi(call.library) = 2
        /\ resources' = Dropped
        /\ answer' = Error("NATIVE_PUMP")
     \/ IF call.result = Bad
        THEN /\ answer' = [what |-> "failed", argument |-> call.argument, outcome |-> call.outcome]
             /\ UNCHANGED resources
        ELSE IF call.result.kind = "resource"
        THEN \/ resources' = [resources EXCEPT ![call.resource].holder = "host"] /\ answer' = No
             \/ Abi(call.library) = 2 /\ resources' = Dropped /\ answer' = Error("NATIVE_RESOURCE")
        ELSE /\ answer' = [what |-> "value", argument |-> call.argument, outcome |-> call.outcome,
                           value |-> host_to_vm_value(call.result)]
             /\ UNCHANGED resources
  /\ UNCHANGED <<disk, lock, frames, loading, libraries, edits>>

\* NativeResourceV2::close and NativeResource::drop: a close by the program, or
\* the end of the registry.
Close(r) ==
  /\ Quiet /\ resources[r].holder = "host"
  /\ resources' = Destroy(r)
  /\ answer' = No
  /\ UNCHANGED <<disk, lock, frames, loading, libraries, call, edits>>

-----------------------------------------------------------------------------
(***************************************************************************)
(* The program, its host and the file system.                              *)
(***************************************************************************)
\* The last name of a module goes.
Forget(n) ==
  /\ Quiet /\ libraries[n].held
  /\ libraries' = [libraries EXCEPT ![n].held = FALSE]
  /\ answer' = No
  /\ UNCHANGED <<disk, lock, frames, loading, call, resources, edits>>

\* The host changes the permissions of its VM.
set_permissions ==
  /\ Quiet /\ Len(frames) = 1 /\ edits < MaxEdits
  /\ frames' = [frames EXCEPT ![1].permitted = ~@]
  /\ edits' = edits + 1
  /\ answer' = No
  /\ UNCHANGED <<disk, lock, loading, libraries, call, resources>>

\* execute_application: the permissions of both, and an empty cache; at its end
\* the old ones again.
Archived(modules) ==   \* decode_native_modules and the target of the archive
  \A a \in modules : a.target = "here" /\ a.checksum \in DOMAIN Images /\ Images[a.checksum].size = a.size
EnterApplication(modules, permits) ==
  /\ Quiet /\ Len(frames) = 1 /\ Archived(modules)
  /\ modules # {} => permits
  /\ frames' = Append(frames, [permitted |-> Frame.permitted /\ permits, cache |-> {},
                               application |-> TRUE, modules |-> modules])
  /\ answer' = No
  /\ UNCHANGED <<disk, lock, loading, libraries, call, resources, edits>>
LeaveApplication ==
  /\ Quiet /\ Len(frames) = 2
  /\ frames' = Front(frames)
  /\ answer' = No
  /\ UNCHANGED <<disk, lock, loading, libraries, call, resources, edits>>

\* The VM is dropped and with it the registry of the callbacks; its resources
\* are closed by the actions Close.
DropVm ==
  /\ Quiet /\ Len(frames) = 1
  /\ frames' = <<>>
  /\ libraries' = [n \in DOMAIN libraries |-> [libraries[n] EXCEPT !.retained = FALSE]]
  /\ answer' = No
  /\ UNCHANGED <<disk, lock, loading, call, resources, edits>>

\* Somebody edits the file in place, which the open handle sees, or puts another
\* in its place, which it does not; alters the copy before it is verified; or
\* locks another artifact.
EditFile(content, place) ==
  /\ edits < MaxEdits /\ frames # <<>>
  /\ disk' = content
  /\ loading' = IF place /\ loading.at \in {"opened", "inspected"} THEN [loading EXCEPT !.content = content] ELSE loading
  /\ edits' = edits + 1
  /\ UNCHANGED <<lock, frames, libraries, call, resources, answer>>
AlterCopy(content) ==
  /\ edits < MaxEdits /\ loading.at = "written"
  /\ SetLast("content", content)
  /\ edits' = edits + 1
  /\ UNCHANGED <<disk, lock, frames, loading, call, resources, answer>>
Relock(artifact) ==
  /\ edits < MaxEdits /\ Quiet /\ frames # <<>>
  /\ lock' = artifact
  /\ edits' = edits + 1
  /\ answer' = No
  /\ UNCHANGED <<disk, frames, loading, libraries, call, resources>>

Init ==
  /\ lock \in Artifacts
  /\ disk \in DOMAIN Images /\ (lock.checksum \in DOMAIN Images => disk = lock.checksum)
  /\ frames = <<[permitted |-> TRUE, cache |-> {}, application |-> FALSE, modules |-> {}]>>
  /\ loading = Idle /\ libraries = <<>> /\ call = Idle /\ resources = <<>>
  /\ answer = No /\ edits = 0

Next ==
  \/ load_native_v2 \/ load_verified \/ Inspect \/ Snapshot \/ Verify
  \/ Write \/ Hold \/ Open \/ Describe
  \/ \E n \in DOMAIN libraries : Unload(n) \/ RemoveCopy(n) \/ Forget(n) \/ \E v \in Values : CallNative(n, v)
  \/ \E o \in (IF call.at = "running" THEN Outcomes(call.lent) ELSE {}) : Return(o)
  \/ Retain \/ Judge \/ FreeOutput \/ Deliver
  \/ \E r \in DOMAIN resources : Close(r)
  \/ set_permissions \/ LeaveApplication \/ DropVm
  \/ \E modules \in {{}} \cup {{a} : a \in Artifacts}, p \in BOOLEAN : EnterApplication(modules, p)
  \/ \E c \in DOMAIN Images : AlterCopy(c) \/ \E place \in BOOLEAN : EditFile(c, place)
  \/ \E a \in Artifacts : Relock(a)

-----------------------------------------------------------------------------
(***************************************************************************)
(* Properties.                                                             *)
(***************************************************************************)
TypeOK ==
  /\ disk \in DOMAIN Images /\ lock \in Artifacts
  /\ Len(frames) \in 0..2
  /\ loading.at \in {"idle", "opened", "inspected", "read", "staging", "written", "held", "loaded"}
  /\ Len(libraries) \in 0..MaxLibraries /\ Len(resources) \in 0..MaxResources
  /\ call.at \in {"idle", "running", "returned", "judged", "freed"}
  /\ edits \in 0..MaxEdits

\* What the linker will read of a library: the slice for this machine.
Read(form) ==
  IF form.format = "mach" /\ form.slices # <<>>
  THEN form.slices[CHOOSE i \in DOMAIN form.slices : form.slices[i].machine = "this"] ELSE form
SelfContained(form) ==
  LET f == Read(form)
  IN  /\ f.machine = "this" /\ f.tags = {} /\ ToSet(f.needed) \subseteq {"bare", "system"}
      /\ f.format = "mach" => \A i \in DOMAIN f.needed : f.needed[i] = "system"

\* Code that runs is what was locked, whatever was edited since: its bytes, from
\* a copy that is still there, for this target, entered with the permission; by
\* the second ABI it depends on the system alone.
LoadedAsLocked ==
  \A n \in DOMAIN libraries : libraries[n].loaded =>
    LET l == libraries[n]
    IN  /\ l.content = l.artifact.checksum /\ Images[l.content].size = l.artifact.size
        /\ l.artifact.target = "here" /\ l.entered
        /\ l.tree # "gone"
        /\ l.artifact.abi = 2 => SelfContained(Images[l.content].form)

\* A module that is handed out, new or from the cache, is the one asked for, is
\* permitted at that moment, and registers each of its names once.
LookupIsSound ==
  answer.what = "module" =>
    LET l == libraries[answer.library]
        d == Images[l.content].descriptor
    IN  /\ answer.permitted /\ l.loaded
        /\ l.content = answer.wanted.checksum
        /\ d.abi = l.artifact.abi /\ d.name = "p" /\ d.frees
        /\ Cardinality({f.name : f \in ToSet(d.functions)}) = Len(d.functions)
        /\ \A f \in ToSet(d.functions) : f.callable

\* A library stays while a value, a cache, a call or a resource needs it and no
\* longer, and its staged copy as long as the library.  native-abi-v2.md has it
\* stay for a callback it has retained as well (StaysForCallbacks): it does if
\* and only if one of the others keeps it.
StaysForCallbacks(n) == libraries[n].retained => libraries[n].loaded
CopiesFollowLibraries ==
  Quiet => \A n \in DOMAIN libraries :
    /\ libraries[n].loaded <=> Referenced(n)
    /\ libraries[n].tree = (IF libraries[n].loaded THEN "locked" ELSE "gone")
    /\ StaysForCallbacks(n) <=> Referenced(n) \/ ~libraries[n].retained

\* What an extension hands over is destroyed once, while its library is loaded,
\* and nothing that is not kept is left over from a call.
DestroyedOnce ==
  \A r \in DOMAIN resources :
    /\ resources[r].sound
    /\ resources[r].destroyed = (IF resources[r].holder = "none" THEN 1 ELSE 0)
    /\ call = Idle => resources[r].holder \in {"host", "none"}

\* The parts of a value with their depth.
RECURSIVE Nodes(_, _)
Nodes(v, depth) ==
  <<[kind |-> v.kind, depth |-> depth, of |-> IF v.kind \in {"text", "bytes"} THEN v.n ELSE 0]>>
    \o (IF v.kind \in {"list", "tuple", "map"} THEN FlattenSeq([i \in DOMAIN v.items |-> Nodes(v.items[i], depth + 1)]) ELSE <<>>)
Fits(v) ==
  LET nodes == Nodes(v, 0)
  IN  /\ Len(nodes) <= MaxElements
      /\ \A i \in DOMAIN nodes :
           nodes[i].depth <= MaxDepth /\ (nodes[i].kind = "text" => nodes[i].of <= MaxString)
      /\ FoldLeft(LAMBDA sum, node : sum + node.of, 0, nodes) <= MaxTotal
Kinds(v) == {node.kind : node \in ToSet(Nodes(v, 0))}
Foreign == {"nan", "class"}

\* What the program sees of its own value: a tuple comes back as a list, and
\* minus zero as zero.
RECURSIVE Seen(_)
Seen(v) ==
  CASE v.kind \in {"list", "tuple"} -> W("list", [i \in DOMAIN v.items |-> Seen(v.items[i])])
    [] v.kind = "map" -> W("map", [i \in DOMAIN v.items |-> Seen(v.items[i])])
    [] v.kind = "-0" -> V("number", 0)
    [] OTHER -> v

\* A value is refused as an argument if and only if it does not fit or has a
\* part the ABI does not know; an extension that returns its argument is
\* understood, and what comes back is the value, unless a callback or a resource
\* is part of it.
EchoIsFaithful ==
  LET v == answer.argument
      echoed == answer.outcome = Value(encode_value(vm_to_host_value(v)))
  IN  /\ answer.what = "refused" => ~Fits(v) \/ Kinds(v) \cap Foreign # {}
      /\ answer.what \in {"value", "failed"} => Fits(v) /\ Kinds(v) \cap Foreign = {}
      /\ answer.what = "value" /\ echoed => answer.value = Seen(v) \/ Kinds(v) \cap {"function", "resource"} # {}
      /\ answer.what = "failed" /\ echoed => Kinds(v) \cap {"function", "resource"} # {}

\* Whatever an extension returns, the program gets a value of its own kinds that
\* fits, and never a handle.
RepliesFit ==
  answer.what = "value" /\ answer.value # Bad =>
    /\ Fits(answer.value)
    /\ Kinds(answer.value) \cap {"resource", "callback"} = {}

ExtensionsHold ==
  /\ LoadedAsLocked /\ LookupIsSound /\ CopiesFollowLibraries
  /\ DestroyedOnce /\ EchoIsFaithful /\ RepliesFit

===============================================================================

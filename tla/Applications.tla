----------------------------- MODULE Applications -----------------------------
(***************************************************************************)
(* Building an application (src/application.rs, src/cli_package.rs) and    *)
(* reading its resources: from the package while it is developed, from the *)
(* archive once it is built (src/vm.rs).                                   *)
(*                                                                         *)
(* A path is a sequence of names.  Another process may edit the package    *)
(* during a build, and the build may be killed at any point.               *)
(***************************************************************************)
EXTENDS Integers, Sequences, FiniteSets, SequencesExt

CONSTANTS
  Order,        \* the paths of files, in the order of a BTreeMap
  Dirs,         \* the paths of directories, without the root
  Trees,        \* what the files hold at first
  Manifests,    \* [declared, icon, kind, permits, natives]
  Edited,       \* the files that another process edits
  MaxEntries, MaxTotal,   \* RESOURCE_MAX_ENTRIES, RESOURCE_MAX_BYTES
  MaxNatives,             \* NATIVE_ARTIFACT_MAX_COUNT
  MaxFile, MaxDecoded,    \* YXB_MAX_FILE_BYTES, YXB_MAX_DECODED_BYTES
  MaxEdits, MaxBuilds     \* bounds

VARIABLES
  tree,      \* what each file holds
  manifest,
  build,     \* [phase, form, held, read, archive]
  output,    \* [form, pieces, of]: the file that is written, so far
  reported,  \* the archive whose build was last reported as done
  edits, builds,
  seen       \* history: what each file has held since the build began

vars == <<tree, manifest, build, output, reported, edits, builds, seen>>

Files == ToSet(Order)
Icon == <<"icon">>
Reserved(path) == \E k \in DOMAIN path : path[k] = ".git"
Fold(name) == IF name = "A" THEN "a" ELSE name
Under(p, q) == IsPrefix(p, q)
Sum(S, Weight(_)) == FoldSet(LAMBDA x, n : n + Weight(x), 0, S)

-----------------------------------------------------------------------------
\* A path is looked up name by name; two names of a directory that differ in
\* case alone make every look-up there fail.
Present(t) == {f \in Files : t[f] # "absent"}
Entries(t, d) == {x[Len(d) + 1] : x \in {y \in Present(t) \cup Dirs : Len(y) > Len(d) /\ Under(d, y)}}
Unique(names) == \A m, n \in names : Fold(m) = Fold(n) => m = n
resolve_existing_path(t, p) ==
  /\ p \in Present(t) \cup Dirs /\ ~Reserved(p)
  /\ \A k \in 0 .. Len(p) - 1 : Unique(Entries(t, SubSeq(p, 1, k)))
list_existing_directory(t, p) == {n \in Entries(t, p) : ~Reserved(<<n>>)}

\* What a request may name: "." and the paths, which may be spelled with "./"
\* before them.
Requests == [dot : BOOLEAN, path : Files \cup Dirs] \cup {[dot |-> TRUE, path |-> <<>>]}
declared_resource_request(req) ==
  ~Reserved(req.path) /\ \E d \in manifest.declared : Under(d, req.path)
normalize_resource_key(req) == ~req.dot /\ req.path # <<>> /\ ~Reserved(req.path)
normalize_resource_directory_key(req) == req.path = <<>> \/ normalize_resource_key(req)

\* From the package ...
read_declared_resource_snapshot(t, req) ==
  IF declared_resource_request(req) /\ req.path \in Files /\ resolve_existing_path(t, req.path) /\ t[req.path] # "huge"
  THEN t[req.path] ELSE "error"
list_declared_resource_directory(t, req) ==
  IF declared_resource_request(req) /\ (req.path = <<>> \/ (req.path \in Dirs /\ resolve_existing_path(t, req.path)))
     /\ Unique(list_existing_directory(t, req.path))
  THEN list_existing_directory(t, req.path) ELSE {"error"}
\* ... and from the archive.
ResourceRead(resources, req) ==
  IF normalize_resource_key(req) /\ req.path \in DOMAIN resources THEN resources[req.path] ELSE "error"
ResourceList(resources, req) ==
  IF normalize_resource_directory_key(req)
  THEN {q[Len(req.path) + 1] : q \in {f \in DOMAIN resources : Len(f) > Len(req.path) /\ Under(req.path, f)}}
  ELSE {"error"}

-----------------------------------------------------------------------------
\* The build opens every file to be packed, then reads them one after another.
collect_resource_files(t, p) == {f \in Present(t) : Under(p, f) /\ ~Reserved(f)}
Roots == manifest.declared \cup (IF manifest.icon THEN {Icon} ELSE {})
Listable(t, p) ==
  \A d \in {x \in Dirs \cup {<<>>} : Under(p, x) /\ ~Reserved(x)} : Unique(list_existing_directory(t, d))
insert_resource_file(found) == Cardinality(found) <= MaxEntries
collect_resources(t) == UNION {collect_resource_files(t, p) : p \in Roots}
Collects(t) ==
  /\ \A p \in Roots : (p = <<>> \/ resolve_existing_path(t, p)) /\ (p \notin Files => Listable(t, p))
  /\ insert_resource_file(collect_resources(t))

Idle == [phase |-> "idle", form |-> "yxb", held |-> <<>>, read |-> <<>>, archive |-> <<>>]
Start(form) ==
  /\ build.phase = "idle" /\ builds < MaxBuilds /\ builds' = builds + 1
  /\ build' = IF Collects(tree)
              THEN [Idle EXCEPT !.phase = "reads", !.form = form, !.held = [f \in collect_resources(tree) |-> tree[f]]]
              ELSE Idle
  /\ seen' = [f \in Files |-> {tree[f]}]
  /\ UNCHANGED <<tree, manifest, output, reported, edits>>

Size(content) == CASE content = "huge" -> 3 [] content = "bytes" -> 2 [] OTHER -> 1
Packed(content) == IF content = "bytes" THEN 1 ELSE 0   \* what compression leaves of it
ReadNext ==
  /\ build.phase = "reads"
  /\ LET left == SelectSeq(Order, LAMBDA f : f \in DOMAIN build.held \ DOMAIN build.read)
     IN build' =
          IF left = <<>> THEN [build EXCEPT !.phase = "natives"]
          ELSE LET f == left[1]
                   read == [g \in DOMAIN build.read \cup {f} |-> IF g = f THEN build.held[f] ELSE build.read[g]]
               IN IF build.held[f] = "huge" \/ Sum(DOMAIN read, LAMBDA g : Size(read[g])) > MaxTotal THEN Idle
                  ELSE [build EXCEPT !.read = read]
  /\ UNCHANGED <<tree, manifest, output, reported, edits, builds, seen>>

\* The artifacts that the lock file names, each with the content it names and
\* no two under one package name.
collect_native_modules ==
  /\ Cardinality(manifest.natives) <= MaxNatives
  /\ \A a \in manifest.natives : a.content = a.locked
  /\ \A a, b \in manifest.natives : a.name = b.name => a = b
validate_native_modules(archive) == archive.natives # {} => "native" \in archive.permits
validate_application_metadata(archive) ==
  /\ archive.kind = "gui" => "gui" \in archive.permits
  /\ archive.icon => Icon \in DOMAIN archive.resources
validate_resources(archive) ==
  /\ Cardinality(DOMAIN archive.resources) <= MaxEntries
  /\ Sum(DOMAIN archive.resources, LAMBDA f : Size(archive.resources[f])) <= MaxTotal
  /\ \A f, g \in DOMAIN archive.resources :
       Len(f) = Len(g) /\ (\A k \in DOMAIN f : Fold(f[k]) = Fold(g[k])) => f = g
validate_archive(archive) ==
  validate_resources(archive) /\ validate_native_modules(archive) /\ validate_application_metadata(archive)
compile_application ==
  /\ build.phase = "natives"
  /\ LET archive == [resources |-> build.read, natives |-> manifest.natives, icon |-> manifest.icon,
                     kind |-> manifest.kind, permits |-> manifest.permits]
     IN build' = IF ~collect_native_modules THEN Idle
                 ELSE [build EXCEPT !.phase = IF validate_archive(archive) THEN "built" ELSE "refused",
                                    !.archive = archive]
  /\ UNCHANGED <<tree, manifest, output, reported, edits, builds, seen>>
Refuse ==
  /\ build.phase = "refused" /\ build' = Idle
  /\ UNCHANGED <<tree, manifest, output, reported, edits, builds, seen>>

-----------------------------------------------------------------------------
\* The output: an archive, or the runtime with the archive and its footer.
NoOutput == [form |-> "none", pieces |-> 0, of |-> <<>>]
Pieces(form) == IF form = "yxb" THEN 2 ELSE 3
Decoded(archive) ==
  Sum(DOMAIN archive.resources, LAMBDA f : Size(archive.resources[f])) + Sum(archive.natives, LAMBDA a : Size(a.content))
serialize(archive) ==
  Sum(DOMAIN archive.resources, LAMBDA f : Packed(archive.resources[f]))
    + Sum(archive.natives, LAMBDA a : Packed(a.content)) <= MaxFile
Whole(file) == file.form # "none" /\ file.pieces = Pieces(file.form)
deserialize(file) == Whole(file) /\ Decoded(file.of) <= MaxDecoded /\ validate_archive(file.of)
\* What the output does: a runtime without its footer is the bare program.
Executed(file) ==
  IF deserialize(file) THEN "runs"
  ELSE IF file.form = "standalone" /\ file.pieces \in 1 .. 2 THEN "bare" ELSE "error"

MutChecksum(archive) == [archive EXCEPT !.resources = DOMAIN @]   \* does not sum the bytes

archive_checksum(archive) == archive
compile_command ==
  /\ build.phase = "built"
  /\ IF build.form = "yxb" /\ output.form = "yxb" /\ deserialize(output)
        /\ archive_checksum(output.of) = archive_checksum(build.archive)
     THEN build' = Idle /\ reported' = build.archive /\ UNCHANGED output
     ELSE IF ~serialize(build.archive) THEN build' = Idle /\ UNCHANGED <<output, reported>>
     ELSE /\ build' = [build EXCEPT !.phase = "writes"]
          /\ output' = [form |-> build.form, pieces |-> 0, of |-> build.archive]
          /\ reported' = <<>>
  /\ UNCHANGED <<tree, manifest, edits, builds, seen>>
Write ==
  /\ build.phase = "writes"
  /\ IF Whole(output) THEN build' = Idle /\ reported' = output.of /\ UNCHANGED output
     ELSE output' = [output EXCEPT !.pieces = @ + 1] /\ UNCHANGED <<build, reported>>
  /\ UNCHANGED <<tree, manifest, edits, builds, seen>>
Crash ==
  /\ build.phase # "idle" /\ build' = Idle
  /\ UNCHANGED <<tree, manifest, output, reported, edits, builds, seen>>

\* Another process writes to a file, or puts a new one in its place: the build
\* then still holds the old one.
Edit ==
  /\ edits < MaxEdits /\ edits' = edits + 1
  /\ \E f \in Edited, content \in {"other", "absent"}, inPlace \in BOOLEAN :
       /\ tree[f] # content /\ (inPlace => content # "absent" /\ tree[f] # "absent")
       /\ tree' = [tree EXCEPT ![f] = content]
       /\ seen' = [seen EXCEPT ![f] = @ \cup {content}]
       /\ build' = IF inPlace /\ f \in DOMAIN build.held THEN [build EXCEPT !.held[f] = content] ELSE build
  /\ UNCHANGED <<manifest, output, reported, builds>>

Init ==
  /\ tree \in Trees /\ manifest \in Manifests
  /\ build = Idle /\ output = NoOutput /\ reported = <<>> /\ edits = 0 /\ builds = 0
  /\ seen = [f \in Files |-> {tree[f]}]
Next ==
  \/ \E form \in {"yxb", "standalone"} : Start(form)
  \/ ReadNext \/ compile_application \/ Refuse \/ compile_command \/ Write \/ Crash \/ Edit
Spec == Init /\ [][Next]_vars

-----------------------------------------------------------------------------
Unedited == \A f \in Files : seen[f] = {tree[f]}

\* A program reads the same resources from the package and from the archive.
\* The archive also gives its icon, does not know a request spelled with "./",
\* and lists no directory that holds nothing to be packed.
SameFromArchive ==
  build.phase \in {"built", "refused"} /\ Unedited =>
    \A req \in Requests :
      LET resources == build.archive.resources
          source == read_declared_resource_snapshot(tree, req)
          packed == ResourceRead(resources, req)
          listed == list_declared_resource_directory(tree, req)
          names == ResourceList(resources, req)
      IN /\ source # "error" /\ ~req.dot => packed = source
         /\ packed # "error" /\ req.path # Icon => source = packed
         /\ listed # {"error"} /\ (req.dot => req.path = <<>>) =>
              /\ names \subseteq listed
              /\ \A n \in listed \ names : collect_resource_files(tree, Append(req.path, n)) = {}

\* What is packed of a file is something it held during the build.
HeldDuringBuild == \A f \in DOMAIN build.read : build.read[f] \in seen[f] \ {"absent", "huge"}

\* Once everything is collected only a permission that the manifest does not
\* ask for can still refuse the archive.
RefusedForPermission ==
  build.phase = "refused" =>
    \/ build.archive.natives # {} /\ "native" \notin build.archive.permits
    \/ build.archive.kind = "gui" /\ "gui" \notin build.archive.permits

\* An output that was reported runs what was built, whatever builds have been
\* killed before; an archive of more than a reader takes is reported as well.
\* A standalone that was not written to its end is the bare program.
RunsWhatWasBuilt ==
  /\ reported # <<>> =>
       /\ Whole(output) /\ output.of = reported
       /\ Decoded(reported) <= MaxDecoded => Executed(output) = "runs"
  /\ Executed(output) = "runs" => Whole(output)
  /\ Executed(output) = "bare" => reported = <<>>

ApplicationsHold == SameFromArchive /\ HeldDuringBuild /\ RefusedForPermission /\ RunsWhatWasBuilt
=============================================================================

-------------------------------- MODULE Bundles --------------------------------
(***************************************************************************)
(* Building an application's bundle (src/gui_bundle.rs): its files are     *)
(* written into a staging directory beside the output, verified, and put   *)
(* in the output's place by two renames.  Several processes may build into *)
(* one output, each may be killed, and the program in the output may be    *)
(* started meanwhile: it verifies its bundle before it reads its archive   *)
(* (src/main.rs).                                                          *)
(***************************************************************************)
EXTENDS Integers, Sequences, FiniteSets, SequencesExt

CONSTANTS
  Archives,   \* [name, target, runtime, gui, icon, resources, natives]
  Builders,   \* the processes that build
  Pids,       \* process numbers, used again after a process has ended
  MaxBuilds, MaxSigned   \* bounds

VARIABLES
  dirs,       \* what each place holds
  builder,    \* [at, pid, archive, written, alone, before]: before is the output it found
  result,     \* [what, at, archive, before]: how the last build has ended, if no other began meanwhile
  installed,  \* history: the archives whose bundle has been the output
  broken,     \* history: a build has ended between its two renames
  builds, signed,
  runner      \* [at, dir, place, archive]: a program started in the output

vars == <<dirs, builder, result, installed, broken, builds, signed, runner>>

-----------------------------------------------------------------------------
\* The files of a bundle, in the order in which they are written.
Executable(target) ==
  CASE target = "macos" -> <<"Contents", "MacOS", "app">> [] target = "windows" -> <<"app.exe">> [] OTHER -> <<"AppRun">>
Data(target) ==
  CASE target = "macos" -> <<"Contents", "Resources">> [] target = "windows" -> <<>> [] OTHER -> <<"usr", "lib", "yanxu">>
Manifest(target) == Append(Data(target), "bundle-manifest.json")
write_resources(archive) ==
  [k \in DOMAIN archive.resources |-> Append(Data(archive.target), "resources") \o archive.resources[k]]
write_native_modules(archive) ==
  LET prefix == IF archive.target = "macos" THEN <<"Contents", "Frameworks">> ELSE Append(Data(archive.target), "native")
  IN [k \in DOMAIN archive.natives |-> prefix \o archive.natives[k]]   \* checksum, file name
build_macos == <<<<"Contents", "Resources", "AppIcon.icns">>, <<"Contents", "Info.plist">>>>
build_windows == <<<<"application.ico">>, <<"app.exe.manifest">>>>
build_linux ==
  <<<<"usr", "share", "icons", "app.png">>, <<"usr", "share", "applications", "app.desktop">>, <<"app.desktop">>>>
Files(archive) ==
  <<Executable(archive.target), Append(Data(archive.target), "application.yxb")>>
    \o write_resources(archive) \o write_native_modules(archive)
    \o (CASE archive.target = "macos" -> build_macos [] archive.target = "windows" -> build_windows [] OTHER -> build_linux)
    \o <<Data(archive.target) \o <<"licenses", "NOTICE.txt">>, Manifest(archive.target)>>

\* A directory: the archive it was made from, its files and those of them that
\* were changed afterwards.  The place of a process is named after its number.
Absent == [of |-> [name |-> "none"], files |-> {}, changed |-> {}]
Output == <<"output", 0>>
sibling_path(purpose, pid) == <<purpose, pid>>
Places == {Output} \cup ({"staging", "backup"} \X Pids)
Exists(place) == dirs[place] # Absent
Whole(dir) == dir # Absent /\ dir.files = ToSet(Files(dir.of)) /\ dir.changed = {}

ManifestsIn(dir, root) ==
  {m \in {root \o Manifest(t) : t \in {"macos", "windows", "linux"}} : m \in dir.files}
verify_bundle(dir) ==
  /\ Cardinality(ManifestsIn(dir, <<>>)) = 1
  /\ ToSet(Files(dir.of)) \subseteq dir.files /\ dir.changed = {}

\* The program looks for a manifest from its own directory, and from three
\* directories up where the names are those of a layout.
Candidates(executable) ==
  LET n == Len(executable)
  IN {Front(executable)}
     \cup (IF n >= 3 /\ SubSeq(executable, n - 2, n - 1) \in {<<"Contents", "MacOS">>, <<"usr", "bin">>}
           THEN {SubSeq(executable, 1, n - 3)} ELSE {})
verify_executable_bundle(dir, executable) ==
  LET roots == {r \in Candidates(executable) : ManifestsIn(dir, r) # {}}
  IN IF roots = {} THEN "unbundled"
     ELSE IF roots = {<<>>} /\ verify_bundle(dir) /\ Executable(dir.of.target) = executable THEN "verified"
     ELSE "refused"

-----------------------------------------------------------------------------
Idle == [at |-> "idle", pid |-> 0, archive |-> [name |-> "none"], written |-> 0, alone |-> TRUE, before |-> Absent]
graphical_metadata(archive) == archive.gui
validate_runtime_target(archive) == archive.runtime = archive.target
load_application_icon(archive) == archive.icon # "broken"
NoResult == [what |-> "none", at |-> "idle", archive |-> Idle.archive, before |-> Absent]
Ends(b, outcome) ==
  LET x == builder[b]
  IN /\ builder' = [builder EXCEPT ![b] = Idle]
     /\ result' = IF x.alone /\ x.at # "idle"
                  THEN [what |-> outcome, at |-> x.at, archive |-> x.archive, before |-> x.before] ELSE NoResult
Live == {b \in Builders : builder[b].at # "idle"}
Goes(b, at) == builder' = [builder EXCEPT ![b].at = at]

\* An output with the same archive is not built again.
Start(b) ==
  /\ builder[b].at = "idle" /\ builds < MaxBuilds /\ builds' = builds + 1
  /\ \E archive \in Archives, pid \in Pids \ {builder[c].pid : c \in Live} :
       IF Exists(Output) /\ verify_bundle(dirs[Output]) /\ dirs[Output].of = archive
       THEN Ends(b, "cached") /\ UNCHANGED dirs
       ELSE IF graphical_metadata(archive) /\ validate_runtime_target(archive)
               /\ ~Exists(sibling_path("staging", pid)) /\ ~Exists(sibling_path("backup", pid))
       THEN /\ builder' = [c \in Builders |->
                 IF c = b THEN [at |-> "writes", pid |-> pid, archive |-> archive, written |-> 0, alone |-> Live = {},
                               before |-> IF Live = {} THEN dirs[Output] ELSE Absent]
                 ELSE IF c \in Live THEN [builder[c] EXCEPT !.alone = FALSE, !.before = Absent] ELSE Idle]
            /\ dirs' = [dirs EXCEPT ![sibling_path("staging", pid)] = [Absent EXCEPT !.of = archive]]
            /\ result' = NoResult
       ELSE Ends(b, "refused") /\ UNCHANGED dirs
  /\ UNCHANGED <<installed, broken, signed, runner>>

MutWrites(b) ==
  LET x == builder[b]
      staging == sibling_path("staging", x.pid)
  IN /\ x.at = "writes"
     /\ IF x.written < Len(Files(x.archive))
        THEN /\ dirs' = [dirs EXCEPT ![staging].files = @ \cup {Files(x.archive)[x.written + 1]}]
             /\ builder' = [builder EXCEPT ![b].written = @ + 1,
                                           ![b].at = IF x.written + 2 < Len(Files(x.archive)) THEN "writes" ELSE "looks"]
             /\ UNCHANGED result
        ELSE Goes(b, "looks") /\ UNCHANGED <<dirs, result>>
     /\ UNCHANGED <<installed, broken, builds, signed, runner>>

\* Every file is created anew, the manifest last; then all of them are verified.
\* What fails here takes the staging directory with it.
Writes(b) ==
  LET x == builder[b]
      staging == sibling_path("staging", x.pid)
      next == Files(x.archive)[x.written + 1]
  IN /\ x.at = "writes"
     /\ IF x.written = Len(Files(x.archive)) /\ verify_bundle(dirs[staging])
        THEN Goes(b, "looks") /\ UNCHANGED <<dirs, result>>
        ELSE IF x.written < Len(Files(x.archive)) /\ next \notin dirs[staging].files /\ load_application_icon(x.archive)
        THEN /\ dirs' = [dirs EXCEPT ![staging].files = @ \cup {next}]
             /\ builder' = [builder EXCEPT ![b].written = @ + 1] /\ UNCHANGED result
        ELSE /\ dirs' = [dirs EXCEPT ![staging] = Absent]
             /\ Ends(b, "refused")
     /\ UNCHANGED <<installed, broken, builds, signed, runner>>

Looks(b) ==
  /\ builder[b].at = "looks" /\ Goes(b, IF Exists(Output) THEN "moves" ELSE "installs")
  /\ UNCHANGED <<dirs, result, installed, broken, builds, signed, runner>>

\* The output becomes the backup, unless the rename fails: another process may
\* have taken it away.
Moves(b) ==
  /\ builder[b].at = "moves"
  /\ \/ /\ Exists(Output)
        /\ dirs' = [dirs EXCEPT ![sibling_path("backup", builder[b].pid)] = dirs[Output], ![Output] = Absent]
        /\ Goes(b, "installs") /\ UNCHANGED result
     \/ Ends(b, "failed") /\ UNCHANGED dirs
  /\ UNCHANGED <<installed, broken, builds, signed, runner>>

\* The staging directory becomes the output, unless the rename fails: another
\* process may have put its own bundle there.
Installs(b) ==
  LET staging == sibling_path("staging", builder[b].pid)
  IN /\ builder[b].at = "installs"
     /\ \/ /\ ~Exists(Output)
           /\ dirs' = [dirs EXCEPT ![Output] = dirs[staging], ![staging] = Absent]
           /\ installed' = installed \cup {builder[b].archive}
           /\ Goes(b, "cleans") /\ UNCHANGED result
        \/ /\ UNCHANGED <<dirs, installed>>
           /\ IF Exists(sibling_path("backup", builder[b].pid)) THEN Goes(b, "restores") /\ UNCHANGED result
              ELSE Ends(b, "failed")
     /\ UNCHANGED <<broken, builds, signed, runner>>
\* The backup becomes the output again, unless that rename fails too, of which
\* nothing is said.
Restores(b) ==
  LET backup == sibling_path("backup", builder[b].pid)
  IN /\ builder[b].at = "restores" /\ Ends(b, "failed")
     /\ \/ /\ ~Exists(Output)
           /\ dirs' = [dirs EXCEPT ![Output] = dirs[backup], ![backup] = Absent] /\ UNCHANGED broken
        \/ UNCHANGED dirs /\ broken' = TRUE
     /\ UNCHANGED <<installed, builds, signed, runner>>

\* The backup is removed file by file; the removal may fail on the way.
Cleans(b) ==
  LET backup == sibling_path("backup", builder[b].pid)
  IN /\ builder[b].at = "cleans"
     /\ \/ /\ ~Exists(backup) /\ Goes(b, "checks") /\ UNCHANGED <<dirs, result>>
        \/ /\ Exists(backup)
           /\ \E rest \in {{}} \cup {dirs[backup].files \ {Manifest(dirs[backup].of.target)},
                                    dirs[backup].files \ {Executable(dirs[backup].of.target)}} :
                dirs' = [dirs EXCEPT ![backup] = IF rest \in {{}, @.files} THEN Absent ELSE [@ EXCEPT !.files = rest]]
           /\ UNCHANGED <<builder, result>>
        \/ Exists(backup) /\ Ends(b, "failed") /\ UNCHANGED dirs
     /\ UNCHANGED <<installed, broken, builds, signed, runner>>
Checks(b) ==
  /\ builder[b].at = "checks"
  /\ \/ Ends(b, "failed")   \* a file of the output cannot be read
     \/ Ends(b, IF ~verify_bundle(dirs[Output]) THEN "failed"
                ELSE IF dirs[Output].of = builder[b].archive THEN "done" ELSE "overtaken")
  /\ UNCHANGED <<dirs, installed, broken, builds, signed, runner>>
Crash(b) ==
  /\ builder[b].at # "idle" /\ Ends(b, "killed")
  /\ broken' = (broken \/ builder[b].at \in {"installs", "restores"})
  /\ UNCHANGED <<dirs, installed, builds, signed, runner>>

\* The platform's tools sign the executable, which changes its bytes.
Sign ==
  /\ signed < MaxSigned /\ signed' = signed + 1 /\ Exists(Output)
  /\ dirs' = [dirs EXCEPT ![Output].changed = @ \cup {Executable(dirs[Output].of.target)}]
  /\ UNCHANGED <<builder, result, installed, broken, builds, runner>>

-----------------------------------------------------------------------------
\* A program is started in the output and asks the system for its own path,
\* which follows its directory through a rename.
Stopped == [at |-> "none", dir |-> Absent, place |-> Output, archive |-> [name |-> "none"]]
Launch ==
  /\ runner.at = "none" /\ Exists(Output) /\ runner' = [Stopped EXCEPT !.at = "launched", !.dir = dirs[Output]]
  /\ UNCHANGED <<dirs, builder, result, installed, broken, builds, signed>>
current_exe ==
  /\ runner.at = "launched"
  /\ LET places == {p \in Places : Exists(p) /\ dirs[p].of = runner.dir.of
                                  /\ Executable(dirs[p].of.target) \in dirs[p].files /\ p[1] # "staging"}
     IN \/ \E p \in places : runner' = [runner EXCEPT !.at = "located", !.place = p]
        \/ places = {} /\ runner' = Stopped
  /\ UNCHANGED <<dirs, builder, result, installed, broken, builds, signed>>
Verify ==
  /\ runner.at = "located"
  /\ LET verdict == verify_executable_bundle(dirs[runner.place], Executable(runner.dir.of.target))
     IN runner' = IF verdict = "refused" THEN Stopped ELSE [runner EXCEPT !.at = verdict]
  /\ UNCHANGED <<dirs, builder, result, installed, broken, builds, signed>>
read_embedded ==
  /\ runner.at \in {"verified", "unbundled"}
  /\ LET there == dirs[runner.place]
     IN runner' = IF Executable(runner.dir.of.target) \in there.files
                  THEN [runner EXCEPT !.at = "runs", !.archive = there.of] ELSE Stopped
  /\ UNCHANGED <<dirs, builder, result, installed, broken, builds, signed>>
Exit ==
  /\ runner.at = "runs" /\ runner' = Stopped
  /\ UNCHANGED <<dirs, builder, result, installed, broken, builds, signed>>

Init ==
  /\ dirs = [p \in Places |-> Absent] /\ builder = [b \in Builders |-> Idle]
  /\ result = NoResult /\ installed = {} /\ broken = FALSE /\ builds = 0 /\ signed = 0
  /\ runner = Stopped
Next ==
  \/ \E b \in Builders :
       Start(b) \/ Writes(b) \/ Looks(b) \/ Moves(b) \/ Installs(b) \/ Restores(b) \/ Cleans(b) \/ Checks(b) \/ Crash(b)
  \/ Sign \/ Launch \/ current_exe \/ Verify \/ read_embedded \/ Exit
Spec == Init /\ [][Next]_vars

-----------------------------------------------------------------------------
\* What stands in the output has all its files, whatever builds race or are
\* killed, and only signing has changed them.
OutputIsWhole ==
  Exists(Output) => dirs[Output].files = ToSet(Files(dirs[Output].of)) /\ (signed = 0 => verify_bundle(dirs[Output]))

\* Once there was an output there is always a whole bundle: in its place; in the
\* backup of a build that is between its two renames; or, after one that was
\* killed there or whose roll-back failed as well, in a hidden directory, named
\* after a process that has ended, which no command looks for.
Hidden(p) == p[1] = "backup" /\ Exists(p) /\ \A b \in Live : builder[b].pid # p[2]
Between == {b \in Live : builder[b].at \in {"installs", "restores"}}
SomeBundleSurvives ==
  installed # {} /\ signed = 0 =>
    \/ Whole(dirs[Output])
    \/ \E b \in Between : Whole(dirs[sibling_path("backup", builder[b].pid)])
    \/ broken /\ \E p \in Places : Hidden(p) /\ Whole(dirs[p])

\* A build that comes to its last check has left nothing beside the output; the
\* output is its own unless another process built as well.  A file is written
\* twice only where two packages hold one and the same library.
ReportIsTrue ==
  \A b \in Builders :
    /\ builder[b].at = "checks" => \A kind \in {"staging", "backup"} : ~Exists(sibling_path(kind, builder[b].pid))
    /\ builder[b].at = "checks" /\ builder[b].alone /\ signed = 0 =>
         verify_bundle(dirs[Output]) /\ dirs[Output].of = builder[b].archive
    /\ builder[b].at = "writes" /\ builder[b].written < Len(Files(builder[b].archive)) =>
         LET archive == builder[b].archive
         IN Files(archive)[builder[b].written + 1] \in dirs[sibling_path("staging", builder[b].pid)].files =>
              \E j, k \in DOMAIN archive.natives : j # k /\ archive.natives[j] = archive.natives[k]

\* What the documents of the bundle say of a failure: the output is as it was
\* before.  FailureLeaves says which failures keep to it, where no other build
\* and no signing has come between: those of a refused build and of the renames,
\* unless the roll-back fails too; not those after the second rename, when the
\* backup cannot be removed or the output no longer verifies.  The output is the
\* new bundle then, and the old one is gone or in pieces.
RolledBack == dirs[Output] = result.before
FailureLeaves ==
  result # NoResult /\ Live = {} /\ signed = 0 =>
    /\ result.what # "overtaken"
    /\ result.what = "done" => dirs[Output].of = result.archive
    /\ result.what \in {"refused", "failed"} /\ result.at \in {"writes", "moves"} => RolledBack
    /\ result.what = "failed" /\ result.at \in {"installs", "restores"} =>
         (RolledBack <=> Exists(Output) \/ result.before = Absent)
    /\ result.what = "failed" /\ result.at \in {"cleans", "checks"} =>
         Whole(dirs[Output]) /\ dirs[Output].of = result.archive
    /\ result.what = "failed" /\ result.at = "cleans" =>
         \E p \in Places : Hidden(p) /\ dirs[p].of = result.before.of /\ dirs[p].files \subseteq result.before.files

\* Only the archive of a bundle that was once the output is run, and one that
\* has been signed is run only by a program that found no manifest or verified
\* it before.
RunsWhatWasInstalled == runner.at = "runs" => runner.archive \in installed
SignedIsRefused ==
  \A target \in {"macos", "windows", "linux"} :
    Executable(target) \in dirs[Output].changed /\ target = dirs[Output].of.target =>
      verify_executable_bundle(dirs[Output], Executable(target)) = "refused"

BundlesHold == OutputIsWhole /\ SomeBundleSurvives /\ ReportIsTrue /\ FailureLeaves /\ RunsWhatWasInstalled /\ SignedIsRefused
=============================================================================

------------------------------- MODULE Packing -------------------------------
(***************************************************************************)
(* yanxu pack: an archive of the package tree, while others edit the tree. *)
(* Other commands hold the project lock when they write the manifest and   *)
(* the lock file; editors hold nothing.  Reading one file yields a content *)
(* it had (module FileSnapshot); a directory is there when something is    *)
(* below it.                                                               *)
(***************************************************************************)
EXTENDS PathPolicy, FiniteSetsExt

CONSTANTS
  Paths,           \* what the tree can hold
  Texts,           \* contents of ordinary files
  Manifests,       \* contents of the manifest file
  Declares,        \* [Manifests -> [entry, exports, natives, resources, local]]
  Outputs,         \* where an archive may go; <<>> is outside the tree
  MaxFiles, MaxDirectories, MaxDepth, MaxScanned,
  MaxEdits, MaxPacks, Nothing

VARIABLES
  tree,       \* tree[p]: what stands at p, or Nothing
  outside,    \* the archive outside the tree
  lockHolder, \* who holds the project lock
  pack,       \* the packing under way
  packed,     \* the archive packing committed last
  edits, packs

packVars == <<tree, outside, lockHolder, pack, packed, edits, packs>>

Toml == <<"manifest">>
Lock == <<LockName>>
Archive == "archive"  \* any archive; what it holds is in packed
Link == "link"
LockOf(m) == "lock:" \o m
NoPack == [step |-> "idle", output |-> <<>>, manifest |-> Nothing, frames |-> <<>>, named |-> {},
           files |-> {}, directories |-> 1, scanned |-> 0,
           ours |-> FALSE]  \* history: the lock file is as packing has left it
NoArchive == [output |-> <<>>, files |-> {}, manifest |-> Nothing, ours |-> FALSE]

Contents == Texts \cup Manifests \cup {LockOf(m) : m \in Manifests} \cup {Archive, Link, Nothing}
Present == {p \in Paths : tree[p] # Nothing}
IsDirectory(p) == \E q \in Present : Len(q) > Len(p) /\ SubSeq(q, 1, Len(p)) = p
NamesIn(p) == {q[Len(p) + 1] : q \in {x \in Present : Len(x) > Len(p) /\ SubSeq(x, 1, Len(p)) = p}}

TypeOK ==
  /\ tree \in [Paths -> Contents] /\ outside \in {Archive, Nothing}
  /\ lockHolder \in {"nobody", "packer", "other"}
  /\ pack.files \subseteq Paths \X Contents /\ Cardinality(pack.files) <= MaxFiles
  /\ pack.directories <= MaxDirectories /\ pack.scanned <= MaxScanned
  /\ pack.step # "idle" => lockHolder = "packer"

-----------------------------------------------------------------------------
(* The others. *)
Changed(p, c) == tree' = [tree EXCEPT ![p] = c]

\* An editor saves, creates, removes or links a file.  An archive is nothing
\* an editor writes; a lock file it may take from elsewhere.
Edit(p, c) ==
  /\ edits < MaxEdits /\ c # tree[p]
  /\ c \in CASE p = Toml -> Manifests
              [] p = Lock -> {LockOf(m) : m \in Manifests} \cup {Link, Nothing}
              [] OTHER -> Texts \cup {Link, Nothing}
  /\ Changed(p, c) /\ edits' = edits + 1
  /\ pack' = [pack EXCEPT !.ours = @ /\ p # Lock]
  /\ UNCHANGED <<outside, lockHolder, packed, packs>>

\* Another command of the program: it takes the lock, writes the manifest,
\* then the lock file that goes with it.
OtherBegins ==
  /\ lockHolder = "nobody" /\ edits < MaxEdits
  /\ \E m \in Manifests : Changed(Toml, m)
  /\ lockHolder' = "other" /\ edits' = edits + 1
  /\ UNCHANGED <<outside, pack, packed, packs>>

OtherEnds ==
  /\ lockHolder = "other"
  /\ Changed(Lock, IF tree[Toml] \in Manifests THEN LockOf(tree[Toml]) ELSE tree[Lock])
  /\ lockHolder' = "nobody"
  /\ UNCHANGED <<outside, pack, packed, edits, packs>>

-----------------------------------------------------------------------------
Taken == lockHolder = "nobody" /\ lockHolder' = "packer"

Begin ==
  /\ pack.step = "idle" /\ packs < MaxPacks /\ Taken
  /\ \E o \in Outputs : pack' = [NoPack EXCEPT !.step = "manifest", !.output = o]
  /\ packs' = packs + 1
  /\ UNCHANGED <<tree, outside, packed, edits>>

Steps == UNCHANGED <<outside, packed, edits, packs>>
Go(frame) == pack' = frame /\ UNCHANGED <<tree, lockHolder>>
Fail == pack' = NoPack /\ lockHolder' = "nobody" /\ UNCHANGED tree

ReadManifest ==
  /\ pack.step = "manifest" /\ Steps
  /\ IF tree[Toml] \in Manifests
     THEN Go([pack EXCEPT !.manifest = tree[Toml], !.step = "output"]) ELSE Fail

\* validate_pack_output_location: an archive may replace an archive; in a
\* generated directory it may replace anything.
OutputFits(o) ==
  \/ o = <<>>
  \/ /\ Decision(o, "YxpEntry") # "reject" /\ ~IsDirectory(o)
     /\ \/ tree[o] \in {Nothing, Archive}
        \/ tree[o] # Link /\ \E i \in DOMAIN o : o[i] \in Reserved

\* validate_pack_output_conflicts.
Protected(d) == {Toml, Lock, d.entry} \cup d.exports \cup {n[1] : n \in d.natives}
OutputSpares(o, d) ==
  o # <<>> => /\ \A p \in Protected(d) : FoldedPath(p) # FoldedPath(o)
              /\ \A r \in d.resources : SubSeq(FoldedPath(o), 1, Len(r)) # FoldedPath(r)

\* validate_package_manifest_paths.
PathsAllowed(d) ==
  \A p \in {d.entry} \cup d.exports \cup d.resources \cup {n[1] : n \in d.natives} :
    p # <<>> => RequireIncluded(p, "ManifestReference")

CheckOutput ==
  /\ pack.step = "output" /\ Steps
  /\ LET d == Declares[pack.manifest]
     IN IF OutputFits(pack.output) /\ OutputSpares(pack.output, d) /\ PathsAllowed(d)
        THEN Go([pack EXCEPT !.step = "resolve"]) ELSE Fail

\* Resolving writes the lock file of the manifest that was read; a package
\* with a dependency only this machine has cannot be published.
ResolveGraph ==
  /\ pack.step = "resolve" /\ Steps
  /\ Changed(Lock, LockOf(pack.manifest))
  /\ IF Declares[pack.manifest].local
     THEN pack' = NoPack /\ lockHolder' = "nobody"
     ELSE pack' = [pack EXCEPT !.step = "open", !.ours = TRUE] /\ UNCHANGED lockHolder

-----------------------------------------------------------------------------
(* capture_package_directory_capability, depth first over open frames.  A  *)
(* frame keeps the names its directory had when it was entered.            *)
Opened(frame, p) == [frame EXCEPT !.frames = Append(@, [at |-> p, names |-> NamesIn(p)]),
                                 !.scanned = @ + Cardinality(NamesIn(p)), !.step = "capture"]
Scannable(p) == pack.scanned + Cardinality(NamesIn(p)) <= MaxScanned

CaptureRoot ==
  /\ pack.step = "open" /\ Steps
  /\ IF Scannable(<<>>) THEN Go(Opened(pack, <<>>)) ELSE Fail

Frame == Last(pack.frames)
First == CHOOSE n \in Frame.names : TRUE
Here == Append(Frame.at, First)
Taking == [pack EXCEPT !.frames[Len(pack.frames)].names = @ \ {First}]
Entry == pack.step = "capture" /\ pack.frames # <<>> /\ Frame.names # {} /\ Steps
Verdict == Decision(Here, "YxpEntry")
Counted == Entry /\ Verdict = "include"
At(p) == IF p \in Paths THEN tree[p] ELSE Nothing

CaptureLeave ==
  /\ pack.step = "capture" /\ pack.frames # <<>> /\ Frame.names = {} /\ Steps
  /\ Go([pack EXCEPT !.frames = Front(@)])

CaptureSkip ==
  /\ Entry /\ Verdict # "include"
  /\ IF Verdict = "reject" THEN Fail ELSE Go(Taking)

CaptureDirectory ==
  /\ Counted /\ IsDirectory(Here)
  /\ IF /\ CanName(pack.named, Here, TRUE) /\ pack.directories < MaxDirectories
        /\ Len(pack.frames) <= MaxDepth /\ Scannable(Here)
     THEN Go([Opened(Taking, Here) EXCEPT !.directories = @ + 1, !.named = Name(@, Here, TRUE)])
     ELSE Fail

\* The archive being replaced is not part of itself.
MutLeftOut(p) == FALSE  \* Mutant: the archive being replaced is packed too.
LeftOut(p) == p = pack.output

CaptureFile ==
  /\ Counted /\ ~IsDirectory(Here)
  /\ IF At(Here) = Nothing \/ ~CanName(pack.named, Here, FALSE) THEN Fail
     ELSE IF LeftOut(Here) THEN Go([Taking EXCEPT !.named = Name(@, Here, FALSE)])
     ELSE IF At(Here) = Link \/ Cardinality(pack.files) = MaxFiles THEN Fail
     ELSE Go([Taking EXCEPT !.named = Name(@, Here, FALSE),
                            !.files = @ \cup {<<Here, tree[Here]>>}])

CaptureDone ==
  /\ pack.step = "capture" /\ pack.frames = <<>> /\ Steps
  /\ Go([pack EXCEPT !.step = "check"])

-----------------------------------------------------------------------------
Held(p) == {f[2] : f \in {x \in pack.files : NfcPath(x[1]) = NfcPath(p)}}

\* validate_package_manifest_contents_structure: what the manifest names was
\* captured; a resource directory is still one and something in it was.
StructureFits(d) ==
  /\ \A p \in {d.entry} \cup d.exports \cup {n[1] : n \in d.natives} : Held(p) # {}
  /\ \A r \in d.resources :
       /\ IsDirectory(r)
       /\ \E f \in pack.files : Len(f[1]) > Len(r) /\ NfcPath(SubSeq(f[1], 1, Len(r))) = NfcPath(r)

ManifestStands ==
  /\ {f \in pack.files : Last(f[1]) = Toml[1]} = {<<Toml, pack.manifest>>}

CheckCapture ==
  /\ pack.step = "check" /\ Steps
  /\ IF ManifestStands /\ StructureFits(Declares[pack.manifest])
     THEN Go([pack EXCEPT !.step = "write"]) ELSE Fail

\* validate_packaged_bytes, file by file into a pending file next to the
\* output; committing renames it over the output.
Write ==
  /\ pack.step = "write" /\ Steps
  /\ IF \A n \in Declares[pack.manifest].natives : Held(n[1]) = {n[2]}
     THEN Go([pack EXCEPT !.step = "commit"]) ELSE Fail

\* The pending file may fail to be installed: nothing is changed then.
Commit ==
  /\ pack.step = "commit" /\ UNCHANGED <<edits, packs>>
  /\ pack' = NoPack /\ lockHolder' = "nobody"
  /\ \/ UNCHANGED <<tree, outside, packed>>
     \/ /\ packed' = [output |-> pack.output, files |-> pack.files,
                    manifest |-> pack.manifest, ours |-> pack.ours]
        /\ IF pack.output = <<>> THEN outside' = Archive /\ UNCHANGED tree
           ELSE ~IsDirectory(pack.output) /\ Changed(pack.output, Archive) /\ UNCHANGED outside

-----------------------------------------------------------------------------
Init ==
  /\ tree \in {[p \in Paths |-> CASE p = Toml -> m
                                  [] p = Lock -> Nothing
                                  [] OTHER -> CHOOSE t \in Texts : TRUE] : m \in Manifests}
  /\ outside = Nothing /\ lockHolder = "nobody" /\ pack = NoPack /\ packed = NoArchive
  /\ edits = 0 /\ packs = 0

Next ==
  \/ \E p \in Paths, c \in Contents : Edit(p, c)
  \/ OtherBegins \/ OtherEnds
  \/ Begin \/ ReadManifest \/ CheckOutput \/ ResolveGraph
  \/ CaptureRoot \/ CaptureLeave \/ CaptureSkip \/ CaptureDirectory \/ CaptureFile \/ CaptureDone
  \/ CheckCapture \/ Write \/ Commit

Spec == Init /\ [][Next]_packVars

-----------------------------------------------------------------------------
InArchive(p) == {f[2] : f \in {x \in packed.files : x[1] = p}}

\* An archive that was committed is one package: its manifest is the one the
\* dependency graph was resolved and locked for, its lock file is that lock
\* unless an editor changed it after, which nothing notices, what the manifest
\* names is inside with the declared bytes, and neither reserved content nor
\* the archive itself is (pack_package).
ArchiveIsWhole ==
  packed # NoArchive =>
    LET d == Declares[packed.manifest]
    IN /\ InArchive(Toml) = {packed.manifest}
       /\ packed.ours => InArchive(Lock) = {LockOf(packed.manifest)}
       /\ InArchive(d.entry) # {} /\ \A p \in d.exports : InArchive(p) # {}
       /\ \A n \in d.natives : InArchive(n[1]) = {n[2]}
       /\ \A f \in packed.files : /\ f[1] # packed.output /\ f[2] # Link
                                  /\ \A i \in DOMAIN f[1] : f[1][i] \notin Reserved
=============================================================================

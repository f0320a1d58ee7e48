--------------------------- MODULE PackageArchives ---------------------------
(***************************************************************************)
(* Package archives: what packing writes, entry by entry, and what the     *)
(* three readers make of any archive: the one that unpacks a package of a  *)
(* registry, the one that unpacks a Git commit, and the one that decides   *)
(* whether an existing file is an archive that may be replaced.            *)
(*                                                                         *)
(* A tar stream is a sequence of headers with their content.  A path too   *)
(* long for a header is written as a header of type longname before it.    *)
(***************************************************************************)
EXTENDS PathPolicy, FiniteSetsExt

CONSTANTS
  Paths,          \* paths of entries
  Long,           \* those too long for the name field of a header
  Oversized,      \* those longer than path_bytes
  Escaping,       \* those that are absolute, leave the root or hold a backslash
  Root,           \* the directory of a package archive
  Manifest,       \* the name of the manifest
  Declared,       \* what the manifest names as its entry file
  Sizes,          \* sizes of contents
  FileBytes, ExpandedBytes, Entries,   \* limits
  Block, PathBytes, Overhead, TarRecord, \* of the tar format
  MaxHeaders      \* bound: headers in an archive

VARIABLES
  maker,    \* "packer" or "other"
  captured, \* files the packer has written: pairs <<path, size>>
  wrote,    \* paths captured, as PortablePackagePaths
  registry, git, existing, \* the readers
  headers, ended, result

archiveVars == <<maker, captured, wrote, registry, git, existing, headers, ended, result>>

Readers == {"registry", "git", "existing"}
Types == {"file", "directory", "link", "longname", "metadata"}

NewReader == [failed |-> FALSE, count |-> 0, bytes |-> 0, decoded |-> 0, longname |-> <<>>,
              named |-> {}, files |-> {}, directories |-> {}]

\* Without metadata_headers the registry reads raw headers: an extension
\* header is an entry like any other.
Raw(reader) == reader = "registry"

-----------------------------------------------------------------------------
(* decoded_archive_bytes_limit: the whole decoded stream has a budget.      *)
Padded(n) == ((n + Block - 1) \div Block) * Block
PathExtension == Block + Padded(PathBytes + Overhead)
DecodedLimit == ExpandedBytes + Entries * (2 * Block - 1 + 2 * PathExtension) + TarRecord

HeaderBytes(h) == Block + Padded(IF h.type = "longname" THEN PathBytes ELSE h.size)
Trailer == 2 * Block

-----------------------------------------------------------------------------
(* The refusals of the readers.                                            *)
LegalPath(p) == p # <<>> /\ p \notin Oversized \cup Escaping

Fails(r) == [r EXCEPT !.failed = TRUE]

\* Mutant: only the size of one file is limited.
MutFits(r, size) == size <= FileBytes
Fits(r, size) == size <= FileBytes /\ r.bytes + size <= ExpandedBytes

\* One file: the content must be as long as the header says, and create_new
\* refuses what an earlier entry has made.
TakeFile(r, p, h) ==
  IF /\ CanName(r.named, p, FALSE) /\ Fits(r, h.size) /\ h.actual = h.size
     /\ \A f \in r.files : f[1] # p
  THEN [r EXCEPT !.named = Name(@, p, FALSE), !.bytes = @ + h.size,
                 !.files = @ \cup {<<p, h.size>>}]
  ELSE Fails(r)

TakeDirectory(r, p) ==
  IF CanName(r.named, p, TRUE)
  THEN [r EXCEPT !.named = Name(@, p, TRUE), !.directories = @ \cup {p}]
  ELSE Fails(r)

\* Metadata of a Git archive counts, but makes no file.
TakeMetadata(r, h) ==
  IF Fits(r, h.size) /\ h.actual = h.size THEN [r EXCEPT !.bytes = @ + h.size] ELSE Fails(r)

\* extract_tar_reader_with_limits, one entry.
Unpack(reader, r, p, h) ==
  CASE r.count = Entries \/ ~LegalPath(p) -> Fails(r)
    [] h.type = "metadata" /\ ~Raw(reader) -> TakeMetadata([r EXCEPT !.count = @ + 1], h)
    [] h.type = "directory" -> TakeDirectory([r EXCEPT !.count = @ + 1], p)
    [] h.type = "file" -> TakeFile([r EXCEPT !.count = @ + 1], p, h)
    [] OTHER -> Fails(r)

\* validate_existing_package_archive_reader, one entry: only files below the
\* root, nothing reserved, no manifest but the one of the root.
OwnEntry(p, h) ==
  /\ h.type = "file" /\ p # <<>> /\ p[1] = Root
  /\ RequireIncluded(Tail(p), "YxpEntry")
  /\ Last(p) = Manifest => p = <<Root, Manifest>>

Inspect(r, p, h) ==
  IF r.count < Entries /\ LegalPath(p) /\ OwnEntry(p, h)
  THEN TakeFile([r EXCEPT !.count = @ + 1], p, h) ELSE Fails(r)

\* One header.  The tar library resolves long names for readers that do not
\* read raw; the name is no entry of its own then.
Reads(reader, r, h) ==
  LET p == IF r.longname # <<>> THEN r.longname ELSE h.path
      d == [r EXCEPT !.decoded = @ + HeaderBytes(h), !.longname = <<>>]
  IN CASE r.failed -> r
       [] reader # "git" /\ d.decoded > DecodedLimit -> Fails(r)
       [] h.type = "longname" /\ ~Raw(reader) -> [d EXCEPT !.longname = h.path]
       [] reader = "existing" -> Inspect(d, p, h)
       [] OTHER -> Unpack(reader, d, p, h)

ReadAll(h) ==
  /\ registry' = Reads("registry", registry, h)
  /\ git' = Reads("git", git, h)
  /\ existing' = Reads("existing", existing, h)

-----------------------------------------------------------------------------
(* pack_package_with_limits: a file of the capture (module Packing), below  *)
(* the root of the archive.                                                *)
ArchivePath(p) == <<Root>> \o p
Total(files) == FoldSet(LAMBDA f, sum : f[2] + sum, 0, files)

Packable(p, size) ==
  /\ RequireIncluded(p, "YxpEntry") /\ CanName(wrote, p, FALSE)
  /\ Last(p) = Manifest => p = <<Manifest>>
  /\ LegalPath(p) /\ LegalPath(ArchivePath(p))
  /\ Cardinality(captured) < Entries
  /\ size <= FileBytes /\ Total(captured) + size <= ExpandedBytes

\* append_data writes a path that does not fit as a longname header first.
PackFile(p, size) ==
  /\ maker = "packer" /\ ~ended /\ headers < MaxHeaders
  /\ Packable(p, size)
  /\ captured' = captured \cup {<<p, size>>} /\ wrote' = Name(wrote, p, FALSE)
  /\ LET file == [type |-> "file", path |-> ArchivePath(p), size |-> size, actual |-> size]
         name == [file EXCEPT !.type = "longname"]
         Both(reader, r) ==
           IF ArchivePath(p) \in Long THEN Reads(reader, Reads(reader, r, name), file)
           ELSE Reads(reader, r, file)
     IN /\ registry' = Both("registry", registry)
        /\ git' = Both("git", git)
        /\ existing' = Both("existing", existing)
  /\ headers' = headers + 1
  /\ UNCHANGED <<maker, ended, result>>

\* Any other program writes what it likes: a content as long as the header
\* says or none, where there is one.
Content == {"file", "metadata"}
Header ==
  [type : Types \ Content, path : Paths, size : {0}, actual : {0}]
  \cup {[type |-> t, path |-> p, size |-> n, actual |-> IF whole THEN n ELSE 0] :
          t \in Content, p \in Paths, n \in Sizes, whole \in BOOLEAN}
OtherHeader ==
  /\ maker = "other" /\ ~ended /\ headers < MaxHeaders
  /\ \E h \in Header : ReadAll(h)
  /\ headers' = headers + 1
  /\ UNCHANGED <<maker, captured, wrote, ended, result>>

-----------------------------------------------------------------------------
(* What becomes of an unpacked tree.                                       *)
FilesOf(r) == {f[1] : f \in r.files}
Above(p) == {SubSeq(p, 1, n) : n \in 1 .. Len(p) - 1}
Tree(r) == FilesOf(r) \cup r.directories \cup UNION {Above(p) : p \in FilesOf(r) \cup r.directories}

\* find_manifest_root: exactly one manifest, anywhere.
Manifests(r) == {p \in FilesOf(r) : Last(p) = Manifest}
RootOf(r) == Front(CHOOSE p \in Manifests(r) : TRUE)
Within(root, p) == Len(p) > Len(root) /\ SubSeq(p, 1, Len(root)) = root
Relative(root, p) == SubSeq(p, Len(root) + 1, Len(p))
Published(r) == {Relative(RootOf(r), p) : p \in {q \in Tree(r) : Within(RootOf(r), q)}}
PublishedFiles(r) ==
  {<<Relative(RootOf(r), f[1]), f[2]>> : f \in {g \in r.files : Within(RootOf(r), g[1])}}

\* validate_published_package_tree.
Publishable(r) ==
  /\ \A p \in Published(r) : RequireIncluded(p, "YxpEntry")
  /\ \A p, q \in Published(r) : FoldedPath(p) = FoldedPath(q) => p = q

\* prepare_staged_registry_package_with_hook after unpacking: the root of the
\* manifest, its tree, and what the manifest declares (lock_local).
Prepared(r) ==
  /\ ~r.failed /\ Cardinality(Manifests(r)) = 1
  /\ Publishable(r)
  /\ \E f \in PublishedFiles(r) : f[1] = Declared

\* validate_existing_package_archive_reader at the end of the stream.
Recognised(r) == ~r.failed /\ <<Root, Manifest>> \in FilesOf(r) /\ r.count >= 2

\* drain_archive_reader: what follows the end of the archive counts too.
Drain(reader, r, tail) ==
  IF r.decoded + Trailer + tail > DecodedLimit /\ reader # "git" THEN Fails(r) ELSE r

\* The stream ends, with more data behind it or not; the packer ends it when
\* the manifest and what it declares are in.
End(tail) ==
  /\ ~ended /\ headers > 0
  /\ maker = "packer" =>
       tail = 0 /\ {<<Manifest>>, Declared} \subseteq {f[1] : f \in captured}
  /\ ended' = TRUE
  /\ LET x == Drain("registry", registry, tail)
         g == Drain("git", git, tail)
         e == Drain("existing", existing, tail)
     IN /\ registry' = x /\ git' = g /\ existing' = e
        /\ result' = [installed |-> IF Prepared(x) THEN PublishedFiles(x) ELSE {},
                      replaceable |-> Recognised(e)]
  /\ UNCHANGED <<maker, captured, wrote, headers>>

-----------------------------------------------------------------------------
Init ==
  /\ maker \in {"packer", "other"}
  /\ captured = {} /\ wrote = {}
  /\ registry = NewReader /\ git = NewReader /\ existing = NewReader
  /\ headers = 0 /\ ended = FALSE
  /\ result = [installed |-> {}, replaceable |-> FALSE]

Next ==
  \/ \E p \in Paths, size \in Sizes : PackFile(p, size)
  \/ OtherHeader
  \/ \E tail \in {0, DecodedLimit} : End(tail)

Spec == Init /\ [][Next]_archiveVars

-----------------------------------------------------------------------------
TypeOK ==
  /\ maker \in {"packer", "other"} /\ headers \in 0 .. MaxHeaders /\ ended \in BOOLEAN
  /\ \A r \in {registry, git, existing} :
       /\ r.count \in 0 .. Entries /\ r.bytes \in 0 .. ExpandedBytes
       /\ \A f \in r.files : f[2] \in Sizes
  /\ \A r \in {registry, existing} : r.decoded \in 0 .. DecodedLimit

\* Every archive packing completes installs from a registry as the files that
\* were captured, and is recognised as an archive when it is to be replaced
\* (pack_package, prepare_staged_registry_package, validate_pack_output).
RoundTrip(long) ==
  ended /\ maker = "packer" /\ (long \/ \A f \in captured : ArchivePath(f[1]) \notin Long) =>
    result.replaceable /\ result.installed = captured
PackedIsReadable == RoundTrip(FALSE)

\* The same for every path within the limit of the format, as the comment on
\* decoded_archive_bytes_limit has it (archive.rs:33).
LongPathsAreReadable == RoundTrip(TRUE)

\* Whatever an archive holds, what unpacking puts on the disk stays below the
\* destination and within the limits, and no two of its files or directories
\* are one on a file system that ignores case (extract_tar_reader_with_limits).
UnpackedIsTame ==
  \A r \in {registry, git} :
    /\ \A p \in Tree(r) : p \notin Escaping
    /\ Total(r.files) <= ExpandedBytes /\ Cardinality(r.files) <= Entries
    /\ \A p, q \in Tree(r) : FoldedPath(p) = FoldedPath(q) => p = q
    /\ \A f \in FilesOf(r) : f \notin r.directories /\ \A q \in Tree(r) : f \notin Above(q)

\* A file that packing may overwrite is an archive: it unpacks, with the same
\* files, into one package that may be published, whatever its tree was made
\* by (validate_existing_package_archive).
ReplacedIsArchive ==
  ended /\ result.replaceable =>
    /\ ~git.failed /\ git.files = existing.files
    /\ Cardinality(Manifests(git)) = 1 /\ Publishable(git)
ArchivesAreSound == PackedIsReadable /\ UnpackedIsTame /\ ReplacedIsArchive
=============================================================================

------------------------------ MODULE PathPolicy ------------------------------
(***************************************************************************)
(* Which paths a package may contain: path_policy.rs.  A path is a         *)
(* sequence of components.  Of a component only three things matter: the   *)
(* spelling (the component itself), its portable identity (Nfc) and the    *)
(* identity file systems that ignore case give it (Folded).                *)
(***************************************************************************)
EXTENDS Integers, Sequences, SequencesExt

CONSTANTS
  Components,   \* every spelling
  Reserved,     \* those of RESERVED_COMPONENTS
  LockName,     \* the name of the lock file
  Illegal,      \* those no Windows host takes: device names, a trailing dot
  Nfc,          \* [Components -> Components]
  Folded        \* [Components -> Components]

Purposes == {"TreeChecksum", "YxpEntry", "ModuleSource", "ManifestReference"}

Portable(c) ==
  /\ c \notin Illegal
  /\ \A r \in Reserved \cup {LockName} : Folded[c] = Folded[r] => c = r

\* Reserved content is left out of checksums and archives; naming it as a
\* module or in a manifest is an error.
OnReserved(purpose) ==
  IF purpose \in {"TreeChecksum", "YxpEntry"} THEN "exclude" ELSE "reject"

\* The first component with a say decides.
Decision(path, purpose) ==
  LET telling == {i \in DOMAIN path : path[i] \in Reserved \cup {LockName}}
      first == CHOOSE i \in telling : \A j \in telling : i <= j
  IN CASE path = <<>> \/ \E i \in DOMAIN path : ~Portable(path[i]) -> "reject"
       [] telling = {} -> "include"
       [] path = <<LockName>> /\ purpose = "YxpEntry" -> "include"
       [] OTHER -> OnReserved(purpose)

RequireIncluded(path, purpose) == Decision(path, purpose) = "include"

FoldedPath(path) == [i \in DOMAIN path |-> Folded[path[i]]]
NfcPath(path) == [i \in DOMAIN path |-> Nfc[path[i]]]

(***************************************************************************)
(* PortablePackagePaths: the paths one tree or archive has named so far.   *)
(* A record for every prefix of an accepted path; terminal when the path   *)
(* itself was named, directory when it has or may have children.           *)
(***************************************************************************)
Previous(table, prefix) == {r \in table : FoldedPath(r.original) = FoldedPath(prefix)}

Tolerated(r, prefix, terminal, directory) ==
  /\ r.original = prefix
  /\ IF terminal THEN ~r.terminal /\ directory ELSE ~r.terminal \/ r.directory

CanName(table, path, directory) ==
  /\ path # <<>> /\ \A i \in DOMAIN path : Portable(path[i])
  /\ \A n \in DOMAIN path : \A r \in Previous(table, SubSeq(path, 1, n)) :
       Tolerated(r, SubSeq(path, 1, n), n = Len(path), directory)

Name(table, path, directory) ==
  LET known == {r.original : r \in table}
      new == {SubSeq(path, 1, n) : n \in DOMAIN path} \ known
  IN {IF r.original = path THEN [r EXCEPT !.terminal = TRUE, !.directory = TRUE] ELSE r
        : r \in table}
     \cup {[original |-> p, terminal |-> p = path, directory |-> p # path \/ directory] : p \in new}

\* One directory read from its handle: no two entries may share an identity.
SoundListing(names) ==
  /\ \A n \in names : Portable(n)
  /\ \A m, n \in names : Folded[m] = Folded[n] => m = n

\* The entry a component selects: the one of its portable identity, whatever
\* the file system made of the spelling.
Selected(names, c) == {n \in names : Nfc[n] = Nfc[c]}
=============================================================================

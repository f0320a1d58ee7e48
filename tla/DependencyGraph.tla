---------------------------- MODULE DependencyGraph ----------------------------
(***************************************************************************)
(* Which packages a project gets: GraphBuilder of                          *)
(* crates/yanxu-package/src/package.rs, the lock file it reads and writes, *)
(* and the registry, cache and path packages it draws from.                *)
(*                                                                         *)
(* A resolution is one step here; Resolution models what may happen while  *)
(* it runs.  A package is identified by its name, version and content; a   *)
(* registry release has one content, a path package has version 1 and the  *)
(* content its author last saved.                                          *)
(***************************************************************************)
EXTENDS Integers, Sequences, SequencesExt, FiniteSets, TLC

CONSTANTS
  Names,             \* every package name
  PathNames,         \* those that are directories beside the project
  Versions,          \* version numbers of releases
  RootManifests,     \* root manifests: a dependency table and a permission
  PackageManifest(_) \* the manifest a package of an identity contains: its
                     \* dependency table and whether it has native artifacts

VARIABLES
  manifest,   \* the manifest of the project
  lock,       \* {} or the lock file, alone in a set
  published,  \* releases in the registry
  yanked,     \* releases withdrawn from it
  cached,     \* releases with a valid snapshot in the local cache
  content,    \* the present content of each path package
  outcome     \* the graph of the last resolution, {} if it failed

vars == <<manifest, lock, published, yanked, cached, content, outcome>>

\* Bound: how often the author of a path package edits it.
Contents == 0 .. 1

RegistryNames == Names \ PathNames
Release(n, v) == [name |-> n, version |-> v, content |-> 0]
Releases == {Release(n, v) : n \in RegistryNames, v \in Versions}
Identities == Releases \cup {[name |-> n, version |-> 1, content |-> c] :
                               n \in PathNames, c \in Contents}

\* The order of the packages of a lock file: by identity, so for one name by
\* version.
Earlier(a, b) == a.version < b.version

-----------------------------------------------------------------------------
(***************************************************************************)
(* One dependency: a record of the package's name and the versions the     *)
(* requirement accepts.                                                    *)
(***************************************************************************)
Suits(id, dep) == id.name = dep.name /\ id.version \in dep.accepts

\* The packages of the lock file that may be reused: all, if it was written
\* for this very manifest.
Reusable(reuse) ==
  UNION {DOMAIN l.packages : l \in {k \in lock : reuse /\ k.manifest = manifest}}

\* locked_candidate: the first package of the lock file that suits.
LockedCandidate(dep, reuse) ==
  LET fit == {id \in Reusable(reuse) : Suits(id, dep)}
  IN {id \in fit : \A other \in fit : id = other \/ Earlier(id, other)}

Newest(s) == {id \in s : \A other \in s : ~Earlier(id, other)}
Online(dep, offline) == {id \in published : Suits(id, dep) /\ ~offline}

\* Mutant: a locked release that was yanked is refused.
MutYanked(dep, locked, offline) ==
  IF locked # {} THEN (locked \cap (cached \cup Online(dep, offline))) \ yanked
  ELSE Newest(Online(dep, offline) \ yanked)

\* resolve_registry: a locked release comes from the cache, or from the
\* registry even if it was yanked; an unlocked one is the newest that suits.
FromRegistry(dep, locked, offline) ==
  IF locked # {} THEN locked \cap (cached \cup Online(dep, offline))
  ELSE Newest(Online(dep, offline) \ yanked)

\* The path branch of resolve_one, with verify_locked: the directory as it is
\* now, which must be what the lock file names.
FromPath(dep, locked) ==
  {id \in Identities : /\ Suits(id, dep)
                       /\ id.content = content[id.name]
                       /\ locked # {} => id \in locked}

\* resolve_one: the package found, in a set, or {}.
ResolveOne(dep, reuse, offline) ==
  LET locked == LockedCandidate(dep, reuse)
  IN IF dep.name \in PathNames THEN FromPath(dep, locked)
     ELSE FromRegistry(dep, locked, offline)

-----------------------------------------------------------------------------
(***************************************************************************)
(* GraphBuilder: packages holds the finished packages with their edges,    *)
(* visiting those begun, edges the edges of the table at hand.             *)
(***************************************************************************)
Builder == [ok |-> TRUE, packages |-> <<>>, visiting |-> {}, edges |-> <<>>,
            fetched |-> {}]
Fail(b) == [b EXCEPT !.ok = FALSE]

RECURSIVE ResolveTable(_, _, _, _)

\* Mutant: a package begun but not finished is taken as it is.
MutVisit(id, b, reuse, offline) ==
  LET inner == ResolveTable(PackageManifest(id).table,
                            [b EXCEPT !.visiting = @ \cup {id}], reuse, offline)
  IN IF id \in b.visiting THEN [b EXCEPT !.packages = @ @@ (id :> <<>>)]
     ELSE IF ~inner.ok \/ (PackageManifest(id).native /\ ~manifest.native)
     THEN Fail(inner)
     ELSE [inner EXCEPT !.packages = (id :> inner.edges) @@ @, !.visiting = @ \ {id}]

\* A package met for the first time: its own table, then its artifact, which
\* only the root manifest can allow.
Visit(id, b, reuse, offline) ==
  LET inner == ResolveTable(PackageManifest(id).table,
                            [b EXCEPT !.visiting = @ \cup {id}], reuse, offline)
  IN IF id \in b.visiting THEN Fail(b)
     ELSE IF ~inner.ok \/ (PackageManifest(id).native /\ ~manifest.native)
     THEN Fail(inner)
     ELSE [inner EXCEPT !.packages = @ @@ (id :> inner.edges), !.visiting = @ \ {id}]

\* The body of the loop of resolve_table.
Resolve(dep, b, reuse, offline) ==
  IF ~b.ok THEN b
  ELSE LET found == ResolveOne(dep, reuse, offline)
       IN IF found = {} THEN Fail(b)
          ELSE LET id == CHOOSE id \in found : TRUE
                   kept == [b EXCEPT !.fetched = @ \cup {id}]
                   visited == IF id \in DOMAIN b.packages THEN kept
                              ELSE Visit(id, kept, reuse, offline)
               IN [visited EXCEPT !.edges = Append(b.edges, id)]

ResolveTable(table, b, reuse, offline) ==
  FoldLeft(LAMBDA acc, dep : Resolve(dep, acc, reuse, offline),
           [b EXCEPT !.edges = <<>>], table)

Resolved(reuse, offline) == ResolveTable(manifest.table, Builder, reuse, offline)

LockOf(b) == [manifest |-> manifest, root |-> b.edges, packages |-> b.packages]

-----------------------------------------------------------------------------
(***************************************************************************)
(* The commands and the world around them.                                 *)
(***************************************************************************)
\* resolve_graph_mode with its lock file; what was fetched stays in the cache
\* even if the resolution fails.
ResolveGraph(reuse, offline, write) ==
  LET b == Resolved(reuse, offline)
  IN /\ outcome' = IF b.ok THEN {LockOf(b)} ELSE {}
     /\ lock' = IF b.ok /\ write THEN {LockOf(b)} ELSE lock
     /\ cached' = cached \cup (b.fetched \cap Releases)
     /\ UNCHANGED <<manifest, published, yanked, content>>

\* Mutant: an install selects again, as an update does.
MutInstall == \E offline \in BOOLEAN : ResolveGraph(FALSE, offline, TRUE)

\* ensure_lock and with_locked_resolution.
Install == \E offline \in BOOLEAN : ResolveGraph(TRUE, offline, TRUE)
\* update_lock.
Update == \E offline \in BOOLEAN : ResolveGraph(FALSE, offline, TRUE)
\* plan_update.
PlanUpdate == \E offline \in BOOLEAN : ResolveGraph(FALSE, offline, FALSE)

Publish ==
  \E id \in Releases \ published :
    /\ published' = published \cup {id}
    /\ UNCHANGED <<manifest, lock, yanked, cached, content, outcome>>

Yank ==
  \E id \in published \ yanked :
    /\ yanked' = yanked \cup {id}
    /\ UNCHANGED <<manifest, lock, published, cached, content, outcome>>

ClearCache ==
  /\ cached # {}
  /\ cached' = {}
  /\ UNCHANGED <<manifest, lock, published, yanked, content, outcome>>

EditSource ==
  \E n \in PathNames :
    /\ content' = [content EXCEPT ![n] = 1 - @]
    /\ UNCHANGED <<manifest, lock, published, yanked, cached, outcome>>

EditManifest ==
  \E m \in RootManifests \ {manifest} :
    /\ manifest' = m
    /\ UNCHANGED <<lock, published, yanked, cached, content, outcome>>

Init ==
  /\ manifest \in RootManifests
  /\ lock = {} /\ outcome = {}
  /\ published \in SUBSET Releases
  /\ yanked = {} /\ cached = {}
  /\ content = [n \in PathNames |-> 0]

Next ==
  \/ Install \/ Update \/ PlanUpdate
  \/ Publish \/ Yank \/ ClearCache \/ EditSource \/ EditManifest

Spec == Init /\ [][Next]_vars

-----------------------------------------------------------------------------
TypeOK ==
  /\ manifest \in RootManifests
  /\ Cardinality(lock) <= 1 /\ Cardinality(outcome) <= 1
  /\ \A l \in lock \cup outcome : /\ l.manifest \in RootManifests
                                  /\ DOMAIN l.packages \subseteq Identities
                                  /\ ToSet(l.root) \subseteq Identities
  /\ published \subseteq Releases /\ yanked \subseteq published
  /\ cached \subseteq Releases
  /\ content \in [PathNames -> Contents]

\* The packages a table asks for, one for each dependency and each suitable.
Meets(edges, table) ==
  /\ Len(edges) = Len(table)
  /\ \A i \in DOMAIN table : Suits(edges[i], table[i])

\* A lock file, and every graph a command returns, is whole: each package has
\* for each of its dependencies an edge to a package of the graph that meets
\* the requirement, and the edges have no cycle, so that modules can be
\* initialised in some order (spec/language/v1/formats.md:31-33).
GraphIsWhole ==
  \A l \in lock \cup outcome :
    LET ids == DOMAIN l.packages
        heights == [ids -> 0 .. Cardinality(ids)]
    IN /\ Meets(l.root, l.manifest.table)
       /\ ToSet(l.root) \subseteq ids
       /\ \A id \in ids : /\ Meets(l.packages[id], PackageManifest(id).table)
                          /\ ToSet(l.packages[id]) \subseteq ids
       /\ \E h \in heights :
            \A id \in ids : \A to \in ToSet(l.packages[id]) : h[to] < h[id]

\* An install with a lock file of the present manifest never brings in a
\* package the lock file does not name, whatever was released, yanked or
\* edited in the meantime; only update may.
StaysLocked ==
  Install => \A old \in lock, new \in lock' :
    old.manifest = manifest => DOMAIN new.packages \subseteq DOMAIN old.packages
InstallStaysLocked == [][StaysLocked]_vars

\* With a lock file of the present manifest and its releases in the cache, an
\* offline install succeeds as long as the path packages are unchanged, even
\* after every release was yanked (spec/language/v1/formats.md:38).
OfflineSuffices ==
  \A l \in lock :
    /\ l.manifest = manifest
    /\ DOMAIN l.packages \cap Releases \subseteq cached
    /\ \A id \in DOMAIN l.packages \ Releases : content[id.name] = id.content
    => Resolved(TRUE, TRUE).ok

\* formats.md:36 says that a run uses the complete graph of the lock file and
\* selects no version of its own.
RunsTheLockedGraph ==
  \A l \in lock :
    l.manifest = manifest /\ Resolved(TRUE, FALSE).ok => LockOf(Resolved(TRUE, FALSE)) = l

=============================================================================

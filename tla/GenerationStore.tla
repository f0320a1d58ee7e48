---------------------------- MODULE GenerationStore ----------------------------
(***************************************************************************)
(* How an immutable copy of a package tree (a generation) gets into the    *)
(* shared cache and is found again: the resolution, Git and registry       *)
(* generations of crates/yanxu-package/src/package.rs.                     *)
(*                                                                         *)
(* One key: all processes want the same content.  They serialise on a file *)
(* lock of the key, look for a good generation, and otherwise write one in *)
(* a hidden directory and rename it into place.  A process may be killed   *)
(* and the machine may lose power at any point; a generation may be        *)
(* damaged, or replaced by a link, from outside.                           *)
(***************************************************************************)
EXTENDS Integers, FiniteSets

CONSTANTS
  Procs,
  Places,     \* places of generations in the order of their names: place 1 is
              \* the primary name, the others are repairs
  MaxHarm,    \* bound: damages from outside and power failures
  MaxRequests \* bound: requests begun

VARIABLES
  kind,      \* which of the three stores this is
  places,    \* what is visible at each place
  sealed,    \* places that were made read-only
  pending,   \* places whose name a power failure may take back
  keyLock,   \* processes holding the lock of the key
  step,      \* where each process stands
  target,    \* the place each process has chosen or found, 0 if none
  offline,   \* processes whose request must not use the network
  hidden,    \* unfinished directories in the cache
  legacy,    \* a cache of the old layout holds the package
  harm, requests

vars == <<kind, places, sealed, pending, keyLock, step, target, offline,
          hidden, legacy, harm, requests>>
store == <<places, sealed, pending, legacy>>
bounds == <<kind, harm, requests>>

Kinds == {"resolution", "git", "registry"}
Visible == {s \in Places : places[s] # "absent"}
Good == {s \in Visible : places[s] = "good"}
Smallest(set) == CHOOSE s \in set : \A other \in set : s <= other

At(p, where) == step[p] = where
Goto(p, where) == step' = [step EXCEPT ![p] = where]
Choose(p, s) == target' = [target EXCEPT ![p] = s]
Keep == UNCHANGED <<target, offline, hidden>>

\* The guards of a request dropped on its way out: the lock, and the hidden
\* directory unless it was renamed.
End(p, result) ==
  /\ Goto(p, result)
  /\ keyLock' = keyLock \ {p} /\ hidden' = hidden \ {p}
  /\ UNCHANGED <<offline, bounds>>

-----------------------------------------------------------------------------
(***************************************************************************)
(* Lookup, with the lock of the key held.                                  *)
(***************************************************************************)
\* A request of the registry for a package no lock file names skips the
\* lookup and downloads at once.
Begin(p) ==
  /\ step[p] \in {"idle", "found", "failed"} /\ requests < MaxRequests
  /\ requests' = requests + 1
  /\ offline' \in {offline \ {p}, offline \cup {p}}
  /\ \/ Goto(p, "lock")
     \/ kind = "registry" /\ p \notin offline' /\ Goto(p, "download")
  /\ Choose(p, 0)
  /\ UNCHANGED <<store, keyLock, hidden, kind, harm>>

\* acquire_resolution_generation_lock and its siblings wait for the lock.
Lock(p) ==
  /\ step[p] \in {"lock", "lockAgain"} /\ keyLock = {}
  /\ keyLock' = {p}
  /\ Goto(p, IF At(p, "lock") THEN "lookup" ELSE "lookupAgain")
  /\ Keep /\ UNCHANGED <<store, bounds>>

\* The first good generation, made read-only if a crash had prevented that.
Found(p) ==
  /\ sealed' = sealed \cup {Smallest(Good)}
  /\ Choose(p, Smallest(Good))
  /\ End(p, "found") /\ UNCHANGED <<places, pending, legacy>>

Fail(p) == End(p, "failed") /\ UNCHANGED <<store, target>>

Stay(p, where) == Goto(p, where) /\ Keep /\ UNCHANGED <<store, keyLock, bounds>>

\* existing_resolution_generation passes over links and damaged directories.
LookUpResolution(p) ==
  /\ At(p, "lookup") /\ kind = "resolution"
  /\ IF Good # {} THEN Found(p) ELSE Stay(p, "write")

\* existing_git_generation refuses a link it meets before a good directory.
LookUpGit(p) ==
  /\ At(p, "lookup") /\ kind = "git"
  /\ IF \E s \in Visible : places[s] = "link" /\ \A g \in Good : s < g
     THEN Fail(p)
     ELSE IF Good # {} THEN Found(p) ELSE Stay(p, "write")

\* find_cached_registry_package_locked remembers what was wrong and goes on;
\* then it takes over a package of the old layout, and else the request goes
\* to the network if it may.
LookUpRegistry(p) ==
  /\ At(p, "lookup") /\ kind = "registry"
  /\ IF Good # {} THEN Found(p)
     ELSE IF legacy THEN Stay(p, "write")
     ELSE IF p \in offline THEN Fail(p)
     ELSE /\ Goto(p, "download") /\ keyLock' = keyLock \ {p}
          /\ Keep /\ UNCHANGED <<store, bounds>>

\* download_registry_index and stage_registry_release, without the lock.
Download(p) ==
  /\ At(p, "download")
  /\ Stay(p, "lockAgain") \/ Fail(p)

\* Mutant: what another process published during the download is not seen.
MutLookUpAgain(p) == At(p, "lookupAgain") /\ Stay(p, "write")

\* publish_registry_snapshot looks once more.
LookUpAgain(p) ==
  /\ At(p, "lookupAgain")
  /\ IF Good # {} THEN Found(p) ELSE Stay(p, "write")

-----------------------------------------------------------------------------
(***************************************************************************)
(* Publication.                                                            *)
(***************************************************************************)
\* write_resolution_snapshot, copy_registry_tree: every file and directory of
\* the hidden tree is written and synced.
Write(p) ==
  /\ At(p, "write")
  /\ hidden' = hidden \cup {p}
  /\ Goto(p, "place")
  /\ UNCHANGED <<store, keyLock, target, offline, bounds>>

\* Mutant: the primary name is used whatever stands there.
MutPlace(p) ==
  /\ At(p, "place")
  /\ Choose(p, 1) /\ Goto(p, "rename")
  /\ UNCHANGED <<store, keyLock, offline, hidden, bounds>>

\* resolution_generation_destination, registry_generation_destination: the
\* primary name if it is free, else a fresh repair name.
Place(p) ==
  /\ At(p, "place")
  /\ IF Visible = Places THEN Fail(p)
     ELSE /\ \E s \in Places \ Visible :
               (1 \in Visible \/ s = 1) /\ Choose(p, s)
          /\ Goto(p, "rename")
          /\ UNCHANGED <<store, keyLock, offline, hidden, bounds>>

\* The hidden directory is renamed.  Registry generations were sealed before.
Rename(p) ==
  /\ At(p, "rename")
  /\ places' = [places EXCEPT ![target[p]] = "good"]
  /\ pending' = pending \cup {target[p]}
  /\ sealed' = IF kind = "registry" THEN sealed \cup {target[p]} ELSE sealed
  /\ hidden' = hidden \ {p}
  /\ Goto(p, "sync")
  /\ UNCHANGED <<keyLock, target, offline, legacy, bounds>>

\* sync_registry_directory_parent.
Sync(p) ==
  /\ At(p, "sync")
  /\ pending' = pending \ {target[p]}
  /\ Goto(p, "seal")
  /\ Keep /\ UNCHANGED <<places, sealed, legacy, keyLock, bounds>>

\* The published generation is sealed and its content read once more.
Seal(p) ==
  /\ At(p, "seal")
  /\ sealed' = sealed \cup {target[p]}
  /\ End(p, IF places[target[p]] = "good" THEN "found" ELSE "failed")
  /\ UNCHANGED <<places, pending, legacy, target>>

\* Any of the operations reports an error.
Error(p) ==
  /\ step[p] \in {"lookup", "lookupAgain", "write", "place", "rename", "sync", "seal"}
  /\ Fail(p)

-----------------------------------------------------------------------------
(***************************************************************************)
(* Faults.                                                                 *)
(***************************************************************************)
Running == {p \in Procs : step[p] \notin {"idle", "found", "failed"}}

\* Killed: the lock goes, a hidden directory stays; so it does not stand in
\* the way of anyone, a later process uses a name of its own.
Kill(p) ==
  /\ p \in Running
  /\ Goto(p, "idle")
  /\ keyLock' = keyLock \ {p} /\ hidden' = hidden \ {p}
  /\ UNCHANGED <<store, target, offline, bounds>>

\* A name that was not synced may be lost.  The directory of a resolution or
\* Git generation is not synced itself, so its content may be lost as well.
PowerFails ==
  /\ harm < MaxHarm /\ harm' = harm + 1
  /\ \E now \in [pending -> {"absent", "good"} \cup
                   (IF kind = "registry" THEN {} ELSE {"damaged"})] :
       places' = [s \in Places |-> IF s \in pending THEN now[s] ELSE places[s]]
  /\ sealed' = {s \in sealed : places'[s] # "absent"}
  /\ pending' = {} /\ keyLock' = {} /\ hidden' = {}
  /\ step' = [p \in Procs |-> "idle"]
  /\ UNCHANGED <<target, offline, legacy, kind, requests>>

Damage ==
  /\ harm < MaxHarm /\ harm' = harm + 1
  /\ \E s \in Visible, w \in {"damaged", "link"} : places' = [places EXCEPT ![s] = w]
  /\ UNCHANGED <<sealed, pending, legacy, keyLock, step, target, offline, hidden, kind, requests>>

Init ==
  /\ kind \in Kinds
  /\ places = [s \in Places |-> "absent"]
  /\ sealed = {} /\ pending = {} /\ keyLock = {} /\ offline = {} /\ hidden = {}
  /\ legacy \in {FALSE, kind = "registry"}
  /\ step = [p \in Procs |-> "idle"]
  /\ target = [p \in Procs |-> 0]
  /\ harm = 0 /\ requests = 0

Advance(p) ==
  \/ Lock(p) \/ LookUpResolution(p) \/ LookUpGit(p) \/ LookUpRegistry(p)
  \/ Download(p) \/ LookUpAgain(p)
  \/ Write(p) \/ Place(p) \/ Rename(p) \/ Sync(p) \/ Seal(p) \/ Error(p)

Next ==
  \/ \E p \in Procs : Begin(p) \/ Advance(p) \/ Kill(p)
  \/ PowerFails \/ Damage

Spec == Init /\ [][Next]_vars

-----------------------------------------------------------------------------
TypeOK ==
  /\ kind \in Kinds
  /\ places \in [Places -> {"absent", "good", "damaged", "link"}]
  /\ sealed \subseteq Visible /\ pending \subseteq Visible
  /\ keyLock \subseteq Procs /\ Cardinality(keyLock) <= 1
  /\ target \in [Procs -> Places \cup {0}]
  /\ hidden \subseteq Procs /\ offline \subseteq Procs

\* What was published is never written over: not by a second publisher, not
\* by a repair; only an outside hand or a power failure changes it.
Final == \A s \in Visible : places'[s] = places[s] \/ Damage \/ PowerFails
PublishedIsFinal == [][Final]_vars

\* Requests that race, fail, or die at any step leave one generation between
\* them: another appears only after harm was done to the one before it.
OneGeneration == Cardinality(Visible) <= 1 + harm

=============================================================================

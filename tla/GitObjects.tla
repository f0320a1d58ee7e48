------------------------------ MODULE GitObjects ------------------------------
(***************************************************************************)
(* Git dependencies: how resolve_git of package.rs turns a revision of one *)
(* repository into a commit and its tree, through a bare object store that *)
(* processes share.  A store that does not pass validation is never        *)
(* repaired: another is published beside it.  The commit is then put into  *)
(* the cache of generations (module GenerationStore), here a set.          *)
(*                                                                         *)
(* The branch moves, the server forgets commits or does not answer, the    *)
(* cache is damaged from outside, processes are killed.                    *)
(***************************************************************************)
EXTENDS Integers, FiniteSets

CONSTANTS
  Procs, Commits,
  Tags,       \* objects with the form of a commit name that stand for one
  Tagged,     \* [Tags -> Commits]
  Branch,     \* a revision that is no commit name
  Places,     \* 1 is objects.git, the others repairs, in the order of names
  MaxHarm, MaxRequests, Nothing

VARIABLES
  stores,     \* stores[s]: [kind, has]; has are the commits in it
  branch,     \* where the branch of the server stands
  serves,     \* commits the server gives out
  owner,      \* who holds the lock of the source
  request,    \* request[p]
  generations,\* commits published with their tree
  intact,     \* history: commits an answer named and no store lost through harm
  seen,       \* history: seen[p], where the branch stood during the request
  blame,      \* history: processes whose request met a reason to fail
  harm, requests

gitVars == <<stores, branch, serves, owner, request, generations, intact, seen, blame,
             harm, requests>>

Revisions == Commits \cup Tags \cup {Branch}
Exact(r) == r # Branch
Peel(r) == IF r \in Tags THEN Tagged[r] ELSE r
Wanted(r) == IF Exact(r) THEN Peel(r) ELSE branch

NoStore == [kind |-> "absent", has |-> {}]
Idle == [step |-> "idle", revision |-> Branch, offline |-> FALSE, store |-> 0, exact |-> Nothing,
         owed |-> {}]  \* history: what was intact when it began

TypeOK ==
  /\ \A s \in Places : /\ stores[s].kind \in {"absent", "valid", "invalid", "link"}
                       /\ stores[s].has \subseteq Commits
  /\ serves \subseteq Commits /\ generations \subseteq Commits
  /\ owner \in Procs \cup {Nothing}
  /\ \A p \in Procs : request[p].step \notin {"idle", "lock", "found", "failed"} => owner = p

At(p, step) == request[p].step = step
Goto(p, step) == request' = [request EXCEPT ![p].step = step]
Least(set) == CHOOSE s \in set : \A other \in set : s <= other
World == <<branch, serves, harm, requests>>
Past == <<intact, seen>>

-----------------------------------------------------------------------------
Begin(p) ==
  /\ request[p].step \in {"idle", "found", "failed"} /\ requests < MaxRequests
  /\ \E r \in Revisions, o \in BOOLEAN :
       request' = [request EXCEPT ![p] =
         [Idle EXCEPT !.revision = r, !.offline = o, !.owed = intact,
                      !.step = IF o /\ ~Exact(r) THEN "failed" ELSE "lock"]]
  /\ requests' = requests + 1 /\ seen' = [seen EXCEPT ![p] = {branch}]
  /\ blame' = IF request'[p].step = "failed" THEN blame \cup {p} ELSE blame \ {p}
  /\ UNCHANGED <<stores, branch, serves, owner, generations, intact, harm>>

\* acquire_git_cache_lock.
Lock(p) ==
  /\ At(p, "lock") /\ owner = Nothing /\ owner' = p /\ Goto(p, "find")
  /\ UNCHANGED <<stores, generations, blame, Past, World>>

Fail(p) == Goto(p, "failed") /\ owner' = Nothing
Go(p, step) == Goto(p, step) /\ UNCHANGED <<owner, blame>>
Blamed(p) == blame' = blame \cup {p}

\* find_git_object_store: the first that is valid, primary first; a link that
\* stands before it is an error.
Candidates == {s \in Places : stores[s].kind # "absent"}
Valid == {s \in Places : stores[s].kind = "valid"}
LinkFirst == \E s \in Candidates : stores[s].kind = "link" /\ \A v \in Valid : s < v

Find(p) ==
  /\ At(p, "find") /\ UNCHANGED <<stores, generations, Past, World>>
  /\ IF LinkFirst THEN Fail(p) /\ Blamed(p)
     ELSE IF Valid # {}
     THEN /\ request' = [request EXCEPT ![p].store = Least(Valid), ![p].step = "look"]
          /\ UNCHANGED <<owner, blame>>
     ELSE IF request[p].offline THEN Fail(p) /\ UNCHANGED blame
     ELSE Go(p, "create")

\* git_commit_exists spares the network only for a commit named exactly.
Has(q) == Exact(q.revision) /\ Peel(q.revision) \in stores[q.store].has
Look(p) ==
  LET q == request[p]
  IN /\ At(p, "look") /\ UNCHANGED <<stores, generations, Past, World>>
     /\ IF Has(q)
        THEN /\ request' = [request EXCEPT ![p].exact = Peel(q.revision), ![p].step = "validate"]
             /\ UNCHANGED <<owner, blame>>
        ELSE IF q.offline THEN Fail(p) /\ UNCHANGED blame
        ELSE Go(p, "fetch")

\* fetch_git_revision in a store: the server may not give the commit out; a
\* budget may end the command, and what it left may be too much for the store.
Fetch(p) ==
  LET q == request[p]
  IN /\ At(p, "fetch") /\ UNCHANGED <<generations, seen, World>>
     /\ \/ /\ Wanted(q.revision) \in serves
           /\ stores' = [stores EXCEPT ![q.store].has = @ \cup {Wanted(q.revision)}]
           /\ request' = [request EXCEPT ![p].exact = Wanted(q.revision), ![p].step = "validate"]
           /\ UNCHANGED <<owner, blame, intact>>
        \/ Fail(p) /\ Blamed(p) /\ UNCHANGED <<stores, intact>>
        \/ /\ Fail(p) /\ blame' = Procs /\ stores' = [stores EXCEPT ![q.store].kind = "invalid"]
           /\ intact' = intact \ stores[q.store].has

Validate(p) ==
  /\ At(p, "validate") /\ UNCHANGED <<stores, generations, Past, World>>
  /\ IF stores[request[p].store].kind = "valid" THEN Go(p, "archive") ELSE Fail(p) /\ Blamed(p)

\* create_git_object_store: made in a hidden directory and renamed to the
\* primary name if that is free, to the name of a repair if it is not.
\* Mutant: a damaged primary store blocks its name and nothing else is tried.
MutDestinations == {1} \ Candidates
Destinations == IF 1 \notin Candidates THEN {1} ELSE Places \ Candidates

Create(p) ==
  LET wanted == Wanted(request[p].revision)
  IN /\ At(p, "create") /\ UNCHANGED <<generations, Past, World>>
     /\ \/ Fail(p) /\ Blamed(p) /\ UNCHANGED stores
        \/ /\ Destinations = {} /\ Fail(p) /\ UNCHANGED stores
           /\ blame' = blame \cup {x \in {p} : Candidates = Places}
        \/ \E d \in Destinations :
             /\ wanted \in serves
             /\ stores' = [stores EXCEPT ![d] = [kind |-> "valid", has |-> {wanted}]]
             /\ request' = [request EXCEPT ![p].store = d, ![p].step = "archive", ![p].exact = wanted]
             /\ UNCHANGED <<owner, blame>>

\* capture_git_commit_snapshot: git archive of that commit, unpacked and read;
\* publish_git_generation.
Archive(p) ==
  /\ At(p, "archive") /\ UNCHANGED <<stores, seen, World>>
  /\ \/ Fail(p) /\ Blamed(p) /\ UNCHANGED <<generations, intact>>
     \/ /\ stores[request[p].store].kind \in {"valid", "invalid"}
        /\ request[p].exact \in stores[request[p].store].has
        /\ generations' = generations \cup {request[p].exact}
        /\ intact' = intact \cup {c \in {request[p].exact} : p \notin blame}
        /\ Goto(p, "found") /\ owner' = Nothing /\ UNCHANGED blame

-----------------------------------------------------------------------------
(* The server, the cache, the system. *)
Local == <<stores, owner, request, generations, intact, blame, requests>>

Push(c) ==
  /\ harm < MaxHarm /\ harm' = harm + 1 /\ c # branch /\ branch' = c
  /\ serves' \in {serves \cup {c}, (serves \ {branch}) \cup {c}}
  /\ seen' = [p \in Procs |-> seen[p] \cup {c}] /\ UNCHANGED Local

\* A store is damaged or replaced by a link, or loses commits nothing refers
\* to (git gc); whoever is at work then may fail.
Damage(s) ==
  /\ harm < MaxHarm /\ harm' = harm + 1 /\ stores[s].kind # "absent"
  /\ \/ \E k \in {"invalid", "link"} : stores' = [stores EXCEPT ![s].kind = k]
     \/ \E c \in stores[s].has : stores' = [stores EXCEPT ![s].has = @ \ {c}]
  /\ intact' = intact \ stores[s].has /\ blame' = Procs
  /\ UNCHANGED <<branch, serves, owner, request, generations, seen, requests>>

Kill(p) ==
  /\ request[p].step \notin {"idle", "found", "failed"}
  /\ request' = [request EXCEPT ![p] = Idle]
  /\ owner' = IF owner = p THEN Nothing ELSE owner
  /\ UNCHANGED <<stores, branch, serves, generations, intact, seen, blame, harm, requests>>

Init ==
  /\ stores = [s \in Places |-> NoStore]
  /\ branch \in Commits /\ serves = {branch} \cup {Tagged[t] : t \in Tags}
  /\ owner = Nothing /\ request = [p \in Procs |-> Idle]
  /\ generations = {} /\ intact = {}
  /\ seen = [p \in Procs |-> {}] /\ blame = {} /\ harm = 0 /\ requests = 0

Next ==
  \/ \E c \in Commits : Push(c)
  \/ \E s \in Places : Damage(s)
  \/ \E p \in Procs : \/ Begin(p) \/ Lock(p) \/ Find(p) \/ Look(p) \/ Fetch(p) \/ Validate(p)
                      \/ Create(p) \/ Archive(p) \/ Kill(p)

Spec == Init /\ [][Next]_gitVars

-----------------------------------------------------------------------------
\* The commit an answer names is the one the revision names, or one the branch
\* stood at during the request; what was once named can be had again without
\* the network while no harm came to the stores, even after another store has
\* taken the place of a damaged one; and an online request fails for a reason
\* of its own, never because an earlier store was damaged (resolve_git).
GitAnswers ==
  /\ \A p \in Procs : At(p, "found") =>
       IF Exact(request[p].revision) THEN request[p].exact = Peel(request[p].revision)
                                     ELSE request[p].exact \in seen[p]
  /\ \A p \in Procs : At(p, "failed") /\ p \notin blame =>
       request[p].offline /\ Peel(request[p].revision) \notin request[p].owed
=============================================================================

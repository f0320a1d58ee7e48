------------------------------ MODULE Permissions ------------------------------
(***************************************************************************)
(* What a program may reach (crates/yanxu-package/src/permissions.rs), and *)
(* how an application is kept within both what it has asked for and what   *)
(* its host allows (src/application.rs, src/vm.rs).  A grant is a word     *)
(* that is compared as it is, or a net of addresses; addresses are         *)
(* numbers, nets are aligned blocks of them.  The capabilities that are a  *)
(* flag all go the way of switches; the three sets of hosts go the way of  *)
(* network and binds.                                                      *)
(***************************************************************************)
EXTENDS Integers, Sequences, FiniteSets, SequencesExt

CONSTANTS
  Width,       \* bits of an address
  Sensitive,   \* addresses that need a grant of their own
  Local,       \* those of them that belong to the local network
  Switches,    \* the capabilities that are one flag
  Dirs, Link,  \* the file system: real directories, links and where they lead
  Package,     \* where the application was built
  Place,       \* where it runs
  Hosts,       \* bound: the sets a host may give
  Requests,    \* bound: the sets an application may ask for
  Resources,   \* bound: <<authority, address, port>> that are reached for
  Paths        \* bound: paths that are reached for

VARIABLES
  given,       \* the set of the host
  asked,       \* the set of the manifest of the application
  step,        \* how far execute_application is
  permissions, \* the set the machine goes by
  shared       \* the copy its native threads go by

vars == <<given, asked, step, permissions, shared>>

Anything == [form |-> "any", host |-> 0, port |-> 0]
Addresses == 0 .. 2 ^ Width - 1

unrestricted ==
  [allow_all |-> TRUE, files |-> {}, network |-> {}, binds |-> {}, on |-> Switches]
sandboxed == [unrestricted EXCEPT !.allow_all = FALSE, !.on = {}]

normalize_host(a) == [a EXCEPT !.port = 0]

-----------------------------------------------------------------------------
\* Nets: the port of one is its prefix.
cidr_contains(n, ip) ==
  LET block == 2 ^ (Width - n.port) IN n.host \div block = ip \div block
cidr_contains_cidr(outer, inner) == outer.port <= inner.port /\ cidr_contains(outer, inner.host)

\* What two words have in common, as the set of none or one.
intersect_network_grant(h, r) ==
  IF h = r THEN {h}
  ELSE IF h.form = "net" /\ r.form = "net" THEN
    IF cidr_contains_cidr(h, r) THEN {r}
    ELSE IF cidr_contains_cidr(r, h) THEN {h} ELSE {}
  ELSE IF h.form = "net" THEN {x \in {r} : r.form = "ip" /\ cidr_contains(h, r.host)}
  ELSE IF r.form = "net" THEN {x \in {h} : h.form = "ip" /\ cidr_contains(r, h.host)}
  ELSE IF normalize_host(h) # normalize_host(r) THEN {}
  ELSE IF h.port # 0 THEN {x \in {h} : r.port \in {0, h.port}}
  ELSE {r}

intersect_network_grants(host, requested) ==
  IF Anything \in host THEN requested
  ELSE IF Anything \in requested THEN host
  ELSE UNION {intersect_network_grant(h, r) : h \in host, r \in requested}

\* Mutant: the broader of two nested directories.
MutNarrower(h, r) ==
  {x \in {h, r} : \A y \in {h, r} : IsPrefix(x, y)}
Narrower(h, r) ==
  {x \in {h, r} : \A y \in {h, r} : IsPrefix(y, x)}

intersect(self, requested) ==
  IF self.allow_all THEN requested
  ELSE IF requested.allow_all THEN self
  ELSE [allow_all |-> FALSE,
        files |-> UNION {Narrower(h, r) : h \in self.files, r \in requested.files},
        network |-> intersect_network_grants(self.network, requested.network),
        binds |-> intersect_network_grants(self.binds, requested.binds),
        on |-> self.on \cap requested.on]

-----------------------------------------------------------------------------
\* canonicalize: the directory a path leads to, every link followed.
Nowhere == <<"nowhere">>
Into(d, c) ==
  IF d = Nowhere THEN Nowhere
  ELSE IF c = ".." THEN IF d = <<>> THEN d ELSE Front(d)
  ELSE LET e == Append(d, c)
       IN IF e \in Dirs THEN e ELSE IF e \in DOMAIN Link THEN Link[e] ELSE Nowhere
Walk(p) == FoldLeft(Into, <<>>, p)

normalize_lexical(p) ==
  FoldLeft(LAMBDA d, c : IF c # ".." THEN Append(d, c) ELSE IF d = <<>> THEN d ELSE Front(d),
           <<>>, p)

\* The longest part that exists is made real, the rest hung on as it is.
normalize_existing_or_lexical(p) ==
  LET real == CHOOSE k \in 0 .. Len(p) :
                /\ Walk(SubSeq(p, 1, k)) # Nowhere
                /\ \A j \in k + 1 .. Len(p) : Walk(SubSeq(p, 1, j)) = Nowhere
      rest == SubSeq(p, real + 1, Len(p))
  IN IF ".." \in {rest[i] : i \in DOMAIN rest} THEN normalize_lexical(p)
     ELSE Walk(SubSeq(p, 1, real)) \o rest

allow_file(set, p) == [set EXCEPT !.files = @ \cup {normalize_existing_or_lexical(p)}]

check_file(set, p) ==
  set.allow_all \/ \E root \in set.files : IsPrefix(root, normalize_existing_or_lexical(p))

-----------------------------------------------------------------------------
network_grant_allows_authority(g, authority) ==
  \/ g \in {Anything, authority, normalize_host(authority)}
  \/ g.form = "net" /\ authority.form = "ip" /\ cidr_contains(g, authority.host)

check_network(set, authority) ==
  set.allow_all \/ \E g \in set.network : network_grant_allows_authority(g, authority)

network_grant_allows_resolved_address(g, ip, port) ==
  \/ g \in {[form |-> "ip", host |-> ip, port |-> 0], [form |-> "ip", host |-> ip, port |-> port]}
  \/ g.form = "net" /\ cidr_contains(g, ip)

check_resolved_network(set, authority, ip, port) ==
  /\ check_network(set, authority)
  /\ \/ set.allow_all
     \/ ip \notin Sensitive
     \/ \E g \in set.network : network_grant_allows_resolved_address(g, ip, port)
     \/ "local_network" \in set.on /\ ip \in Local

\* check_bind_permission and check_bind_ip.
check_bind(set, authority, ip) ==
  \/ set.allow_all
  \/ set.binds \cap {Anything, authority, normalize_host(authority)} # {}

\* check_process and the others of its kind.
check_boolean_capability(set, s) == set.allow_all \/ s \in set.on

-----------------------------------------------------------------------------
\* PermissionSummary::from_permissions in the archive, and to_permissions at
\* the place where the application runs.
from_permissions(set, root) ==
  [set EXCEPT !.files = {[below |-> IsPrefix(root, f),
                          path |-> IF IsPrefix(root, f) THEN SubSeq(f, Len(root) + 1, Len(f)) ELSE f]
                         : f \in set.files}]
to_permissions(summary, root) ==
  IF summary.allow_all THEN unrestricted
  ELSE FoldLeft(LAMBDA set, f : allow_file(set, IF f.below THEN root \o f.path ELSE f.path),
                [summary EXCEPT !.files = {}], SetToSeq(summary.files))

\* execute_application: the machine and the copy of its native threads one
\* after the other, before the first instruction and after the last, whatever
\* the result is.
Begin ==
  /\ step = "idle"
  /\ permissions' =
       intersect(permissions, to_permissions(from_permissions(asked, Package), Place))
  /\ step' = "narrowed" /\ UNCHANGED <<given, asked, shared>>
Tell ==
  /\ step \in {"narrowed", "ending"}
  /\ shared' = permissions
  /\ step' = IF step = "narrowed" THEN "running" ELSE "idle"
  /\ UNCHANGED <<given, asked, permissions>>
End ==
  /\ step = "running"
  /\ permissions' = given
  /\ step' = "ending" /\ UNCHANGED <<given, asked, shared>>

\* The host sets its machine up with the set it gives (set_permissions).
Init ==
  /\ given \in Hosts /\ asked \in Requests
  /\ permissions = given /\ shared = given /\ step = "idle"
Next == Begin \/ Tell \/ End

Spec == Init /\ [][Next]_vars

-----------------------------------------------------------------------------
Grants == [form : {"any", "name", "ip", "net"}, host : Addresses, port : 0 .. Width]
TypeOK ==
  /\ step \in {"idle", "narrowed", "running", "ending"}
  /\ \A set \in {permissions, shared} :
       /\ DOMAIN set = DOMAIN sandboxed
       /\ set.network \cup set.binds \subseteq Grants
       /\ set.on \subseteq Switches

\* What may be done with a set of permissions.
Reach(set) ==
  {<<"connect", r>> : r \in {r \in Resources : check_resolved_network(set, r[1], r[2], r[3])}}
  \cup {<<"bind", r>> : r \in {r \in Resources : check_bind(set, r[1], r[2])}}
  \cup {<<"switch", s>> : s \in {s \in Switches : check_boolean_capability(set, s)}}
Files(set) == {p \in Paths : check_file(set, p)}

Wanted == to_permissions(from_permissions(asked, Package), Place)
\* A set that allows every name allows no address that needs a grant of its
\* own, and a net is no use to a bind: a set refuses these although the words
\* of the other set meet it there.  Where both allow every name, the words of
\* the application are kept.
Met(set, other) ==
  {<<"connect", r>> : r \in {r \in Resources :
          /\ \E g \in other.network : network_grant_allows_resolved_address(g, r[2], r[3])
          /\ Anything \in set.network /\ r[2] \in Sensitive
          /\ Anything \in given.network => other = Wanted}}
  \cup {<<"bind", r>> : r \in {r \in Resources :
          /\ {r[1], normalize_host(r[1])} \cap other.binds # {} /\ Anything \notin other.binds
          /\ \E g \in set.binds : g.form = "net" /\ r[1].form = "ip" /\ cidr_contains(g, r[1].host)}}

\* While an application runs, the machine and its native threads may do no more
\* than both the host gives and the application has asked for, except exactly
\* what one of them names and the words of the other only meet; the files they
\* may touch are those of both.  permissions.rs:176 says that the intersection
\* is never wider than a side: it is wider by met, and by nothing else.
Confined ==
  step = "running" =>
    /\ shared = permissions
    /\ ~given.allow_all /\ ~Wanted.allow_all =>
         LET both == Reach(given) \cap Reach(Wanted)
             met == (Reach(given) \cap Met(Wanted, given)) \cup (Reach(Wanted) \cap Met(given, Wanted))
         IN Reach(permissions) \ both = met \ both
    /\ given.allow_all => permissions = Wanted
    /\ Wanted.allow_all => permissions = given
    /\ Files(permissions) = Files(given) \cap Files(Wanted)

\* When it is over, however it ended, both are what the host has given.
Restored == step = "idle" => permissions = given /\ shared = given

\* Where a path that is used leads: to what it names, or to a new name in the
\* directory it names.
Reached(p) ==
  IF Walk(p) # Nowhere THEN {Walk(p)}
  ELSE {Append(Walk(Front(p)), Last(p)) : x \in {y \in {1} : Walk(Front(p)) # Nowhere /\ Last(p) # ".."}}

\* A path that passes the check leads into one of the directories granted,
\* through whatever links and dots.
CheckedIsReached ==
  ~permissions.allow_all =>
    \A p \in Files(permissions) : \A q \in Reached(p) :
      \E root \in permissions.files : IsPrefix(root, q)

\* The three together.
ApplicationConfined == Confined /\ Restored /\ CheckedIsReached
==============================================================================

------------------------------ MODULE StaticTypes ------------------------------
(***************************************************************************)
(* What the type checker believes of a value and what the engines find     *)
(* when they test it (src/type_checker.rs, src/interpreter.rs, src/vm.rs): *)
(* one value on its way through a program that the checker accepts, out of *)
(* literals, through declarations, conditions, loops and indices.          *)
(***************************************************************************)
EXTENDS Integers, Sequences

CONSTANTS
  Values,    \* what an expression without names may give
  Types,     \* the types a program writes
  MaxSteps   \* bound: expressions and statements on the way

VARIABLES
  x,         \* the value
  belief,    \* the TypeSet the checker has for it: a set of static types
  honest,    \* no tuple was sliced and no object compared with the name "object"
  taken,     \* steps so far
  test       \* the last declaration: what the checker and the engines said

vars == <<x, belief, honest, taken, test>>

\* Values: items of lists and tuples, a map as its only key and value.
V(kind, items, class) == [v |-> kind, of |-> items, class |-> class]
\* Written types: [k, name, of].  Static types: [s, name, of], of a sequence of sets.
S(kind, name, of) == [s |-> kind, name |-> name, of |-> of]
Named(name) == {S("named", name, <<>>)}
Declared(name) == {S("declared", name, <<>>)}
AnyType == {S("any", "", <<>>)}

\* B is a class with the parent A, and A conforms to the protocol P.
Objects == {"A", "B", "P"}
class_is_a(class, expected) ==
  \/ class = expected
  \/ class = "B" /\ expected \in {"A", "P"}
  \/ class = "A" /\ expected = "P"

\* TypeSet::union.
Union(sets) ==
  LET all == UNION sets
  IN IF all = {} \/ AnyType \subseteq all THEN AnyType ELSE all

\* type_set_from_kind.
RECURSIVE TypeSetOf(_)
TypeSetOf(T) ==
  LET of == [i \in DOMAIN T.of |-> TypeSetOf(T.of[i])]
  IN CASE T.k = "named" -> IF T.name = "any" THEN AnyType
                           ELSE IF T.name \in Objects THEN Declared(T.name) ELSE Named(T.name)
       [] T.k = "union" -> Union({of[i] : i \in DOMAIN of})
       [] T.k = "nullable" -> Union({of[1], Named("nil")})
       [] T.k = "function" -> {S("function", "", of)}
       [] OTHER -> {S(T.name, "", of)}   \* list<>, map<>, tuple<>, task<>

\* accepts_one, accepts: a container without its arguments suits any.
Bare == {"list", "tuple", "map", "function", "task"}
RECURSIVE AcceptsOne(_, _)
MutAccepts(expected, actual) ==   \* one variant that suits is enough
  AnyType \subseteq expected \/ \E a \in actual : \E e \in expected : AcceptsOne(e, a)

Accepts(expected, actual) ==
  AnyType \subseteq expected \/ \A a \in actual : \E e \in expected : AcceptsOne(e, a)
AcceptsOne(e, a) ==
  \/ e.s = "any" \/ a.s = "any"
  \/ e.s = "named" /\ a.s \in Bare /\ e.name = a.s
  \/ a.s = "named" /\ e.s \in Bare /\ a.name = e.s
  \/ e.s \in {"named", "declared"} /\ a = e
  \/ e.s \in Bare /\ a.s = e.s /\ Len(e.of) = Len(a.of) /\ \A i \in DOMAIN e.of : Accepts(e.of[i], a.of[i])

\* named_assignable: subclasses, where every variant is a class.
NamedAssignable(expected, actual) ==
  \A a \in actual : a.s = "declared" /\ \E e \in expected : e.s = "declared" /\ class_is_a(a.name, e.name)
Require(expected, actual) == Accepts(expected, actual) \/ NamedAssignable(expected, actual)

-----------------------------------------------------------------------------
\* value_matches_type of the interpreter ("tree") and the machine ("vm").
Callable(engine) == {"function"} \cup IF engine = "vm" THEN {"class"} ELSE {}
MatchesName(engine, value, name) ==
  CASE name = "any" -> TRUE
    [] name = "function" -> value.v \in Callable(engine)
    [] name \in Objects -> value.v = "instance" /\ class_is_a(value.class, name)
    [] name = "object" -> value.v = "instance"
    [] OTHER -> value.v = name

RECURSIVE Matches(_, _, _)
Matches(engine, value, T) ==
  LET All(types) == Len(value.of) = Len(types) /\ \A i \in DOMAIN types : Matches(engine, value.of[i], types[i])
  IN CASE T.k = "union" -> \E i \in DOMAIN T.of : Matches(engine, value, T.of[i])
       [] T.k = "nullable" -> value.v = "nil" \/ Matches(engine, value, T.of[1])
       [] T.k = "function" -> value.v \in Callable(engine)
       [] T.k = "named" -> MatchesName(engine, value, T.name)
       [] T.name = "list" -> value.v = "list" /\ \A i \in DOMAIN value.of : Matches(engine, value.of[i], T.of[1])
       [] T.name = "map" -> value.v = "map" /\ (value.of = <<>> \/ All(T.of))
       [] T.name = "tuple" -> value.v = "tuple" /\ All(T.of)
       [] OTHER -> value.v = T.name
TreeMatches(value, T) == Matches("tree", value, T)
VmMatches(value, T) == Matches("vm", value, T)

\* What the checker believes of a literal, a name of a declaration or the
\* result of a class.
RECURSIVE LiteralType(_)
LiteralType(value) ==
  LET of == [i \in DOMAIN value.of |-> LiteralType(value.of[i])]
  IN CASE value.v = "list" -> {S("list", "", <<Union({of[i] : i \in DOMAIN of})>>)}
       [] value.v = "map" -> {S("map", "", IF of = <<>> THEN <<AnyType, AnyType>> ELSE of)}
       [] value.v = "tuple" -> {S("tuple", "", of)}
       [] value.v = "instance" -> Declared(value.class)
       [] value.v = "task" -> {S("task", "", <<AnyType>>)}
       [] OTHER -> Named(value.v)

\* A value is what the checker believes: of a function and a task only that
\* it is one; a name that is no type is the name of a class.
RECURSIVE Means(_, _)
Means(value, set) ==
  \E t \in set :
    CASE t.s = "any" -> TRUE
      [] t.s = "named" -> \/ MatchesName("tree", value, t.name)
                          \/ value.v = "instance" /\ value.class = t.name
      [] t.s = "declared" -> MatchesName("tree", value, t.name)
      [] t.s = "list" -> value.v = "list" /\ \A i \in DOMAIN value.of : Means(value.of[i], t.of[1])
      [] t.s \in {"map", "tuple"} ->
           /\ value.v = t.s
           /\ \/ t.s = "map" /\ value.of = <<>>
              \/ Len(value.of) = Len(t.of) /\ \A i \in DOMAIN t.of : Means(value.of[i], t.of[i])
      [] OTHER -> value.v = t.s

\* No part of the belief leaves anything open.
RECURSIVE Precise(_)
Precise(set) ==
  \A t \in set : /\ t.s # "any" /\ ~(t.s = "named" /\ t.name \in Bare \cup {"any"})
                 /\ \A i \in DOMAIN t.of : Precise(t.of[i])

-----------------------------------------------------------------------------
More == taken < MaxSteps /\ test.ran
Becomes(value, set) ==
  /\ x' = value /\ belief' = set /\ taken' = taken + 1
  /\ UNCHANGED <<honest, test>>

\* A variable, a parameter, a result or a field with a type: the checker
\* requires it, then the engine tests the value.
Declare(T) ==
  /\ More /\ Require(TypeSetOf(T), belief)
  /\ LET tree == TreeMatches(x, T)
         vm == VmMatches(x, T)
     IN test' = [ran |-> tree /\ vm, tree |-> tree, vm |-> vm, precise |-> Precise(belief) /\ honest]
  /\ belief' = TypeSetOf(T) /\ taken' = taken + 1
  /\ UNCHANGED <<x, honest>>

\* narrow_condition: a test of the type, in the branch it leads to.
Without(excluded) == IF belief \ excluded = {} THEN AnyType ELSE belief \ excluded
NarrowByTest(T) ==
  /\ More
  /\ Becomes(x, IF TreeMatches(x, T) THEN TypeSetOf(T) ELSE Without(TypeSetOf(T)))

\* narrow_value_condition: a comparison with nil, or of the name of the type
\* (type_name, the class of an object) with a text.
TypeName(value) == IF value.v = "instance" THEN value.class ELSE value.v
MutNarrowed(name, matches) == IF ~matches THEN Named(name) ELSE Without(Named(name))

Narrowed(name, matches) == IF matches THEN Named(name) ELSE Without(Named(name))
NarrowByNil == More /\ Becomes(x, Narrowed("nil", x.v = "nil"))
NarrowByName(name) ==
  /\ More
  /\ x' = x /\ belief' = Narrowed(name, TypeName(x) = name) /\ taken' = taken + 1
  /\ honest' = (honest /\ ~(name = "object" /\ x.v = "instance"))
  /\ UNCHANGED test

\* and, or with another value on the right.
Logic(isOr, right) ==
  /\ More
  /\ LET truthy == x.v # "nil"
     IN Becomes(IF truthy = isOr THEN x ELSE right, Union({belief, LiteralType(right)}))

\* A sum of numbers or of texts.
Contains(set, name) == \E t \in set : t.s = "any" \/ t.name = name \/ t.s = name
Add(right) ==
  /\ More
  /\ \E kind \in {"number", "text"} : Contains(belief, kind) /\ Contains(LiteralType(right), kind)
  /\ x.v \in {"number", "text"} /\ right.v = x.v
  /\ Becomes(x, belief)

\* get_index and the checker's view of it: a literal index picks the item of a
\* tuple, another index any.  A map has one key here.
IndexType(i, literal) ==
  LET One(t) ==
        CASE t.s = "list" -> {t.of[1]}
          [] t.s = "tuple" -> IF literal THEN {t.of[n] : n \in {i} \cap DOMAIN t.of}
                              ELSE {t.of[n] : n \in DOMAIN t.of}
          [] t.s = "map" -> {t.of[2]}
          [] t = S("named", "text", <<>>) -> {Named("text")}
          [] OTHER -> {AnyType}
  IN Union(UNION {One(t) : t \in belief})

Index(i, literal) ==
  /\ More
  /\ \/ x.v \in {"list", "tuple"} /\ i \in DOMAIN x.of /\ Becomes(x.of[i], IndexType(i, literal))
     \/ x.v = "map" /\ x.of # <<>> /\ i = 1 /\ Becomes(x.of[2], IndexType(i, literal))
     \/ x.v = "text" /\ i = 1 /\ Becomes(x, IndexType(i, literal))

\* get_slice; the checker leaves the type as it is.
Slice(from, to) ==
  /\ More /\ x.v \in {"list", "tuple"} /\ from \in 0 .. to /\ to \in 0 .. Len(x.of)
  /\ x' = [x EXCEPT !.of = SubSeq(@, from + 1, to)]
  /\ taken' = taken + 1
  /\ honest' = (honest /\ (x.v = "tuple" => from = 0 /\ to = Len(x.of)))
  /\ UNCHANGED <<belief, test>>

\* iterable_element: the variable of a loop.
NotIterated == {"number", "bool", "nil", "function", "class", "module", "error"}
ElementTypes(t) ==
  CASE t.s \in {"list", "map"} -> {t.of[1]}
    [] t.s = "tuple" -> {t.of[i] : i \in DOMAIN t.of}
    [] t = S("named", "text", <<>>) -> {Named("text")}
    [] t.s = "named" -> IF t.name \in NotIterated THEN {} ELSE {AnyType}
    [] t.s \in {"any", "declared"} -> {AnyType}
    [] OTHER -> {}
Elements == UNION {ElementTypes(t) : t \in belief}
Iterate ==
  /\ More /\ Elements # {}
  /\ \/ x.v \in {"list", "tuple"} /\ \E i \in DOMAIN x.of : Becomes(x.of[i], Union(Elements))
     \/ x.v = "map" /\ x.of # <<>> /\ Becomes(x.of[1], Union(Elements))
     \/ x.v = "text" /\ Becomes(x, Union(Elements))

\* A list, a tuple or a map made of it.
Collect(kind, other) ==
  /\ More /\ x.v \notin {"list", "tuple", "map"}
  /\ LET types == <<belief, LiteralType(other)>>
     IN CASE kind = "list" -> Becomes(V("list", <<x, other>>, ""), {S("list", "", <<Union({types[1], types[2]})>>)})
          [] kind = "tuple" -> Becomes(V("tuple", <<x, other>>, ""), {S("tuple", "", types)})
          [] OTHER -> /\ x.v \in {"number", "text", "bool", "nil"}
                      /\ Becomes(V("map", <<x, other>>, ""), {S("map", "", types)})

-----------------------------------------------------------------------------
NoTest == [ran |-> TRUE, tree |-> TRUE, vm |-> TRUE, precise |-> FALSE]
Init ==
  /\ x \in Values /\ belief = LiteralType(x) /\ honest = TRUE
  /\ taken = 0 /\ test = NoTest

Next ==
  \/ \E T \in Types : Declare(T) \/ NarrowByTest(T)
  \/ NarrowByNil
  \/ \E name \in {"number", "list", "B", "object"} : NarrowByName(name)
  \/ \E right \in Values :
       \/ \E isOr \in BOOLEAN : Logic(isOr, right)
       \/ Add(right)
       \/ \E kind \in {"list", "tuple", "map"} : Collect(kind, right)
  \/ \E i \in 1 .. 2, literal \in BOOLEAN : Index(i, literal)
  \/ \E from, to \in 0 .. 2 : Slice(from, to)
  \/ Iterate

Spec == Init /\ [][Next]_vars

-----------------------------------------------------------------------------
TypeOK ==
  /\ honest \in BOOLEAN /\ taken \in 0 .. MaxSteps
  /\ test \in [ran : BOOLEAN, tree : BOOLEAN, vm : BOOLEAN, precise : BOOLEAN]
  /\ belief # {}

\* What the checker believes of a value holds when the program runs, on every
\* way through declarations, branches, loops and indices, unless a tuple was
\* sliced (the checker keeps the types of all its items) or the type name of
\* an object, its class, compared with "object".
BeliefsHold == honest /\ test.ran => Means(x, belief)

\* A declaration the checker accepts for what it knows exactly is never
\* refused by an engine, and the engines give the same answer, unless a class
\* is passed for a function, which only the machine takes.
RECURSIVE HasClass(_)
HasClass(value) == value.v = "class" \/ \E i \in DOMAIN value.of : HasClass(value.of[i])
AcceptedRuns ==
  /\ test.precise => test.ran
  /\ ~HasClass(x) => test.tree = test.vm

TypesAreHonest == BeliefsHold /\ AcceptedRuns
=============================================================================

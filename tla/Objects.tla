-------------------------------- MODULE Objects --------------------------------
(***************************************************************************)
(* The members of classes: what the type checker makes of an access        *)
(* (src/type_checker.rs) and what the two engines do with it               *)
(* (src/interpreter.rs, src/vm.rs), for a member m of two classes, B the   *)
(* child of A, and of a protocol P.                                        *)
(*                                                                         *)
(* The object "a" is an A, the object "b" a B.  Any code may run: methods, *)
(* static methods, plain functions, functions written inside a method.     *)
(* Reading changes nothing, so what may be read is a matter of the state.  *)
(***************************************************************************)
EXTENDS Integers, Sequences

CONSTANTS
  Programs,   \* declarations: of m and the initializer in A and B, and of P
  MaxDepth    \* bound: nested calls

VARIABLES
  decl,       \* the declarations of the program
  stack,      \* what runs: [code, self, static, plain]
  heap,       \* m in the objects
  statics,    \* m in the static storage of the classes
  diverged    \* the engines took different ways

vars == <<decl, stack, heap, statics, diverged>>

Classes == {"A", "B"}
Instances == {"a", "b"}
ClassOf(o) == IF o = "a" THEN "A" ELSE "B"
Chain(c) == IF c = "B" THEN {"B", "A"} ELSE {"A"}   \* the class and those above
Above(c) == IF c = "B" THEN "A" ELSE "none"

\* A member: a field with the type of its value, or a method with a signature.
NoMember == [form |-> "none", static |-> FALSE, private |-> FALSE, readonly |-> FALSE,
             initial |-> FALSE, type |-> "n"]
IsField(m) == m.form = "field"
IsMethod(m) == m.form = "method"
NoCell == [now |-> "unset", first |-> "unset"]
Cell(value) == [now |-> value, first |-> value]

-----------------------------------------------------------------------------
\* The class, else its parent, if its own m is wanted.
Nearest(c, Wanted(_)) ==
  IF Wanted(decl.m[c]) THEN c
  ELSE IF c = "B" /\ Wanted(decl.m["A"]) THEN "A" ELSE "none"
field_spec(c) == Nearest(c, IsField)
method_spec(c) == Nearest(c, IsMethod)
static_storage(c) == Nearest(c, LAMBDA m : IsField(m) /\ m.static)
has_instance_fields(c) == Nearest(c, LAMBDA m : IsField(m) /\ ~m.static) # "none"
initial_fields(c) ==
  LET owner == Nearest(c, LAMBDA m : IsField(m) /\ ~m.static /\ m.initial)
  IN IF owner = "none" THEN NoCell ELSE Cell(decl.m[owner].type)
Initializer(c) ==
  LET set == {k \in Chain(c) : decl.init[k] # "none"}
  IN IF set = {} THEN "0" ELSE decl.init[IF c \in set THEN c ELSE "A"]

\* What the engines take the running code for: the tree interpreter for the
\* last method called, the machine for the innermost frame.
Idle == [code |-> "none", self |-> "none", static |-> FALSE, plain |-> TRUE]
Top == IF stack = <<>> THEN Idle ELSE stack[Len(stack)]
RECURSIVE LastMethod(_)
LastMethod(n) == IF n = 0 THEN Idle ELSE IF stack[n].plain THEN LastMethod(n - 1) ELSE stack[n]
AccessClass == LastMethod(Len(stack)).code
MutFrameOwner == Top.code   \* a closure keeps the class it was written in

FrameOwner == IF Top.plain THEN "none" ELSE Top.code

can_access(m, owner) == ~m.private \/ AccessClass = owner
check_access(m, owner) == ~m.private \/ FrameOwner = owner

\* Results of an access.
No == [ok |-> FALSE, is |-> "none", of |-> "none"]
Value(v) == [ok |-> TRUE, is |-> "value", of |-> v]
Method(owner) == [ok |-> TRUE, is |-> "method", of |-> owner]
Allowed(condition, result) == IF condition THEN result ELSE No

-----------------------------------------------------------------------------
\* get_property of the interpreter, of an instance and of a class.
TreeGet(o) ==
  LET c == ClassOf(o)
      field == field_spec(c)
      method == method_spec(c)
  IN CASE field # "none" /\ ~can_access(decl.m[field], field) -> No
       [] heap[o] # NoCell -> Value(heap[o].now)
       [] method # "none" -> Allowed(~decl.m[method].static /\ can_access(decl.m[method], method), Method(method))
       [] OTHER -> No

TreeGetStatic(c) ==
  LET field == field_spec(c)
      method == method_spec(c)
  IN CASE field # "none" /\ decl.m[field].static ->
            Allowed(can_access(decl.m[field], field) /\ statics[static_storage(c)] # NoCell,
                    Value(statics[static_storage(c)].now))
       [] method # "none" -> Allowed(decl.m[method].static /\ can_access(decl.m[method], method), Method(method))
       [] OTHER -> No

\* get_property of the machine.
VmGet(o) ==
  LET field == field_spec(ClassOf(o))
      method == method_spec(ClassOf(o))
  IN IF field # "none" /\ ~check_access(decl.m[field], field) THEN No
     ELSE IF heap[o] # NoCell THEN Value(heap[o].now)
     ELSE IF method = "none" \/ decl.m[method].static THEN No
     ELSE Allowed(check_access(decl.m[method], method), Method(method))

VmGetStatic(c) ==
  LET field == field_spec(c)
      method == method_spec(c)
  IN IF field # "none" /\ decl.m[field].static
     THEN Allowed(/\ check_access(decl.m[field], field)
                  /\ statics[static_storage(c)] # NoCell, Value(statics[static_storage(c)].now))
     ELSE IF method = "none" \/ ~decl.m[method].static THEN No
     ELSE Allowed(check_access(decl.m[method], method), Method(method))

\* "父".m: from the parent of the class whose method runs, in the chain of the
\* object.
SuperFrom(owner) ==
  LET c == Top.self
      from == IF c = "none" \/ owner \notin Chain(ClassOf(c)) THEN "none" ELSE Above(owner)
      method == IF from = "none" THEN "none" ELSE method_spec(from)
  IN IF method = "none" THEN No
     ELSE Allowed(~decl.m[method].static /\ (decl.m[method].private => method = owner), Method(method))
TreeSuper == SuperFrom(AccessClass)
get_super == SuperFrom(FrameOwner)

\* set_property: may the value be stored, and where.
TreeSets(o, value) ==
  LET field == field_spec(ClassOf(o))
      m == decl.m[field]
  IN IF field = "none" THEN ~has_instance_fields(ClassOf(o))
     ELSE /\ ~m.static /\ can_access(m, field)
          /\ ~(m.readonly /\ heap[o] # NoCell)
          /\ value = m.type
TreeSetsStatic(c, value) ==
  LET field == field_spec(c)
      m == decl.m[field]
  IN /\ field # "none" /\ m.static /\ can_access(m, field)
     /\ ~(m.readonly /\ statics[static_storage(c)] # NoCell)
     /\ value = m.type
MutVmSets(o, value) ==   \* the first value of a field without one is not told from others
  LET field == field_spec(ClassOf(o))
  IN IF field = "none" THEN ~has_instance_fields(ClassOf(o))
     ELSE ~decl.m[field].static /\ check_access(decl.m[field], field) /\ value = decl.m[field].type
VmSets(o, value) ==
  LET field == field_spec(ClassOf(o))
      m == decl.m[field]
  IN IF field = "none" THEN ~has_instance_fields(ClassOf(o))
     ELSE /\ ~m.static /\ check_access(m, field)
          /\ ~(m.readonly /\ heap[o] # NoCell)
          /\ value = m.type
VmSetsStatic(c, value) ==
  LET field == field_spec(c)
      m == decl.m[field]
  IN /\ field # "none" /\ m.static /\ check_access(m, field)
     /\ ~(m.readonly /\ statics[static_storage(c)] # NoCell)
     /\ value = m.type

-----------------------------------------------------------------------------
\* The checker.  member: the nearest class with m, else the protocol.
inherited_member(c) == Nearest(c, LAMBDA m : m.form # "none")
Claims(c) == decl.claims \in Chain(c)   \* class_conforms
class_is_a(c, T) == T = "any" \/ (T = "P" /\ Claims(c)) \/ T \in Chain(c)
Known(m, owner) == [known |-> m.form # "none", m |-> m, owner |-> owner]
member(T) ==
  IF T = "any" THEN Known(NoMember, "none")
  ELSE IF T = "P" THEN Known(decl.P, "P")
  ELSE LET owner == inherited_member(T)
       IN IF owner # "none" THEN Known(decl.m[owner], owner)
          ELSE Known(IF Claims(T) THEN decl.P ELSE NoMember, "P")

\* verify_overrides, of the member and of the initializer, which is a method.
MutOverrides ==
  LET own == decl.m["B"]
      inherited == decl.m["A"]
  IN own.form # "none" /\ inherited.form # "none" =>
       /\ IsMethod(own) /\ IsMethod(inherited)
       /\ own.static = inherited.static /\ own.type = inherited.type
verify_overrides ==
  LET own == decl.m["B"]
      inherited == decl.m["A"]
  IN /\ own.form # "none" /\ inherited.form # "none" =>
          /\ IsMethod(own) /\ IsMethod(inherited)
          /\ own.static = inherited.static /\ own.type = inherited.type
          /\ own.private => inherited.private
     /\ decl.init["A"] # "none" /\ decl.init["B"] # "none" => decl.init["A"] = decl.init["B"]

\* verify_protocols, for the class that claims P.
verify_protocols ==
  decl.claims # "none" /\ decl.P.form # "none" =>
    LET owner == inherited_member(decl.claims)
        m == decl.m[owner]
    IN /\ owner # "none" /\ m.form = decl.P.form /\ m.type = decl.P.type
       /\ ~m.static /\ ~m.private
Accepted == verify_overrides /\ verify_protocols

\* An access to an object of the static type T, or to the class T.  code is
\* the class the text of the running code is in.
CheckGet(T, wants_static) ==
  LET found == member(T)
  IN [ok |-> /\ found.known => found.m.static = wants_static
             /\ found.known /\ found.m.private => Top.code = found.owner,
      known |-> found.known, m |-> found.m, owner |-> found.owner]
CheckSet(T, wants_static, value) ==
  LET found == CheckGet(T, wants_static)
  IN /\ found.ok
     /\ found.known => /\ found.m.readonly \/ IsMethod(found.m) => Top.code = found.owner
                       /\ IsField(found.m) /\ found.m.type = value
CheckSuper ==
  /\ ~Top.static /\ Top.code # "none" /\ Above(Top.code) # "none"
  /\ LET found == member(Above(Top.code))
     IN /\ found.known /\ IsMethod(found.m) /\ ~found.m.static
        /\ found.m.private => found.owner = Top.code

\* predeclare: a class is called with the parameters of its own initializer.
CheckNew(c, given) == given = IF decl.init[c] = "none" THEN "0" ELSE decl.init[c]

-----------------------------------------------------------------------------
Runs == ~diverged

\* A call: of a method on an object, of a static method, of a plain function,
\* or of a function written in a method.
Frames ==
  {[code |-> c, self |-> o, static |-> FALSE, plain |-> p] :
     c \in Classes, o \in Instances, p \in BOOLEAN}
  \cup {[code |-> c, self |-> "none", static |-> TRUE, plain |-> p] : c \in Classes, p \in BOOLEAN}
  \cup {Idle}
Enter(frame) ==
  /\ Runs /\ Len(stack) < MaxDepth
  /\ frame.self # "none" => class_is_a(ClassOf(frame.self), frame.code)
  /\ stack' = Append(stack, frame)
  /\ UNCHANGED <<decl, heap, statics, diverged>>

Return ==
  /\ Runs /\ stack # <<>>
  /\ stack' = SubSeq(stack, 1, Len(stack) - 1)
  /\ UNCHANGED <<decl, heap, statics, diverged>>

Stored(cell, value, owner) ==
  [now |-> value,
   first |-> IF owner # "none" /\ decl.m[owner].readonly /\ cell # NoCell THEN cell.first ELSE value]
SetField(o, value) ==
  /\ Runs
  /\ TreeSets(o, value) \/ VmSets(o, value)
  /\ diverged' = (TreeSets(o, value) # VmSets(o, value))
  /\ heap' = [heap EXCEPT ![o] = IF diverged' THEN @ ELSE Stored(@, value, field_spec(ClassOf(o)))]
  /\ UNCHANGED <<decl, stack, statics>>
SetStatic(c, value) ==
  /\ Runs
  /\ TreeSetsStatic(c, value) \/ VmSetsStatic(c, value)
  /\ diverged' = (TreeSetsStatic(c, value) # VmSetsStatic(c, value))
  /\ statics' = IF diverged' THEN statics
                ELSE [statics EXCEPT ![static_storage(c)] = Stored(@, value, static_storage(c))]
  /\ UNCHANGED <<decl, stack, heap>>

\* A new object takes the place of an old one that nothing uses.
Constructs(c, given) == given = Initializer(c)
New(o, given) ==
  /\ Runs /\ stack = <<>> /\ Constructs(ClassOf(o), given)
  /\ heap' = [heap EXCEPT ![o] = initial_fields(ClassOf(o))]
  /\ UNCHANGED <<decl, stack, statics, diverged>>

\* The definition of a class stores the initial values of its static fields.
Defined(c) ==
  LET m == decl.m[c] IN IF IsField(m) /\ m.static /\ m.initial THEN Cell(m.type) ELSE NoCell
Init ==
  /\ decl \in Programs /\ stack = <<>> /\ diverged = FALSE
  /\ heap = [o \in Instances |-> initial_fields(ClassOf(o))]
  /\ statics = [c \in Classes |-> Defined(c)]

Next ==
  \/ \E frame \in Frames : Enter(frame)
  \/ Return
  \/ \E value \in {"n", "t"} :
       \/ \E o \in Instances : SetField(o, value)
       \/ \E c \in Classes : SetStatic(c, value)
  \/ \E o \in Instances, given \in {"0", "1"} : New(o, given)

Spec == Init /\ [][Next]_vars

-----------------------------------------------------------------------------
TypeOK ==
  /\ decl \in Programs /\ Len(stack) <= MaxDepth /\ diverged \in BOOLEAN
  /\ \A o \in Instances : heap[o] = NoCell \/ heap[o].now \in {"n", "t"}

\* The engines read, write and find the method of the parent alike, but for
\* code that is not itself a method and runs below one: the interpreter then
\* takes it for that method, the machine for no method at all.
Borrowed == Top.plain /\ AccessClass # "none"
EnginesAgreeOnMembers ==
  /\ diverged => Borrowed
  /\ ~Borrowed =>
       /\ \A o \in Instances : TreeGet(o) = VmGet(o)
       /\ \A c \in Classes : TreeGetStatic(c) = VmGetStatic(c)
       /\ TreeSuper = get_super

\* A field keeps its declared type, a read-only one the first value it had,
\* whoever writes, checked or not; m of an object without fields is free.
FieldsKeepTheirWord ==
  /\ \A o \in Instances :
       LET field == field_spec(ClassOf(o))
       IN field # "none" /\ heap[o] # NoCell =>
            /\ heap[o].now = decl.m[field].type
            /\ decl.m[field].readonly => heap[o].now = heap[o].first
  /\ \A c \in Classes :
       statics[c] # NoCell =>
         /\ IsField(decl.m[c]) /\ decl.m[c].static /\ statics[c].now = decl.m[c].type
         /\ decl.m[c].readonly => statics[c].now = statics[c].first

\* In a program that was checked, code that is a method, or that no method
\* has called and no class contains, reads what it may read: every engine
\* finds a value of the type the checker saw, unless the field has none yet,
\* the private method was overridden in a child, or a value was stored in
\* the place of a method.
Direct == Top.plain => Top.code = "none" /\ AccessClass = "none"
Fits(found, result, cell) ==
  \/ result.ok /\ result.is = "value" /\ IsField(found.m) /\ result.of = found.m.type
  \/ result.ok /\ result.is = "method" /\ IsMethod(found.m) /\ decl.m[result.of].type = found.m.type
  \/ IsField(found.m) /\ cell = NoCell
  \/ IsMethod(found.m) /\ cell # NoCell
  \/ IsMethod(found.m) /\ found.m.private /\ found.owner = "A" /\ IsMethod(decl.m["B"])
CheckedAccess ==
  Accepted /\ Direct =>
    /\ \A o \in Instances, T \in {"A", "B", "P"} :
         LET found == CheckGet(T, FALSE)
         IN class_is_a(ClassOf(o), T) /\ found.known /\ found.ok =>
              Fits(found, TreeGet(o), heap[o]) /\ Fits(found, VmGet(o), heap[o])
    /\ \A c \in Classes :
         LET found == CheckGet(c, TRUE)
             cell == IF static_storage(c) = "none" THEN NoCell ELSE statics[static_storage(c)]
         IN found.known /\ found.ok =>
              Fits(found, TreeGetStatic(c), cell) /\ Fits(found, VmGetStatic(c), cell)
    /\ \A o \in Instances, T \in {"A", "B"}, value \in {"n", "t"} :
         LET found == CheckGet(T, FALSE)
             stored == found.m.readonly /\ heap[o] # NoCell
         IN class_is_a(ClassOf(o), T) /\ found.known /\ CheckSet(T, FALSE, value) /\ ~stored =>
              TreeSets(o, value) /\ VmSets(o, value)

\* A checked "父" finds a method above the class of the running method,
\* whatever the class of the object.
CheckedSuper ==
  Accepted /\ Direct /\ CheckSuper =>
    \A result \in {TreeSuper, get_super} : result.ok /\ result.of = "A" /\ result.of # Top.code

\* A class whose initializer is its own, or that has none above it, is
\* constructed with what the checker asks for.
CheckedNew ==
  Accepted => \A c \in Classes, given \in {"0", "1"} :
    decl.init[c] # "none" \/ Initializer(c) = "0" => (CheckNew(c, given) <=> Constructs(c, given))

ObjectsAreSound ==
  /\ EnginesAgreeOnMembers /\ FieldsKeepTheirWord
  /\ CheckedAccess /\ CheckedSuper /\ CheckedNew
=============================================================================

------------------------------- MODULE TwoEngines -------------------------------
(***************************************************************************)
(* The virtual machine of src/vm.rs running the code that src/bytecode.rs  *)
(* makes of a program, compared at the end with the tree interpreter of    *)
(* src/interpreter.rs on the same program.  One action per instruction of  *)
(* Vm::step, or per pair of instructions that do the same; an error goes   *)
(* from one activation of run_chunk to the next in steps of its own.  The  *)
(* tree interpreter is a function from a program to its output and         *)
(* outcome.                                                                *)
(*                                                                         *)
(* Both keep values, scopes and a heap alike.  Numbers and nil stand for   *)
(* the plain values; lists, objects and tasks are cells of the heap; a     *)
(* scope maps names to values and knows the scope around it (0 above the   *)
(* outermost).  A tree is a record whose field "is" names its kind.  A     *)
(* class has one field, "v", private or not, and methods; a method "init"  *)
(* is the initialiser.                                                     *)
(*                                                                         *)
(* The language reference demands that both engines print the same, fail   *)
(* with the same errors and leave tasks in the same states                 *)
(* (spec/language/v1/execution-and-compatibility.md:3).                    *)
(***************************************************************************)
EXTENDS Integers, Sequences, TLC

CONSTANT MaxCallDepth   \* ExecutionBudget.max_call_depth

Nil == [t |-> "nil"]
Num(n) == [t |-> "num", n |-> n]
Append2 == [t |-> "native"]              \* the built-in that appends to a list
Fault == [t |-> "error", says |-> [t |-> "fault"]]   \* an error of the engine itself
NoOwner == "none"

\* Only nil and false are not true.
Truthy(value) == value # Nil

\* What print shows.  The wording of an engine's own errors is left out.
Show(value) ==
  CASE value.t \in {"nil", "num"} -> value
    [] value.t = "error" -> value.says
    [] OTHER -> [t |-> value.t]

\* A thrown error is thrown again as it is; any other value is its message.
Thrown(value) == IF value.t = "error" THEN value ELSE [t |-> "error", says |-> Show(value)]

-----------------------------------------------------------------------------
NoScope == [vars |-> <<>>, up |-> 0]
Globals == [vars |-> "append" :> [value |-> Append2, mutable |-> FALSE], up |-> 0]
EmptyHeap ==
  [scopes |-> <<Globals>>, lists |-> <<>>, objects |-> <<>>, tasks |-> <<>>,
   output |-> <<>>, depth |-> 0]

\* child_env: the new scope is the last one.
Child(heap, env) == [heap EXCEPT !.scopes = Append(@, [NoScope EXCEPT !.up = env])]
Newest(heap) == Len(heap.scopes)

\* The nearest scope, from env outwards, that declares the name.
RECURSIVE Home(_, _, _)
Home(heap, env, name) ==
  IF env = 0 \/ name \in DOMAIN heap.scopes[env].vars THEN env
  ELSE Home(heap, heap.scopes[env].up, name)

Binding(heap, env, name) == heap.scopes[Home(heap, env, name)].vars[name]

Bind(heap, env, name, value, mutable) ==
  [heap EXCEPT !.scopes[env].vars =
     (name :> [value |-> value, mutable |-> mutable]) @@ @]

RECURSIVE BindAll(_, _, _, _)
BindAll(heap, env, names, values) ==
  IF names = <<>> THEN heap
  ELSE BindAll(Bind(heap, env, Head(names), Head(values), TRUE),
               env, Tail(names), Tail(values))

\* assign_variable succeeds and what it then does.
Assignable(heap, env, name) ==
  Home(heap, env, name) # 0 /\ Binding(heap, env, name).mutable
Assign(heap, env, name, value) ==
  Bind(heap, Home(heap, env, name), name, value, TRUE)

-----------------------------------------------------------------------------
Function(tree, env, owner) ==
  [t |-> "fun", tree |-> tree, env |-> env, owner |-> owner, this |-> 0]
NewList(heap, items) == [heap EXCEPT !.lists = Append(@, items)]
NewTask(heap, function, arguments) ==
  [heap EXCEPT !.tasks = Append(@, [state |-> "pending", function |-> function,
                                    arguments |-> arguments, result |-> Nil])]
SetTask(heap, task, state, result) ==
  [heap EXCEPT !.tasks[task].state = state, !.tasks[task].result = result]
NewObject(heap, class) ==
  [heap EXCEPT !.objects = Append(@, [class |-> class, v |-> class.initial])]

IsIndex(heap, object, index) ==
  /\ object.t = "list" /\ index.t = "num"
  /\ index.n \in 0 .. Len(heap.lists[object.at]) - 1

\* The method of a class, none or one.
MethodsOf(class, name) ==
  {n \in 1 .. Len(class.tree.methods) : class.tree.methods[n].name = name}
Method(class, name) ==
  [Function(class.tree.methods[CHOOSE n \in MethodsOf(class, name) : TRUE],
            class.env, class.tree.name) EXCEPT !.t = "fun"]
Bound(function, object) == [function EXCEPT !.this = object.at]

\* The member can be read, by code that has the rights of a class or none.
Accessible(heap, object, name, rights) ==
  /\ object.t = "object"
  /\ LET class == heap.objects[object.at].class
     IN  IF name = "v" THEN class.tree.private => rights = class.tree.name
         ELSE MethodsOf(class, name) # {}
Member(heap, object, name) ==
  LET cell == heap.objects[object.at]
  IN  IF name = "v" THEN cell.v ELSE Bound(Method(cell.class, name), object)

\* The scope of a call of the function: this, and the parameters.
CallScope(heap, function, arguments) ==
  LET inner == Child(heap, function.env)
      named == IF function.this = 0 THEN inner
               ELSE Bind(inner, Newest(inner), "this",
                         [t |-> "object", at |-> function.this], FALSE)
  IN  BindAll(named, Newest(inner), function.tree.params, arguments)

-----------------------------------------------------------------------------
\* The programs the two engines are compared on: every combination of a few
\* statements in protected regions, loops and branches, of classes with a
\* private field and their users, and of tasks.
Val(v) == [is |-> "value", value |-> v]
N(n) == [is |-> "name", name |-> n]
Let(n, e) == [is |-> "let", name |-> n, value |-> e]
Set1(n, e) == [is |-> "set", name |-> n, value |-> e]
Pr(e) == [is |-> "print", value |-> e]
Do(e) == [is |-> "do", value |-> e]
Thr(e) == [is |-> "throw", value |-> e]
Ret(e) == [is |-> "return", value |-> e]
CallE(f, args) == [is |-> "call", callee |-> f, arguments |-> args]
Get(o, n) == [is |-> "get", object |-> o, name |-> n]
Fun(n, ps, body, async) == [is |-> "fun", name |-> n, params |-> ps, body |-> body, async |-> async]
If(c, a, b) == [is |-> "if", condition |-> c, then |-> a, else |-> b]
While(c, b) == [is |-> "while", condition |-> c, body |-> b]
For(n, e, b) == [is |-> "for", name |-> n, iterable |-> e, body |-> b]
TryE(b, n, c) == [is |-> "try", body |-> b, name |-> n, catch |-> c]
Class(n, private, init, ms) == [is |-> "class", name |-> n, private |-> private, initial |-> init, methods |-> ms]
ListE(es) == [is |-> "list", items |-> es]
AddE(a, b) == [is |-> "add", left |-> a, right |-> b]

\* statements without a block
Simple ==
  {Pr(N("x")), Set1("x", AddE(N("x"), Val(Num(1)))), Let("x", Val(Num(7))), Thr(N("x")),
   Do(CallE(N("f"), <<N("x")>>)), If(N("x"), <<Do(CallE(N("append"), <<N("l"), N("x")>>)), Set1("x", Val(Nil))>>, <<>>)}
Bodies == {<<a>> : a \in Simple} \cup {<<a, b>> : a, b \in Simple}
Legal == {b \in Bodies : Len(b) = 1 \/ b[1] # b[2] \/ b[1].is # "let"}
Short == {<<a>> : a \in Simple} \cup {<<>>}
Nested(B, C) ==
  {TryE(b, "e", c) : b \in B, c \in C}
  \cup {For("i", N("l"), b) : b \in B}
  \cup {If(N("x"), b, c) : b \in {<<Pr(N("x"))>>}, c \in C}
Catches == {<<Pr(N("x"))>>, <<Pr(N("e")), Thr(N("e"))>>}
FunBodies ==
  {<<Set1("x", N("p")), Ret(Val(Num(3)))>>, <<Thr(N("p"))>>,
   <<Do(CallE(N("f"), <<N("p")>>))>>,
   <<For("i", N("l"), <<TryE(<<Ret(N("i"))>>, "e", <<>>)>>)>>}
Inner == Nested(Short, Catches)
Prelude(fb) == <<Let("x", Val(Num(1))), Let("l", ListE(<<Val(Num(0)), Val(Nil)>>)), Fun("f", <<"p">>, fb, FALSE)>>
PlainPrograms == {Append(Append(Prelude(fb), s), Pr(N("x"))) : fb \in FunBodies, s \in Nested(Legal, Catches)}
NestedPrograms == {Append(Append(Prelude(fb), s), Pr(N("x"))) : fb \in FunBodies, s \in Nested({<<i>> : i \in Inner}, Catches)}
\* classes and tasks
Uses == {Do(Get(N("o"), "v")), [is |-> "setv", object |-> N("o"), value |-> Val(Num(5))],
         Do(CallE(Get(N("o"), "m"), <<N("o")>>)), Do(CallE(N("g"), <<N("o")>>)),
         Pr(CallE(Get(N("o"), "m"), <<N("o")>>)), Do(Get(N("o"), "w"))}
MBodies == {<<Ret(Get(N("p"), "v"))>>, <<Ret(CallE(N("g"), <<N("this")>>))>>, <<[is |-> "setv", object |-> N("this"), value |-> Val(Num(4))]>>}
GBodies == {<<Ret(Get(N("p"), "v"))>>, <<Ret(Val(Num(2)))>>, <<Do(CallE(Get(N("p"), "m"), <<N("p")>>))>>}
ClassPrograms == {<<Fun("g", <<"p">>, gb, FALSE),
         Class("C", private, Val(Num(1)), ms \o init),
         Let("o", CallE(N("C"), IF init = <<>> THEN <<>> ELSE <<Val(Num(9))>>)),
         TryE(<<u>>, "e", <<Pr(N("e"))>>), Pr(CallE(Get(N("o"), "m"), <<N("o")>>))>>
       : gb \in GBodies, private \in BOOLEAN,
         ms \in {<<Fun("m", <<"p">>, mb, FALSE)>> : mb \in MBodies},
         init \in {<<>>, <<Fun("init", <<"q">>, <<[is |-> "setv", object |-> N("this"), value |-> N("q")]>>, FALSE)>>},
         u \in Uses}
TBodies == {<<Ret(N("p"))>>, <<Thr(N("p"))>>, <<Set1("y", [is |-> "await", task |-> N("t")])>>, <<Do([is |-> "await", task |-> CallE(N("f"), <<N("p")>>)])>>}
AwaitT == [is |-> "await", task |-> N("t")]
TaskPrograms == {<<Let("y", Val(Nil)), Let("t", Val(Nil)), Fun("f", <<"p">>, tb, TRUE), Set1("t", CallE(N("f"), args)),
         TryE(<<Pr(AwaitT)>>, "e", <<Pr(N("e"))>>), w, Pr([is |-> c, left |-> N("y"), right |-> AwaitT])>>
       : tb \in TBodies, args \in {<<Val(Num(1))>>, <<>>}, c \in {"and", "or"},
         w \in {While(N("y"), <<Set1("y", Val(Nil)), Pr(N("y"))>>), Set1("y", Val(Num(1))), Pr([is |-> "index", object |-> ListE(<<N("y")>>), index |-> Val(Num(0))]), Pr([is |-> "index", object |-> ListE(<<N("y")>>), index |-> Val(Num(1))]), Do(CallE(N("y"), <<>>))}}
Programs == PlainPrograms \cup NestedPrograms \cup ClassPrograms \cup TaskPrograms

-----------------------------------------------------------------------------
(***************************************************************************)
(* The tree interpreter.  A result is [heap, how, value]: "value" is Ok    *)
(* (Control::Continue for a statement), "return" is Control::Return,       *)
(* "error" is Err.  The heap also carries access_classes.                  *)
(***************************************************************************)
Ok(heap, value) == [heap |-> heap, how |-> "value", value |-> value]
Err(heap, error) == [heap |-> heap, how |-> "error", value |-> error]

\* The ? operator: go on with the value, or give the error up.
Then(result, Continue(_, _)) ==
  IF result.how = "value" THEN Continue(result.heap, result.value) ELSE result

Rights(heap) ==
  IF heap.access = <<>> THEN NoOwner ELSE heap.access[Len(heap.access)]

Sum(heap, left, right) ==
  IF left.t = "num" /\ right.t = "num" THEN Ok(heap, Num(left.n + right.n))
  ELSE Err(heap, Fault)

\* The built-in that appends: the list is changed in place.
CallNative(arguments, heap) ==
  IF Len(arguments) # 2 \/ arguments[1].t # "list" THEN Err(heap, Fault)
  ELSE Ok([heap EXCEPT !.lists[arguments[1].at] = Append(@, arguments[2])], arguments[1])

RECURSIVE Evaluate(_, _, _), EvaluateAll(_, _, _), Execute(_, _, _),
          ExecuteAll(_, _, _, _), Repeat(_, _, _), IterateFrom(_, _, _, _, _),
          CallFunction(_, _, _), Call(_, _, _), AwaitTask(_, _)

EvaluateAll(trees, env, heap) ==
  IF trees = <<>> THEN Ok(heap, <<>>)
  ELSE Then(Evaluate(Head(trees), env, heap), LAMBDA h, first :
         Then(EvaluateAll(Tail(trees), env, h), LAMBDA k, rest :
           Ok(k, <<first>> \o rest)))

Evaluate(tree, env, heap) ==
  CASE tree.is = "value" -> Ok(heap, tree.value)
    [] tree.is = "name" ->
         IF Home(heap, env, tree.name) = 0 THEN Err(heap, Fault)
         ELSE Ok(heap, Binding(heap, env, tree.name).value)
    [] tree.is = "list" ->
         Then(EvaluateAll(tree.items, env, heap), LAMBDA h, items :
           Ok(NewList(h, items), [t |-> "list", at |-> Len(h.lists) + 1]))
    [] tree.is = "add" ->
         Then(EvaluateAll(<<tree.left, tree.right>>, env, heap), LAMBDA h, both :
           Sum(h, both[1], both[2]))
    [] tree.is \in {"and", "or"} ->
         Then(Evaluate(tree.left, env, heap), LAMBDA h, left :
           IF Truthy(left) = (tree.is = "or") THEN Ok(h, left)
           ELSE Evaluate(tree.right, env, h))
    [] tree.is = "index" ->
         Then(EvaluateAll(<<tree.object, tree.index>>, env, heap), LAMBDA h, both :
           IF IsIndex(h, both[1], both[2])
           THEN Ok(h, h.lists[both[1].at][both[2].n + 1]) ELSE Err(h, Fault))
    [] tree.is = "get" ->
         Then(Evaluate(tree.object, env, heap), LAMBDA h, object :
           IF Accessible(h, object, tree.name, Rights(h))
           THEN Ok(h, Member(h, object, tree.name)) ELSE Err(h, Fault))
    [] tree.is = "call" ->
         Then(Evaluate(tree.callee, env, heap), LAMBDA h, callee :
           Then(EvaluateAll(tree.arguments, env, h), LAMBDA k, arguments :
             Call(callee, arguments, k)))
    [] tree.is = "await" ->
         Then(Evaluate(tree.task, env, heap), LAMBDA h, task :
           IF task.t = "task" THEN AwaitTask(task.at, h) ELSE Err(h, Fault))

\* call: a function, an asynchronous function, the built-in, a class.
Call(callee, arguments, heap) ==
  CASE callee.t = "fun" /\ callee.tree.async ->
         IF Len(arguments) # Len(callee.tree.params) THEN Err(heap, Fault)
         ELSE Ok(NewTask(heap, callee, arguments),
                 [t |-> "task", at |-> Len(heap.tasks) + 1])
    [] callee.t = "fun" /\ ~callee.tree.async -> CallFunction(callee, arguments, heap)
    [] callee.t = "native" -> CallNative(arguments, heap)
    [] callee.t = "class" ->
         LET object == [t |-> "object", at |-> Len(heap.objects) + 1]
             made == NewObject(heap, callee)
         IN  IF MethodsOf(callee, "init") # {}
             THEN Then(CallFunction(Bound(Method(callee, "init"), object), arguments, made),
                       LAMBDA h, value : Ok(h, object))
             ELSE IF arguments # <<>> THEN Err(heap, Fault) ELSE Ok(made, object)
    [] OTHER -> Err(heap, Fault)

CallFunction(function, arguments, heap) ==
  IF heap.depth >= MaxCallDepth \/ Len(arguments) # Len(function.tree.params)
  THEN Err(heap, Fault)
  ELSE LET scoped == CallScope(heap, function, arguments)
           access == IF function.owner = NoOwner THEN heap.access
                     ELSE Append(heap.access, function.owner)
           entered == [scoped EXCEPT !.depth = @ + 1, !.access = access]
           ran == ExecuteAll(function.tree.body, Newest(entered), entered, Nil)
           left == [ran.heap EXCEPT !.depth = heap.depth, !.access = heap.access]
       IN  CASE ran.how = "return" -> Ok(left, ran.value)
             [] ran.how = "value" -> Ok(left, Nil)
             [] ran.how = "error" -> Err(left, ran.value)

AwaitTask(task, heap) ==
  LET cell == heap.tasks[task]
      ran == CallFunction(cell.function, cell.arguments,
                          SetTask(heap, task, "running", Nil))
  IN  CASE cell.state = "pending" ->
             [ran EXCEPT !.heap = SetTask(@, task,
                IF ran.how = "value" THEN "completed" ELSE "failed", ran.value)]
        [] cell.state = "completed" -> Ok(heap, cell.result)
        [] cell.state = "failed" -> Err(heap, cell.result)
        [] cell.state = "running" -> Err(heap, Fault)

-----------------------------------------------------------------------------
\* execute_statements
ExecuteAll(trees, env, heap, last) ==
  IF trees = <<>> THEN Ok(heap, last)
  ELSE Then(Execute(Head(trees), env, heap), LAMBDA h, value :
         ExecuteAll(Tail(trees), env, h, value))

Scoped(trees, env, heap) ==
  LET inner == Child(heap, env) IN ExecuteAll(trees, Newest(inner), inner, Nil)

Repeat(tree, env, heap) ==
  Then(Evaluate(tree.condition, env, heap), LAMBDA h, condition :
    IF ~Truthy(condition) THEN Ok(h, Nil)
    ELSE Then(Scoped(tree.body, env, h), LAMBDA k, value : Repeat(tree, env, k)))

\* next_iterator reads the list as it is now.
IterateFrom(n, list, tree, env, heap) ==
  IF n > Len(heap.lists[list]) THEN Ok(heap, Nil)
  ELSE LET inner == Child(heap, env)
           bound == Bind(inner, Newest(inner), tree.name, heap.lists[list][n], FALSE)
       IN  Then(ExecuteAll(tree.body, Newest(inner), bound, Nil), LAMBDA h, value :
             IterateFrom(n + 1, list, tree, env, h))

Declare(tree, env, heap) ==
  LET function == Function(tree, env, NoOwner)
  IN  Ok(Bind(heap, env, tree.name, function, FALSE), function)

DeclareClass(tree, env, heap) ==
  Then(Evaluate(tree.initial, env, heap), LAMBDA h, initial :
    LET class == [t |-> "class", tree |-> tree, env |-> env, initial |-> initial]
    IN  Ok(Bind(h, env, tree.name, class, FALSE), class))

\* The catch branch has a scope of its own, around it the scope of the statement.
Try(tree, env, heap) ==
  LET tried == Scoped(tree.body, env, heap)
      inner == Child(tried.heap, env)
  IN  IF tried.how # "error" THEN tried
      ELSE ExecuteAll(tree.catch, Newest(inner),
                      Bind(inner, Newest(inner), tree.name, tried.value, FALSE), Nil)

Execute(tree, env, heap) ==
  CASE tree.is = "let" ->
         Then(Evaluate(tree.value, env, heap), LAMBDA h, value :
           Ok(Bind(h, env, tree.name, value, TRUE), value))
    [] tree.is = "set" ->
         Then(Evaluate(tree.value, env, heap), LAMBDA h, value :
           IF Assignable(h, env, tree.name)
           THEN Ok(Assign(h, env, tree.name, value), value) ELSE Err(h, Fault))
    [] tree.is = "setv" ->
         Then(EvaluateAll(<<tree.object, tree.value>>, env, heap), LAMBDA h, both :
           IF Accessible(h, both[1], "v", Rights(h))
           THEN Ok([h EXCEPT !.objects[both[1].at].v = both[2]], both[2])
           ELSE Err(h, Fault))
    [] tree.is = "print" ->
         Then(Evaluate(tree.value, env, heap), LAMBDA h, value :
           Ok([h EXCEPT !.output = Append(@, Show(value))], value))
    [] tree.is = "do" -> Evaluate(tree.value, env, heap)
    [] tree.is = "if" ->
         Then(Evaluate(tree.condition, env, heap), LAMBDA h, condition :
           Scoped(IF Truthy(condition) THEN tree.then ELSE tree.else, env, h))
    [] tree.is = "while" -> Repeat(tree, env, heap)
    [] tree.is = "for" ->
         Then(Evaluate(tree.iterable, env, heap), LAMBDA h, list :
           IF list.t = "list" THEN IterateFrom(1, list.at, tree, env, h)
           ELSE Err(h, Fault))
    [] tree.is = "fun" -> Declare(tree, env, heap)
    [] tree.is = "class" -> DeclareClass(tree, env, heap)
    [] tree.is = "try" -> Try(tree, env, heap)
    [] tree.is = "throw" ->
         Then(Evaluate(tree.value, env, heap), LAMBDA h, value : Err(h, Thrown(value)))
    [] tree.is = "return" ->
         Then(Evaluate(tree.value, env, heap), LAMBDA h, value :
           [heap |-> h, how |-> "return", value |-> value])

\* Interpreter::execute: what the program prints, how it ends, its tasks.
Interpret(program) ==
  LET start == "access" :> <<>> @@ EmptyHeap
      ran == ExecuteAll(program, 1, start, Nil)
  IN  [output |-> ran.heap.output,
       error |-> IF ran.how = "error" THEN ran.value.says ELSE Nil,
       tasks |-> [n \in DOMAIN ran.heap.tasks |-> ran.heap.tasks[n].state]]

-----------------------------------------------------------------------------
VARIABLES
  program,
  heap,      \* scopes, lists, objects, tasks, Vm.output, and the call depth
  stack,     \* Vm.stack
  frames,    \* the activations of run_chunk with their FrameInfo
  raised,    \* the error on its way to the innermost activation, or Nil
  ended      \* the program has ended; then "error" is what it failed with

vars == <<program, heap, stack, frames, raised, ended>>

-----------------------------------------------------------------------------
(***************************************************************************)
(* The compiler of src/bytecode.rs: a tree becomes a sequence of           *)
(* instructions.  Every operator takes the address its code begins at, so  *)
(* the jumps that emit_jump and patch fill in later are known at once.     *)
(***************************************************************************)
Op(op) == [op |-> op]
Named(op, name) == [op |-> op, name |-> name]
Counted(op, count) == [op |-> op, count |-> count]
To(op, target) == [op |-> op, target |-> target]

RECURSIVE Expression(_, _), Expressions(_, _), Statement(_, _), Statements(_, _)

Expressions(trees, at) ==
  IF trees = <<>> THEN <<>>
  ELSE LET first == Expression(Head(trees), at)
       IN  first \o Expressions(Tail(trees), at + Len(first))

Expression(tree, at) ==
  CASE tree.is = "value" -> <<[op |-> "Constant", value |-> tree.value]>>
    [] tree.is = "name" -> <<Named("Load", tree.name)>>
    [] tree.is = "list" ->
         Append(Expressions(tree.items, at), Counted("BuildList", Len(tree.items)))
    [] tree.is = "add" -> Append(Expressions(<<tree.left, tree.right>>, at), Op("Add"))
    [] tree.is \in {"and", "or"} ->
         LET left == Expression(tree.left, at)
             right == Expression(tree.right, at + Len(left) + 2)
             after == at + Len(left) + 2 + Len(right)
         IN  left \o <<To(IF tree.is = "or" THEN "JumpIfTrue" ELSE "JumpIfFalse", after),
                       Op("Pop")>> \o right
    [] tree.is = "index" ->
         Append(Expressions(<<tree.object, tree.index>>, at), Op("Index"))
    [] tree.is = "get" ->
         Append(Expression(tree.object, at), Named("GetProperty", tree.name))
    [] tree.is = "call" ->
         Append(Expressions(<<tree.callee>> \o tree.arguments, at),
                Counted("Call", Len(tree.arguments)))
    [] tree.is = "await" -> Append(Expression(tree.task, at), Op("Await"))

Statements(trees, at) ==
  IF trees = <<>> THEN <<>>
  ELSE LET first == Statement(Head(trees), at)
       IN  first \o Statements(Tail(trees), at + Len(first))

\* scoped_block
Block(trees, at) ==
  <<Op("EnterScope")>> \o Statements(trees, at + 1) \o <<Op("ExitScope")>>

Branches(tree, at) ==
  LET condition == Expression(tree.condition, at)
      start == at + Len(condition)
      then == Block(tree.then, start + 2)
      otherwise == start + 2 + Len(then) + 1
      else == Block(tree.else, otherwise + 1)
  IN  condition \o <<To("JumpIfFalse", otherwise), Op("Pop")>> \o then
        \o <<To("Jump", otherwise + 1 + Len(else)), Op("Pop")>> \o else

WhileLoop(tree, at) ==
  LET condition == Expression(tree.condition, at)
      start == at + Len(condition)
      body == Block(tree.body, start + 2)
  IN  condition \o <<To("JumpIfFalse", start + 2 + Len(body) + 1), Op("Pop")>> \o body
        \o <<To("Jump", at), Op("Pop")>>

ForLoop(tree, at) ==
  LET iterable == Expression(tree.iterable, at)
      start == at + Len(iterable) + 1
      body == Statements(tree.body, start + 3)
  IN  iterable
        \o <<Op("GetIterator"), To("IteratorNext", start + 3 + Len(body) + 2),
             Op("EnterScope"), [op |-> "Define", name |-> tree.name, mutable |-> FALSE]>>
        \o body \o <<Op("ExitScope"), To("Jump", start)>>

\* Mutant: the catch branch leaves no scope.
MutProtected(tree, at) ==
  LET body == Statements(tree.body, at + 2)
      handler == at + 2 + Len(body) + 3
      catch == Statements(tree.catch, handler + 1)
  IN  <<Op("EnterScope"), To("TryBegin", handler)>> \o body
        \o <<Op("TryEnd"), Op("ExitScope"), To("Jump", handler + 1 + Len(catch)),
             Named("BindError", tree.name)>> \o catch

\* Try: the catch branch is compiled inside the scope of the try branch, and
\* leaves it.
Protected(tree, at) ==
  LET body == Statements(tree.body, at + 2)
      handler == at + 2 + Len(body) + 3
      catch == Statements(tree.catch, handler + 1)
  IN  <<Op("EnterScope"), To("TryBegin", handler)>> \o body
        \o <<Op("TryEnd"), Op("ExitScope"), To("Jump", handler + 1 + Len(catch) + 1),
             Named("BindError", tree.name)>> \o catch \o <<Op("ExitScope")>>

Statement(tree, at) ==
  CASE tree.is = "let" ->
         Append(Expression(tree.value, at),
                [op |-> "Define", name |-> tree.name, mutable |-> TRUE])
    [] tree.is = "set" -> Append(Expression(tree.value, at), Named("Store", tree.name))
    [] tree.is = "setv" ->
         Append(Expressions(<<tree.object, tree.value>>, at), Op("SetProperty"))
    [] tree.is = "print" -> Append(Expression(tree.value, at), Op("Print"))
    [] tree.is = "do" -> Append(Expression(tree.value, at), Op("Pop"))
    [] tree.is = "if" -> Branches(tree, at)
    [] tree.is = "while" -> WhileLoop(tree, at)
    [] tree.is = "for" -> ForLoop(tree, at)
    [] tree.is = "fun" ->
         <<[op |-> "MakeClosure", tree |-> tree],
           [op |-> "Define", name |-> tree.name, mutable |-> FALSE]>>
    [] tree.is = "class" ->
         Append(Expression(tree.initial, at), [op |-> "DefineClass", tree |-> tree])
    [] tree.is = "try" -> Protected(tree, at)
    [] tree.is = "throw" -> Append(Expression(tree.value, at), Op("Throw"))
    [] tree.is = "return" -> Append(Expression(tree.value, at), Op("Return"))

\* compile_with_module_id and compile_function
Compile(trees) == Append(Statements(trees, 1), Op("Halt"))
CompileFunction(tree) ==
  Statements(tree.body, 1) \o <<[op |-> "Constant", value |-> Nil], Op("Return")>>

\* The addresses between two statements of a chunk's outermost block.
RECURSIVE Boundaries(_, _)
Boundaries(trees, at) ==
  IF trees = <<>> THEN {at}
  ELSE {at} \cup Boundaries(Tail(trees), at + Len(Statement(Head(trees), at)))

-----------------------------------------------------------------------------
(***************************************************************************)
(* The machine that runs the code.                                         *)
(***************************************************************************)
\* An activation: what to do with its result is push it, store it in a task,
\* or push the object that the initialiser was called for.
Activation(tree, code, env, base, owner, then, at) ==
  [tree |-> tree, code |-> code, ip |-> 1, env |-> env, base |-> base, owner |-> owner,
   handlers |-> <<>>, pending |-> Nil, then |-> then, at |-> at]

Top == frames[Len(frames)]
Below == SubSeq(frames, 1, Len(frames) - 1)
Instruction == Top.code[Top.ip]
Next1 == [Top EXCEPT !.ip = @ + 1]

At(ops) ==
  /\ frames # <<>> /\ raised = Nil
  /\ Instruction.op \in ops

Cut(n) == SubSeq(stack, 1, Len(stack) - n)
Arg(n) == stack[Len(stack) - n]

\* The step succeeds, with the new heap, stack and activation.
Done(newHeap, newStack, frame) ==
  /\ heap' = newHeap /\ stack' = newStack /\ frames' = Append(Below, frame)
  /\ UNCHANGED <<program, raised, ended>>

Push(newHeap, popped, value) == Done(newHeap, Append(Cut(popped), value), Next1)

\* The step fails: what it has popped is gone.
Fail(popped, error) ==
  /\ raised' = error
  /\ stack' = Cut(popped)
  /\ UNCHANGED <<program, heap, frames, ended>>

-----------------------------------------------------------------------------
Constant == At({"Constant"}) /\ Push(heap, 0, Instruction.value)

Load ==
  /\ At({"Load"})
  /\ IF Home(heap, Top.env, Instruction.name) = 0 THEN Fail(0, Fault)
     ELSE Push(heap, 0, Binding(heap, Top.env, Instruction.name).value)

Define ==
  /\ At({"Define"})
  /\ Done(Bind(heap, Top.env, Instruction.name, Arg(0), Instruction.mutable), Cut(1), Next1)

Store ==
  /\ At({"Store"})
  /\ IF Assignable(heap, Top.env, Instruction.name)
     THEN Done(Assign(heap, Top.env, Instruction.name, Arg(0)), Cut(1), Next1)
     ELSE Fail(1, Fault)

EnterScope ==
  /\ At({"EnterScope"})
  /\ LET inner == Child(heap, Top.env)
     IN  Done(inner, stack, [Next1 EXCEPT !.env = Newest(inner)])

ExitScope ==
  /\ At({"ExitScope"})
  /\ Done(heap, stack, [Next1 EXCEPT !.env = heap.scopes[Top.env].up])

Pop == At({"Pop"}) /\ Done(heap, Cut(1), Next1)

PrintLine ==
  /\ At({"Print"})
  /\ Done([heap EXCEPT !.output = Append(@, Show(Arg(0)))], Cut(1), Next1)

Add ==
  /\ At({"Add"})
  /\ IF Arg(0).t = "num" /\ Arg(1).t = "num" THEN Push(heap, 2, Num(Arg(1).n + Arg(0).n))
     ELSE Fail(2, Fault)

BuildList ==
  /\ At({"BuildList"})
  /\ LET n == Instruction.count
     IN  Push(NewList(heap, SubSeq(stack, Len(stack) - n + 1, Len(stack))), n,
              [t |-> "list", at |-> Len(heap.lists) + 1])

Index ==
  /\ At({"Index"})
  /\ IF IsIndex(heap, Arg(1), Arg(0))
     THEN Push(heap, 2, heap.lists[Arg(1).at][Arg(0).n + 1])
     ELSE Fail(2, Fault)

\* check_access asks the innermost activation.
GetProperty ==
  /\ At({"GetProperty"})
  /\ IF Accessible(heap, Arg(0), Instruction.name, Top.owner)
     THEN Push(heap, 1, Member(heap, Arg(0), Instruction.name))
     ELSE Fail(1, Fault)

SetProperty ==
  /\ At({"SetProperty"})
  /\ IF Accessible(heap, Arg(1), "v", Top.owner)
     THEN Done([heap EXCEPT !.objects[Arg(1).at].v = Arg(0)], Cut(2), Next1)
     ELSE Fail(2, Fault)

Jump ==
  /\ At({"Jump", "JumpIfFalse", "JumpIfTrue"})
  /\ LET taken == CASE Instruction.op = "Jump" -> TRUE
                    [] Instruction.op = "JumpIfFalse" -> ~Truthy(Arg(0))
                    [] Instruction.op = "JumpIfTrue" -> Truthy(Arg(0))
     IN  Done(heap, stack, IF taken THEN [Top EXCEPT !.ip = Instruction.target] ELSE Next1)

MakeClosure ==
  At({"MakeClosure"}) /\ Push(heap, 0, Function(Instruction.tree, Top.env, NoOwner))

DefineClass ==
  /\ At({"DefineClass"})
  /\ LET class == [t |-> "class", tree |-> Instruction.tree, env |-> Top.env,
                   initial |-> Arg(0)]
     IN  Done(Bind(heap, Top.env, Instruction.tree.name, class, FALSE), Cut(1), Next1)

\* make_iterator copies the list.
GetIterator ==
  /\ At({"GetIterator"})
  /\ IF Arg(0).t = "list"
     THEN Push(heap, 1, [t |-> "iterator", items |-> heap.lists[Arg(0).at]])
     ELSE Fail(1, Fault)

IteratorNext ==
  /\ At({"IteratorNext"})
  /\ LET items == Arg(0).items
     IN  IF items = <<>> THEN Done(heap, Cut(1), [Top EXCEPT !.ip = Instruction.target])
         ELSE Done(heap, Cut(1) \o <<[Arg(0) EXCEPT !.items = Tail(@)], Head(items)>>, Next1)

TryBegin ==
  /\ At({"TryBegin"})
  /\ Done(heap, stack, [Next1 EXCEPT !.handlers =
            Append(@, [target |-> Instruction.target, height |-> Len(stack), env |-> Top.env])])

TryEnd ==
  /\ At({"TryEnd"})
  /\ Done(heap, stack, [Next1 EXCEPT !.handlers = SubSeq(@, 1, Len(@) - 1)])

BindError ==
  /\ At({"BindError"})
  /\ Done(Bind(heap, Top.env, Instruction.name, Top.pending, FALSE), stack,
          [Next1 EXCEPT !.pending = Nil])

Throw == At({"Throw"}) /\ Fail(1, Thrown(Arg(0)))

-----------------------------------------------------------------------------
\* call_closure: the depth, the number of arguments, a scope, a new activation.
Enter(newHeap, popped, function, arguments, then, at) ==
  IF newHeap.depth >= MaxCallDepth \/ Len(arguments) # Len(function.tree.params)
  THEN /\ raised' = Fault
       /\ heap' = IF then = "task" THEN SetTask(newHeap, at, "failed", Fault) ELSE newHeap
       /\ stack' = Cut(popped)
       /\ UNCHANGED <<program, frames, ended>>
  ELSE LET scoped == CallScope(newHeap, function, arguments)
       IN  /\ heap' = [scoped EXCEPT !.depth = @ + 1]
           /\ stack' = Cut(popped)
           /\ frames' = Append(Append(Below, Next1),
                Activation(function.tree.body, CompileFunction(function.tree),
                           Newest(scoped), Len(stack) - popped, function.owner, then, at))
           /\ UNCHANGED <<program, raised, ended>>

CalleeIs(t) == At({"Call"}) /\ Arg(Instruction.count).t = t
Callee == Arg(Instruction.count)
Arguments == SubSeq(stack, Len(stack) - Instruction.count + 1, Len(stack))
Popped == Instruction.count + 1

CallClosure ==
  /\ CalleeIs("fun") /\ ~Callee.tree.async
  /\ Enter(heap, Popped, Callee, Arguments, "push", 0)

\* make_task
CallAsync ==
  /\ CalleeIs("fun") /\ Callee.tree.async
  /\ IF Len(Arguments) # Len(Callee.tree.params) THEN Fail(Popped, Fault)
     ELSE Push(NewTask(heap, Callee, Arguments), Popped,
               [t |-> "task", at |-> Len(heap.tasks) + 1])

CallBuiltIn ==
  /\ CalleeIs("native")
  /\ IF Len(Arguments) # 2 \/ Arguments[1].t # "list" THEN Fail(Popped, Fault)
     ELSE Push([heap EXCEPT !.lists[Arguments[1].at] = Append(@, Arguments[2])], Popped,
               Arguments[1])

CallClass ==
  /\ CalleeIs("class")
  /\ LET object == [t |-> "object", at |-> Len(heap.objects) + 1]
         made == NewObject(heap, Callee)
     IN  IF MethodsOf(Callee, "init") # {}
         THEN Enter(made, Popped, Bound(Method(Callee, "init"), object), Arguments,
                    "object", object.at)
         ELSE IF Arguments # <<>> THEN Fail(Popped, Fault)
              ELSE Push(made, Popped, object)

CallOther ==
  /\ At({"Call"}) /\ Callee.t \notin {"fun", "native", "class"}
  /\ Fail(Popped, Fault)

Await ==
  /\ At({"Await"})
  /\ IF Arg(0).t # "task" THEN Fail(1, Fault)
     ELSE LET task == heap.tasks[Arg(0).at]
          IN  CASE task.state = "pending" ->
                     Enter(SetTask(heap, Arg(0).at, "running", Nil), 1, task.function,
                           task.arguments, "task", Arg(0).at)
                [] task.state = "completed" -> Push(heap, 1, task.result)
                [] task.state = "failed" -> Fail(1, task.result)
                [] task.state = "running" -> Fail(1, Fault)

-----------------------------------------------------------------------------
\* An activation ends well: its operands go, the depth is given back, and the
\* caller goes on with the result.
Return ==
  /\ At({"Return"})
  /\ LET value == IF Top.then = "object" THEN [t |-> "object", at |-> Top.at] ELSE Arg(0)
         settled == IF Top.then = "task" THEN SetTask(heap, Top.at, "completed", value)
                    ELSE heap
     IN  /\ heap' = [settled EXCEPT !.depth = @ - 1]
         /\ stack' = Append(SubSeq(stack, 1, Top.base), value)
         /\ frames' = Below
         /\ UNCHANGED <<program, raised, ended>>

Halt ==
  /\ At({"Halt"})
  /\ frames' = <<>> /\ stack' = SubSeq(stack, 1, Top.base)
  /\ ended' = [over |-> TRUE, error |-> Nil]
  /\ UNCHANGED <<program, heap, raised>>

\* Mutant: the operands stay.
MutCatch ==
  /\ raised # Nil /\ Top.handlers # <<>>
  /\ LET handler == Top.handlers[Len(Top.handlers)]
     IN  frames' = Append(Below,
           [Top EXCEPT !.ip = handler.target, !.env = handler.env, !.pending = raised,
                       !.handlers = SubSeq(@, 1, Len(@) - 1)])
  /\ raised' = Nil
  /\ UNCHANGED <<program, heap, stack, ended>>

\* The innermost handler takes over, in the scope of its try branch.
Catch ==
  /\ raised # Nil /\ Top.handlers # <<>>
  /\ LET handler == Top.handlers[Len(Top.handlers)]
     IN  /\ stack' = SubSeq(stack, 1, handler.height)
         /\ frames' = Append(Below,
              [Top EXCEPT !.ip = handler.target, !.env = handler.env, !.pending = raised,
                          !.handlers = SubSeq(@, 1, Len(@) - 1)])
  /\ raised' = Nil
  /\ UNCHANGED <<program, heap, ended>>

\* Mutant: a task that failed stays as it is.
MutUnwind ==
  /\ raised # Nil /\ Top.handlers = <<>>
  /\ stack' = SubSeq(stack, 1, Top.base)
  /\ frames' = Below
  /\ IF Below = <<>>
     THEN /\ ended' = [over |-> TRUE, error |-> raised.says]
          /\ raised' = Nil
          /\ UNCHANGED heap
     ELSE heap' = [heap EXCEPT !.depth = @ - 1] /\ UNCHANGED <<raised, ended>>
  /\ UNCHANGED program

\* No handler: the activation ends and its caller fails, or the program does.
Unwind ==
  /\ raised # Nil /\ Top.handlers = <<>>
  /\ stack' = SubSeq(stack, 1, Top.base)
  /\ frames' = Below
  /\ IF Below = <<>>
     THEN /\ ended' = [over |-> TRUE, error |-> raised.says]
          /\ raised' = Nil
          /\ UNCHANGED heap
     ELSE /\ LET settled == IF Top.then = "task" THEN SetTask(heap, Top.at, "failed", raised)
                            ELSE heap
             IN  heap' = [settled EXCEPT !.depth = @ - 1]
          /\ UNCHANGED <<raised, ended>>
  /\ UNCHANGED program

-----------------------------------------------------------------------------
Init ==
  /\ program \in Programs
  /\ heap = EmptyHeap /\ stack = <<>> /\ raised = Nil
  /\ frames = <<Activation(program, Compile(program), 1, 0, NoOwner, "program", 0)>>
  /\ ended = [over |-> FALSE, error |-> Nil]

Next ==
  \/ Constant \/ Load \/ Define \/ Store \/ EnterScope \/ ExitScope \/ Pop
  \/ PrintLine \/ Add \/ BuildList \/ Index \/ GetProperty \/ SetProperty \/ Jump
  \/ MakeClosure \/ DefineClass \/ GetIterator \/ IteratorNext
  \/ TryBegin \/ TryEnd \/ BindError \/ Throw
  \/ CallClosure \/ CallAsync \/ CallBuiltIn \/ CallClass \/ CallOther \/ Await
  \/ Return \/ Halt \/ Catch \/ Unwind

Spec == Init /\ [][Next]_vars

-----------------------------------------------------------------------------
\* The statement, or one inside it, is of such a kind.  Methods and functions
\* count as inside.
Children(tree) ==
  CASE tree.is = "if" -> tree.then \o tree.else
    [] tree.is \in {"while", "for", "fun"} -> tree.body
    [] tree.is = "try" -> tree.body \o tree.catch
    [] tree.is = "class" -> tree.methods
    [] OTHER -> <<>>

RECURSIVE Within(_)
Within(trees) ==
  UNION {{trees[n]} \cup Within(Children(trees[n])) : n \in DOMAIN trees}

RECURSIVE Operands(_)
Operands(tree) ==
  {tree} \cup
  CASE tree.is \in {"let", "set", "print", "do", "throw", "return"} -> Operands(tree.value)
    [] tree.is = "setv" -> Operands(tree.object) \cup Operands(tree.value)
    [] tree.is \in {"add", "and", "or"} -> Operands(tree.left) \cup Operands(tree.right)
    [] tree.is = "call" ->
         Operands(tree.callee)
           \cup UNION {Operands(tree.arguments[n]) : n \in DOMAIN tree.arguments}
    [] tree.is = "get" -> Operands(tree.object)
    [] tree.is = "await" -> Operands(tree.task)
    [] OTHER -> {}

\* Two engines differ on a program for one of three reasons: the catch branch
\* sees what the try branch declared; a list is extended while it is iterated
\* over; a function that is no method, called from a method, uses a private
\* field.
Declares(trees) == \E n \in DOMAIN trees : trees[n].is \in {"let", "fun", "class"}
LeakyCatch(trees) ==
  \E tree \in Within(trees) : tree.is = "try" /\ Declares(tree.body)
Extends(trees) ==
  /\ \E tree \in Within(trees) : tree.is = "for"
  /\ \E tree \in Within(trees) :
       \E part \in Operands(tree) : part.is = "name" /\ part.name = "append"
UsesField(tree) ==
  tree.is = "setv" \/ \E part \in Operands(tree) : part.is = "get" /\ part.name = "v"
Borrows(trees) ==
  \E tree \in Within(trees) : tree.is = "fun"
    /\ \E part \in Within(tree.body) : UsesField(part)
    /\ ~\E class \in Within(trees) :
          class.is = "class" /\ \E n \in DOMAIN class.methods : class.methods[n] = tree
Portable(trees) == ~LeakyCatch(trees) /\ ~Extends(trees) /\ ~Borrows(trees)

MachineResult ==
  [output |-> heap.output, error |-> ended.error,
   tasks |-> [n \in DOMAIN heap.tasks |-> heap.tasks[n].state]]

\* A program without one of the three differences prints the same lines, ends
\* with the same error or none, and leaves each task in the same state,
\* whichever engine runs it.
PortableProgramsAgree ==
  ended.over /\ Portable(program) => MachineResult = Interpret(program)

\* spec/language/v1/execution-and-compatibility.md:3 promises it of every
\* program.
EnginesAgree ==
  ended.over => MachineResult = Interpret(program)

\* Compiled code is balanced: between two statements of a body, its activation
\* is back in the scope it began in, has no handler and no operand, however
\* the statement before has ended: by itself, by a jump or by a caught error.
StatementsBalanced ==
  (frames # <<>> /\ raised = Nil /\ Top.ip \in Boundaries(Top.tree, 1)) =>
    /\ Top.handlers = <<>> /\ Len(stack) = Top.base
    /\ Len(frames) = 1 => Top.env = 1
=============================================================================

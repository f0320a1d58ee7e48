------------------------------ MODULE Containers ------------------------------
(***************************************************************************)
(* Lists, maps and iterators of a program in the two engines               *)
(* (src/interpreter.rs, src/vm.rs).  The tree interpreter walks the list   *)
(* itself, the machine a copy made with the iterator; an iterator that     *)
(* maps or filters keeps itself and those below it borrowed while its      *)
(* callback runs, and the callback may do everything the program may.      *)
(*                                                                         *)
(* Both engines are followed and what they answer is compared.  After two  *)
(* answers that differ the program goes on with neither; where the engines *)
(* themselves are no longer in one state, and after a panic, a course ends.*)
(***************************************************************************)
EXTENDS Integers, Sequences, FiniteSets, TLC

CONSTANTS
  Elements,     \* values of lists: among "one", "two", "nan", "method"
  MaxElements,  \* max_collection_elements of the budget
  MaxIters,     \* bound: iterators of the program
  MaxSteps      \* bound: operations of the program

VARIABLES
  lists,    \* the list of the program and the one that calls return
  map,      \* the entries of a map, in the order of insertion
  last,     \* what was last stored in the map, for each key
  iters,    \* the iterators
  calls,    \* calls of next, sort and contains in progress, innermost last
  answer,   \* what the engines answered where they differ
  steps, status

vars == <<lists, map, last, iters, calls, answer, steps, status>>

Keys == {"one", "two", "nan", "list"}
Range(s) == {s[k] : k \in DOMAIN s}
Same == [why |-> "none", tree |-> "same", vm |-> "same"]
Agree == answer' = Same /\ UNCHANGED status
\* The engines differ, and either are in one state still or part here.
Differ(why, tree, vm) == answer' = [why |-> why, tree |-> tree, vm |-> vm]
GoOn == UNCHANGED status
Ends(why) == status' = why
Fits(n) == n <= MaxElements                               \* check_collection

\* values_equal: a bound method of the machine is not even itself.
TreeEqual(a, b) == a = b /\ a # "nan"
VmEqual(a, b) == a = b /\ a \notin {"nan", "method"}

\* compare_values_for_sort orders values of one kind, else kinds and texts.
Rank(v) == CASE v = "method" -> 1 [] v = "one" -> 2 [] v = "two" -> 3 [] OTHER -> 4
Sorted(s) == SortSeq(s, LAMBDA a, b : Rank(a) < Rank(b))

-----------------------------------------------------------------------------
\* The items that an iterator has yet to give, in each engine.
TreeAhead(i) ==
  CASE iters[i].over = "list" -> SubSeq(lists[iters[i].of], iters[i].at + 1, Len(lists[iters[i].of]))
    [] iters[i].over = "map" -> [k \in 1 .. Len(map) - iters[i].at |-> map[k + iters[i].at][1]]
    [] OTHER -> iters[i].copy
VmAhead(i) == iters[i].copy
\* What the machine copies when it makes an iterator.
Snapshot(over, of) ==
  CASE over = "list" -> lists[of]
    [] over = "map" -> [k \in DOMAIN map |-> map[k][1]]
    [] over = "range" -> <<"one", "two", "one">>
    [] over = "stuck" -> <<"one">>    \* a step lost to rounding: no end
    [] OTHER -> <<>>

Make(iter) == iters' = Append(iters, iter)
make_iterator(over, of) ==
  Make([over |-> over, of |-> of, path |-> <<Len(iters) + 1>>, at |-> 0, copy |-> Snapshot(over, of), old |-> FALSE])
\* An object is its own iterator if it has the method for the next item; one
\* that starts with something else is iterated through that.
ObjectIterates(start, next) ==
  CASE start = "other" -> "other"
    [] start = "itself" -> IF next THEN "itself" ELSE "error"
    [] OTHER -> IF next THEN "itself" ELSE "error"
VmObjectIterates(start, next) ==
  IF start = "other" THEN "other" ELSE IF ~next THEN "error" ELSE "itself"
Wrapped(over, source) ==
  Make([over |-> over, of |-> "callback", path |-> <<Len(iters) + 1>> \o iters[source].path, at |-> 0,
        copy |-> <<>>, old |-> FALSE])

-----------------------------------------------------------------------------
\* A call asks the iterator root for one item, for all (to sort, to reverse)
\* or for an equal of x; the first level iterators of its path are borrowed.
Call(root, want, x) == [root |-> root, want |-> want, x |-> x, got |-> <<>>, level |-> 0, item |-> "none",
                        runs |-> FALSE]
Top == calls[Len(calls)]
Path == iters[Top.root].path
Base == Path[Len(Path)]
Borrowed(call) == {iters[call.root].path[k] : k \in 1 .. call.level}
BorrowedBelow == UNION {Borrowed(calls[k]) : k \in 1 .. Len(calls) - 1}
InProgram == status = "runs" /\ (calls # <<>> => Top.runs)
InCall == status = "runs" /\ calls # <<>> /\ ~Top.runs
With(call) == calls' = [calls EXCEPT ![Len(calls)] = call]
Finished == calls' = SubSeq(calls, 1, Len(calls) - 1)

\* The list that sort and reverse return; over the budget it is refused, by
\* the tree interpreter at the first item too many.
Collected(want, got) == IF want = "sort" THEN Sorted(got) ELSE [k \in DOMAIN got |-> got[Len(got) + 1 - k]]
ResultInUse == \E i \in DOMAIN iters : iters[i].over = "list" /\ iters[i].of = "result"
Exhausted ==
  /\ Finished
  /\ lists' = IF Top.want \in {"sort", "reverse"} /\ ~ResultInUse
              THEN [lists EXCEPT !["result"] = Collected(Top.want, Top.got)] ELSE lists

\* The first item too many.  The machine collects what is left as well, which
\* no budget counts, and is refused the list at the end, if there is one.
RefusedCollect ==
  LET after == iters'[Base]
  IN  IF after.over # "object" /\ after.copy = <<>> THEN Agree
      ELSE /\ Differ("collects", <<"refused", after.copy>>,
                     <<CASE after.over = "stuck" -> "never" [] after.over = "object" -> "calls on" [] OTHER -> "refused", <<>> >>)
           /\ Ends("parted")

\* An item has come through the whole path.
Delivered(item) ==
  CASE Top.want = "one" -> Finished /\ Agree
    [] Top.want \in {"sort", "reverse"} ->
         IF Fits(Len(Top.got) + 1)
         THEN With([Top EXCEPT !.got = Append(@, item), !.level = 0, !.runs = FALSE]) /\ Agree
         ELSE Finished /\ RefusedCollect
    [] OTHER ->
         IF TreeEqual(item, Top.x) # VmEqual(item, Top.x)
         THEN Finished /\ Differ("method", TreeEqual(item, Top.x), VmEqual(item, Top.x)) /\ Ends("parted")
         ELSE IF TreeEqual(item, Top.x) THEN Finished /\ Agree
         ELSE With([Top EXCEPT !.level = 0, !.runs = FALSE]) /\ Agree

\* The item goes to the callback of the iterator at the level, if there is one.
Upwards(level, item) ==
  IF level = 0 THEN Delivered(item)
  ELSE With([Top EXCEPT !.level = level, !.item = item, !.runs = TRUE]) /\ Agree

\* next_iterator takes an item of the last iterator of the path.  The position
\* moves before any callback sees the item.
Moved(i) ==
  iters' = [iters EXCEPT ![i].at = IF iters[i].over \in {"list", "map"} /\ TreeAhead(i) # <<>> THEN @ + 1 ELSE @,
                         ![i].copy = IF iters[i].over = "stuck" \/ @ = <<>> THEN @ ELSE Tail(@)]
First(ahead) == IF ahead = <<>> THEN "end" ELSE Head(ahead)
next_iterator ==
  /\ InCall
  /\ IF Range(Path) \cap BorrowedBelow # {} THEN Ends("panic") /\ UNCHANGED <<calls, iters, lists, answer>>
     ELSE IF iters[Base].over = "object"
     THEN UNCHANGED <<iters, lists>> /\ Upwards(Len(Path), "none")
     ELSE LET tree == TreeAhead(Base)
              vm == VmAhead(Base)
          IN CASE tree = <<>> /\ vm = <<>> ->
                    Exhausted /\ Agree /\ UNCHANGED iters
               [] First(tree) = First(vm) ->
                    Moved(Base) /\ Upwards(Len(Path) - 1, Head(vm)) /\ UNCHANGED lists
               [] OTHER ->   \* a program that asked for the one item goes on with the iterator
                    /\ Differ("source", <<First(tree), Base>>, <<First(vm), Base>>)
                    /\ Moved(Base) /\ Finished /\ UNCHANGED lists
                    /\ IF Path = <<Base>> /\ Top.want = "one" THEN GoOn ELSE Ends("parted")
  /\ UNCHANGED <<map, last, steps>>

-----------------------------------------------------------------------------
\* What the program, or a callback of it, may do.
Act == InProgram /\ steps < MaxSteps /\ steps' = steps + 1
Program == Agree /\ UNCHANGED calls
\* Iterators whose source has changed since they were made: ahead of them, or
\* by a change that moves what is ahead.
Aged(list, from) ==
  iters' = [i \in DOMAIN iters |->
    [iters[i] EXCEPT !.old = @ \/ (iters[i].over = "list" /\ iters[i].of = list /\ from >= iters[i].at)]]
Changed(list, to, from) == lists' = [lists EXCEPT ![list] = to] /\ Aged(list, from)

Iterate ==
  /\ Act /\ Program /\ Len(iters) < MaxIters
  /\ \E over \in {"list", "map", "range", "stuck"}, of \in {"main", "result"} :
       (of = "result" => over = "list") /\ make_iterator(over, of)
  /\ UNCHANGED <<lists, map, last>>
IterateObject ==
  /\ Act /\ Len(iters) < MaxIters
  /\ \E start \in {"none", "itself", "other"}, next \in BOOLEAN :
       LET tree == ObjectIterates(start, next)
           vm == VmObjectIterates(start, next)
       IN /\ IF tree = vm THEN Agree ELSE Differ("object", tree, vm) /\ GoOn
          /\ CASE tree = "error" -> UNCHANGED iters
               [] tree = "other" -> make_iterator("list", "main")
               [] OTHER -> make_iterator("object", "main")
  /\ UNCHANGED <<calls, lists, map, last>>
Wrap ==
  /\ Act /\ Program /\ Len(iters) < MaxIters
  /\ \E over \in {"mapped", "filtered"}, source \in DOMAIN iters : Wrapped(over, source)
  /\ UNCHANGED <<lists, map, last>>
Begin ==
  /\ Act
  /\ \E root \in DOMAIN iters, want \in {"one", "sort", "reverse"} :
       calls' = Append(calls, Call(root, want, "none"))
  /\ Agree /\ UNCHANGED <<lists, map, last, iters>>
Contains ==
  /\ Act
  /\ \E root \in DOMAIN iters, x \in Elements : calls' = Append(calls, Call(root, "equal", x))
  /\ Agree /\ UNCHANGED <<lists, map, last, iters>>

Push ==
  /\ Act /\ Program
  /\ LET l == lists["main"]
     IN \E v \in Elements : IF Fits(Len(l) + 1) THEN Changed("main", Append(l, v), Len(l))
                            ELSE UNCHANGED <<lists, iters>>
  /\ UNCHANGED <<map, last>>
Insert ==
  /\ Act /\ Program
  /\ LET l == lists["main"]
     IN \E v \in Elements, k \in 0 .. Len(l) :
          IF Fits(Len(l) + 1)
          THEN Changed("main", SubSeq(l, 1, k) \o <<v>> \o SubSeq(l, k + 1, Len(l)), MaxElements)
          ELSE UNCHANGED <<lists, iters>>
  /\ UNCHANGED <<map, last>>
Remove ==
  /\ Act /\ Program
  /\ LET l == lists["main"]
     IN \E k \in 0 .. Len(l) - 1 : Changed("main", SubSeq(l, 1, k) \o SubSeq(l, k + 2, Len(l)), MaxElements)
  /\ UNCHANGED <<map, last>>
SetItem ==
  /\ Act /\ Program
  /\ \E k \in 0 .. Len(lists["main"]) - 1, v \in Elements :
       Changed("main", [lists["main"] EXCEPT ![k + 1] = v], k)
  /\ UNCHANGED <<map, last>>

\* Storing in a map: a new key against the budget, then any key against the
\* kinds that may be one.
KeyOf(entries, key) == {k \in DOMAIN entries : TreeEqual(entries[k][1], key)}
MutInsert(entries, key, value) == Append(entries, <<key, value>>)   \* pushes without a search

map_insert(entries, key, value) ==
  IF KeyOf(entries, key) = {} THEN Append(entries, <<key, value>>)
  ELSE [k \in DOMAIN entries |-> IF k \in KeyOf(entries, key) THEN <<key, value>> ELSE entries[k]]

SetEntry ==
  /\ Act /\ Program
  /\ \E key \in Keys, value \in {"one", "two"} :
       IF (KeyOf(map, key) = {} => Fits(Len(map) + 1)) /\ key # "list"
       THEN /\ map' = map_insert(map, key, value)
            /\ last' = [last EXCEPT ![key] = value]
            /\ iters' = [i \in DOMAIN iters |-> [iters[i] EXCEPT !.old = @ \/ (iters[i].over = "map" /\ Len(map') > Len(map))]]
       ELSE UNCHANGED <<map, last, iters>>
  /\ UNCHANGED lists

\* A literal: the machine counts the entries it is given, the tree interpreter
\* those of the map it has built.
Distinct(keys) == Cardinality({k \in DOMAIN keys : keys[k] = "nan"}) + Cardinality(Range(keys) \ {"nan"})
TreeLiteral(keys) == IF Fits(Distinct(keys)) THEN "map" ELSE "refused"
VmLiteral(keys) == IF Fits(Len(keys)) THEN "map" ELSE "refused"
Literals == UNION {[1 .. n -> {"one", "nan"}] : n \in 1 .. MaxElements + 1}
Literal ==
  /\ Act /\ GoOn /\ UNCHANGED <<calls, lists, last, iters, map>>
  /\ \E keys \in Literals :
       answer' = IF TreeLiteral(keys) = VmLiteral(keys) THEN Same
                 ELSE [why |-> "literal", tree |-> TreeLiteral(keys), vm |-> VmLiteral(keys)]

\* A slice: an empty bound is none for the machine and refused by the tree
\* interpreter; -1 stands for an absent bound and -2 for an empty one.
slice_bounds(a, b, n) ==
  LET start == IF a = -1 THEN 0 ELSE a
      end == IF b = -1 THEN n ELSE b
  IN IF -2 \in {a, b} \/ start > end \/ end > n THEN <<>> ELSE <<start, end>>
bounds(a, b, n) ==
  LET start == IF a < 0 THEN 0 ELSE a
      end == IF b < 0 THEN n ELSE b
  IN IF start > end \/ end > n THEN <<>> ELSE <<start, end>>
Bounds == -2 .. MaxElements + 1
Slice ==
  /\ Act /\ GoOn /\ UNCHANGED <<calls, map, last, iters>>
  /\ ~ResultInUse
  /\ \E a, b \in Bounds :
       LET l == lists["main"]
           tree == slice_bounds(a, b, Len(l))
           vm == bounds(a, b, Len(l))
       IN IF tree # vm THEN Differ("slice", tree, vm) /\ UNCHANGED lists
          ELSE /\ answer' = Same
               /\ lists' = IF tree = <<>> THEN lists
                           ELSE [lists EXCEPT !["result"] = SubSeq(l, tree[1] + 1, tree[2])]
\* A callback returns: what it makes of the item, whether to keep it, the next
\* item of an object or its end; or it raises an error, which the program
\* catches in the callback of an outer call, or not in any.
Callback == iters[Path[Top.level]].over
CallbackReturns ==
  /\ InProgram /\ calls # <<>> /\ UNCHANGED <<map, last, iters, steps>>
  /\ \/ \E v \in {Top.item, "two"} : Callback = "mapped" /\ Upwards(Top.level - 1, v) /\ UNCHANGED lists
     \/ Callback = "filtered" /\ Upwards(Top.level - 1, Top.item) /\ UNCHANGED lists
     \/ Callback = "filtered" /\ With([Top EXCEPT !.runs = FALSE]) /\ Agree /\ UNCHANGED lists
     \/ Callback = "object" /\ Upwards(Top.level - 1, "one") /\ UNCHANGED lists
     \/ Callback = "object" /\ Exhausted /\ Agree
Raise ==
  /\ Act /\ Agree
  /\ \E k \in 0 .. Len(calls) - 1 : calls' = SubSeq(calls, 1, k)
  /\ UNCHANGED <<lists, map, last, iters>>

Init ==
  /\ lists \in [{"main", "result"} -> {<<>>, <<"one">>, <<"two", "one">>}] /\ lists["result"] = <<>>
  /\ map = <<>> /\ last = [k \in Keys |-> "none"]
  /\ iters = <<>> /\ calls = <<>> /\ answer = Same /\ steps = 0 /\ status = "runs"

Next ==
  \/ next_iterator \/ Iterate \/ IterateObject \/ Wrap \/ Begin \/ Contains \/ Push \/ Insert \/ Remove \/ SetItem
  \/ SetEntry \/ Literal \/ Slice \/ CallbackReturns \/ Raise

Spec == Init /\ [][Next]_vars

-----------------------------------------------------------------------------
\* What the document of the engines says of these operations: their answers
\* are the same.  They are not, and DifferWhere says where.
EnginesAgree == answer.tree = answer.vm

\* The live iterator of the tree interpreter and the copy of the machine have
\* the same ahead of them unless the source has changed there.
InStep ==
  status = "runs" =>
    \A i \in DOMAIN iters : iters[i].over \in {"list", "map"} /\ ~iters[i].old => TreeAhead(i) = VmAhead(i)

\* The engines differ in these answers alone: items of a source that has changed
\* since the iterator was made; what is left of an iterator, or whether there is
\* an end, after a refused collect; a bound method that is looked for, which
\* only the tree interpreter finds; a slice with an empty bound which fits if the
\* bound is absent; and a literal that repeats a key, is over the budget with
\* the repetition and is not without.
Absent(x) == IF x = -2 THEN -1 ELSE x
Repeats(keys) == \E j, k \in DOMAIN keys : j # k /\ keys[j] = keys[k] /\ keys[j] # "nan"
ValuesDifferWhere ==
  /\ \A v, w \in Elements \cup Keys : TreeEqual(v, w) # VmEqual(v, w) <=> v = w /\ v = "method"
  /\ \A n \in 0 .. MaxElements, a, b \in Bounds :
       slice_bounds(a, b, n) # bounds(a, b, n) <=> -2 \in {a, b} /\ slice_bounds(Absent(a), Absent(b), n) # <<>>
  /\ \A keys \in Literals :
       TreeLiteral(keys) # VmLiteral(keys) <=> Repeats(keys) /\ Len(keys) > MaxElements /\ Distinct(keys) <= MaxElements
DifferWhere ==
  /\ steps = 0 => ValuesDifferWhere   \* of the operators, whatever the state
  /\ ~EnginesAgree =>
       CASE answer.why = "source" -> iters[answer.tree[2]].old
         [] answer.why = "collects" -> answer.tree[1] = "refused" /\ answer.vm[2] = <<>>
         [] answer.why = "method" -> answer.tree /\ ~answer.vm
         [] answer.why \in {"slice", "literal"} -> TRUE
         [] OTHER -> FALSE
  /\ status = "parted" => ~EnginesAgree

\* No list or map is over the budget, whichever calls and errors made it.
BudgetHolds == Fits(Len(map)) /\ \A l \in DOMAIN lists : Fits(Len(lists[l]))

\* A map holds one entry for a key, with what was stored last.  A number that
\* is not equal to itself is a new key every time.
MapKeeps ==
  \A key \in Keys \ {"nan"} :
    LET at == {k \in DOMAIN map : map[k][1] = key}
    IN IF last[key] = "none" THEN at = {} ELSE \E k \in at : at = {k} /\ map[k][2] = last[key]

\* Of the callbacks in progress no two hold the same iterator.
OneBorrower ==
  \A j, k \in DOMAIN calls : j # k => Borrowed(calls[j]) \cap Borrowed(calls[k]) = {}

ContainersHold == InStep /\ DifferWhere /\ BudgetHolds /\ MapKeeps /\ OneBorrower
=============================================================================

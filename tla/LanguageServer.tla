---------------------------- MODULE LanguageServer ----------------------------
(***************************************************************************)
(* The language server: serve_io of src/lsp.rs, the index it builds of a   *)
(* document (src/semantic.rs) and the resolver that accepts the document   *)
(* first (src/resolver.rs).                                                *)
(*                                                                         *)
(* An editor, which is not part of the program, sends messages over a      *)
(* stream that keeps their order and goes on typing while they wait.  It   *)
(* has one document open, which may import one module that others save.    *)
(*                                                                         *)
(* A text is a block of statements                                         *)
(*   [kind, name, params, value, blocks]                                   *)
(* and its tokens are its identifiers, numbered in the order of the        *)
(* source: a position is such a number, a span or a scope a set of them.   *)
(* An identifier is preceded by nothing, by a dot after 此 ("this"), or by *)
(* a dot after another identifier ("chain").                               *)
(***************************************************************************)
EXTENDS Integers, Sequences, FiniteSets, SequencesExt

CONSTANTS
  Texts,       \* the texts the editor opens
  Retyped,     \* the texts it changes to by typing
  Exports,     \* what the imported module may export, sets of names
  Fresh,       \* a name no text contains
  MaxSent      \* bound on messages (model checking only)

VARIABLES
  buffer,     \* the text in the editor
  inbox,      \* the messages written and not read
  sent,       \* their number
  disk,       \* what the imported module exports
  documents,  \* the text the server holds, or Closed
  published,  \* the last diagnostics, none before the first
  answer,     \* the last answer with the text its request was about
  alive       \* serve_io has not returned

vars == <<buffer, inbox, sent, disk, documents, published, answer, alive>>

-----------------------------------------------------------------------------
Statement(kind) == [kind |-> kind, name |-> "", params |-> <<>>, value |-> <<>>, blocks |-> <<>>]

\* A text over the limit of sources, no document, and a module that cannot be read.
Large == <<Statement("large")>>
Closed == <<Statement("closed")>>
Unreadable == {"unreadable"}

\* The identifiers of a statement and of a block.
Plain(name) == [name |-> name, via |-> "none"]

\* The identifiers of a statement before its blocks, and between its two blocks.
Leading(s) ==
  IF s.kind = "try" THEN <<>>
  ELSE (IF s.name = "" THEN <<>> ELSE <<Plain(s.name)>>)
         \o [k \in DOMAIN s.params |-> Plain(s.params[k])] \o s.value
Caught(s, k) == IF s.kind = "try" /\ k = 2 THEN <<Plain(s.name)>> ELSE <<>>

RECURSIVE Tokens(_)
TokensOf(s) ==
  Leading(s) \o FlattenSeq([k \in DOMAIN s.blocks |-> Caught(s, k) \o Tokens(s.blocks[k])])
Tokens(block) == FlattenSeq([k \in DOMAIN block |-> TokensOf(block[k])])

\* The tokens of a statement before its block k.
Before(s, k) ==
  Len(Leading(s) \o Caught(s, k)) + (IF k = 1 THEN 0 ELSE Len(Tokens(s.blocks[1])))

\* Where its statement k starts in a block that starts there.
Start(block, at, k) == at + Len(Tokens(SubSeq(block, 1, k - 1)))

Span(at, block) == at .. at + Len(Tokens(block)) - 1

Declaring == {"let", "function", "class", "import"}

-----------------------------------------------------------------------------
(* src/resolver.rs: the texts it accepts.                                  *)

Distinct(names) == \A i, j \in DOMAIN names : names[i] = names[j] => i = j

DeclaredNames(block) ==
  LET own == SelectSeq(block, LAMBDA s : s.kind \in Declaring)
  IN  [k \in DOMAIN own |-> own[k].name]

\* The names bound in a nested block before its own declarations.
Initial(s, k) ==
  CASE s.kind = "function" -> Range(s.params)
    [] s.kind = "for" \/ (s.kind = "try" /\ k = 2) -> {s.name}
    [] OTHER -> {}

\* depth counts the functions around, inClass tells of a class.
RECURSIVE Accepts(_, _, _, _)
Accepts(block, initial, depth, inClass) ==
  /\ Distinct(DeclaredNames(block))
  /\ Range(DeclaredNames(block)) \cap initial = {}
  /\ \A j \in DOMAIN block :
       LET s == block[j]
           members == IF s.kind = "class" THEN DeclaredNames(s.blocks[1]) ELSE <<>>
       IN  /\ s.kind = "return" => depth > 0
           /\ (\E i \in DOMAIN s.value : s.value[i].via = "this") => inClass
           /\ Distinct(s.params \o members)
           /\ \A k \in DOMAIN s.blocks :
                Accepts(s.blocks[k], Initial(s, k), IF s.kind = "function" THEN depth + 1 ELSE depth,
                        inClass \/ s.kind = "class")

\* What the diagnostics of a text say of it.
Verdict(text) ==
  CASE text = Large -> "too large"
    [] Accepts(text, {}, 0, FALSE) -> "accepted"
    [] OTHER -> "refused"

-----------------------------------------------------------------------------
(* src/semantic.rs: the index of an accepted text.                         *)

\* block_scope: the statements of a block, or the statement around an empty one.
BlockScope(block, at, around) == IF block = <<>> THEN around ELSE Span(at, block)

\* Builder: the declarations of a block, each at the place of its name, which is
\* the order in which they are added.
RECURSIVE Declarations(_, _, _, _, _, _)
DeclarationsOf(s, at, scope, depth, methods, document) ==
  LET around == at .. at + Len(TokensOf(s)) - 1
      within(k) ==
        CASE s.kind = "function" -> around
          [] s.kind = "class" -> document
          [] OTHER -> BlockScope(s.blocks[k], at + Before(s, k), around)
      entry(name, i, span, sc, d, member) ==
        [name |-> name, at |-> i, span |-> span, scope |-> sc, depth |-> d, member |-> member]
      own ==
        CASE s.kind = "for" -> {entry(s.name, at, around, within(1), depth + 1, FALSE)}
          [] s.kind = "try" -> {entry(s.name, at + Before(s, 2) - 1, around, within(2), depth + 1, FALSE)}
          [] s.kind \in Declaring -> {entry(s.name, at, around, scope, depth, methods /\ s.kind = "function")}
          [] OTHER -> {}
      params == {entry(s.params[k], at + k, {at + k}, within(1), depth + 1, s.kind = "class") : k \in DOMAIN s.params}
      nested(k) ==
        Declarations(s.blocks[k], at + Before(s, k), within(k), depth + 1, s.kind = "class", document)
  IN  own \cup params \cup UNION {nested(k) : k \in DOMAIN s.blocks}
Declarations(block, at, scope, depth, methods, document) ==
  UNION {DeclarationsOf(block[k], Start(block, at, k), scope, depth, methods, document) : k \in DOMAIN block}

\* find_declaration: the first identifier of that name in the span which is not
\* a declaration already; a name without one is left out.
Select(tokens, symbols, entry) ==
  LET unused == {i \in entry.span : /\ tokens[i].name = entry.name
                                    /\ \A k \in DOMAIN symbols : symbols[k].selection # i}
  IN  IF unused = {} THEN symbols
      ELSE Append(symbols, [name |-> entry.name, scope |-> entry.scope, depth |-> entry.depth,
                            member |-> entry.member, selection |-> CHOOSE i \in unused : \A j \in unused : i <= j])

\* The bound variables let TLC evaluate the tokens and the entries once.
LastOf(entries) == CHOOSE e \in entries : \A other \in entries : other.at <= e.at
Collected(tokens, entries) ==
  MapThenFoldSet(LAMBDA entry, symbols : Select(tokens, symbols, entry), <<>>, LAMBDA e : e, LastOf, entries)
Symbols(text) ==
  LET document == 0 .. Len(Tokens(text))
  IN  CHOOSE symbols \in {Collected(tokens, entries) :
                            tokens \in {Tokens(text)},
                            entries \in {Declarations(text, 1, document, 0, FALSE, document)}} : TRUE

\* The symbols an identifier that declares nothing may stand for.
Candidates(tokens, symbols, i) ==
  {k \in DOMAIN symbols :
     /\ symbols[k].name = tokens[i].name
     /\ i \in symbols[k].scope
     /\ tokens[i].via # "none" => symbols[k].member
     /\ symbols[k].member \/ symbols[k].selection < i}

\* The deepest, then the one with the smallest scope, then the latest.
Closer(s, t) ==
  \/ s.depth > t.depth
  \/ /\ s.depth = t.depth
     /\ \/ Cardinality(s.scope) < Cardinality(t.scope)
        \/ Cardinality(s.scope) = Cardinality(t.scope) /\ s.selection > t.selection

\* resolve_occurrences: the position of the declaration an identifier is linked
\* to, its own if it declares; 0 without one.
Closest(symbols, found) ==
  symbols[CHOOSE k \in found : \A j \in found \ {k} : Closer(symbols[k], symbols[j])].selection
Link(symbols, found, i) ==
  CASE \E k \in DOMAIN symbols : symbols[k].selection = i -> i
    [] found = {} -> 0
    [] OTHER -> Closest(symbols, found)
LinksTo(tokens, symbols) == [i \in DOMAIN tokens |-> Link(symbols, Candidates(tokens, symbols, i), i)]
Links(text) ==
  CHOOSE links \in {LinksTo(tokens, symbols) : tokens \in {Tokens(text)}, symbols \in {Symbols(text)}} : TRUE

\* The identifiers linked to the same declaration.
References(text, i) ==
  UNION {{j \in DOMAIN links : links[j] = links[i] /\ links[i] # 0} : links \in {Links(text)}}

-----------------------------------------------------------------------------
(* src/lsp.rs: what a request is answered.                                 *)

Imports(text) == {text[k].name : k \in {j \in DOMAIN text : text[j].kind = "import"}}

\* qualified_external_symbol: the identifier is the last of a path into a module.
\* Paths have two segments here, and one module that cannot be read hides all.
External(tokens, imports, i) ==
  /\ tokens[i].via = "chain"
  /\ disk # Unreadable
  /\ tokens[i - 1].via # "chain"
  /\ tokens[i - 1].name \in imports
  /\ tokens[i].name \in disk

\* rename with a valid name: the identifiers it changes.
Edits(text, i) ==
  IF External(Tokens(text), Imports(text), i) THEN {} ELSE References(text, i)

Nothing == [asked |-> Closed, at |-> 0, edits |-> {}]

\* semantic_response: nothing for a document the server does not hold or whose
\* index is not built.
Reply(message) ==
  IF documents = Closed \/ Verdict(documents) # "accepted"
  THEN [Nothing EXCEPT !.asked = message.text, !.at = message.at]
  ELSE [asked |-> message.text, at |-> message.at, edits |-> Edits(documents, message.at)]

-----------------------------------------------------------------------------
(* serve_io, which takes one message after another.                        *)

Take(kind) == alive /\ inbox # <<>> /\ Head(inbox).kind = kind /\ inbox' = Tail(inbox)

\* didOpen and didChange keep a text, or forget the document when it is too large.
Hold(text) == IF text = Large THEN Closed ELSE text

DidChange ==
  /\ Take("change")
  /\ documents' = Hold(Head(inbox).text)
  /\ published' = Verdict(Head(inbox).text)
  /\ UNCHANGED <<buffer, sent, disk, answer, alive>>

DidClose ==
  /\ Take("close")
  /\ documents' = Closed
  /\ published' = "none"
  /\ UNCHANGED <<buffer, sent, disk, answer, alive>>

Answer ==
  /\ Take("request")
  /\ answer' = Reply(Head(inbox))
  /\ UNCHANGED <<buffer, sent, disk, documents, published, alive>>

\* exit ends the loop, and so does a message that is not JSON.
Exit ==
  /\ Take("exit")
  /\ alive' = FALSE
  /\ UNCHANGED <<buffer, sent, disk, documents, published, answer>>

-----------------------------------------------------------------------------
(* The editor and the other file, outside the program.                     *)

Write(kind, text, at) ==
  /\ sent < MaxSent
  /\ sent' = sent + 1
  /\ inbox' = Append(inbox, [kind |-> kind, text |-> text, at |-> at])
  /\ UNCHANGED <<disk, documents, published, answer, alive>>

\* didOpen is the same to the server as didChange.
Type(text) ==
  /\ buffer # text
  /\ buffer' = text
  /\ Write("change", text, 0)

Close ==
  /\ buffer # Closed
  /\ buffer' = Closed
  /\ Write("close", Closed, 0)

Ask(at) == Write("request", buffer, at) /\ UNCHANGED buffer
Leave == Write("exit", Closed, 0) /\ UNCHANGED buffer

\* A text with the identifiers at these positions renamed.
RECURSIVE Renamed(_, _, _)
Rewritten(s, at, edits) ==
  LET name(n, i) == IF i \in edits THEN Fresh ELSE n
      nameAt == IF s.kind = "try" THEN at + Before(s, 2) - 1 ELSE at
      valueAt == at + Len(Leading(s)) - Len(s.value)
  IN  [s EXCEPT !.name = IF @ = "" THEN "" ELSE name(@, nameAt),
                !.params = [k \in DOMAIN @ |-> name(@[k], at + k)],
                !.value = [k \in DOMAIN @ |-> [@[k] EXCEPT !.name = name(@, valueAt + k - 1)]],
                !.blocks = [k \in DOMAIN @ |-> Renamed(@[k], at + Before(s, k), edits)]]
Renamed(block, at, edits) == [k \in DOMAIN block |-> Rewritten(block[k], Start(block, at, k), edits)]

\* The editor applies the answer if it has not typed since it asked.
Apply ==
  /\ answer.edits # {} /\ buffer = answer.asked
  /\ Type(Renamed(buffer, 1, answer.edits))

Save(exports) ==
  /\ disk # exports
  /\ disk' = exports
  /\ UNCHANGED <<buffer, inbox, sent, documents, published, answer, alive>>

-----------------------------------------------------------------------------
Init ==
  /\ buffer = Closed /\ inbox = <<>> /\ sent = 0
  /\ disk \in Exports \cup {Unreadable}
  /\ documents = Closed /\ published = "none"
  /\ answer = Nothing /\ alive = TRUE

Next ==
  \/ DidChange \/ DidClose \/ Answer \/ Exit
  \/ buffer = Closed /\ \E text \in Texts : Type(text)
  \/ buffer # Closed /\ \E text \in Retyped : Type(text)
  \/ Close \/ Leave \/ Apply
  \/ buffer = Large /\ Ask(1)
  \/ buffer \notin {Closed, Large} /\ \E at \in DOMAIN Tokens(buffer) : Ask(at)
  \/ \E exports \in Exports \cup {Unreadable} : Save(exports)

Spec == Init /\ [][Next]_vars

-----------------------------------------------------------------------------
(* What the names of a text mean when it runs, told by its structure.      *)

Declared(name, at) == [name |-> name, at |-> at]
Shadowed(declared, names) == {d \in declared : d.name \notin names}

\* The declarations among these statements of a block.
DeclaredBy(block, at, statements) ==
  {Declared(block[k].name, Start(block, at, k)) : k \in {j \in statements : block[j].kind \in Declaring}}

\* The declarations each plain identifier that is a use may stand for, pairs
\* <<use, declarations>>: bound is what is declared so far, pending what the
\* blocks around declare later, late what they may have declared by the time
\* the function the block belongs to is called.
RECURSIVE Meanings(_, _, _, _, _)
MeaningsIn(s, at, bound, later, late) ==
  LET from == at + (IF s.name = "" THEN 0 ELSE 1)
      meant(name) == {d.at : d \in {e \in bound \cup late : e.name = name}}
      uses == {<<from + k - 1, meant(s.value[k].name)>> : k \in {j \in DOMAIN s.value : s.value[j].via = "none"}}
      own(i) == Shadowed(bound, {s.name}) \cup {Declared(s.name, i)}
      nested(block, i, env, open, hidden) ==
        [block |-> block, at |-> i, bound |-> env, pending |-> open, late |-> hidden]
      body(f, i) ==
        nested(f.blocks[1], i + Before(f, 1),
               Shadowed(own(at), Range(f.params)) \cup {Declared(f.params[k], i + k) : k \in DOMAIN f.params},
               {}, Shadowed(late \cup later, {s.name} \cup Range(f.params)))
      inner(k, env, hidden) == nested(s.blocks[k], at + Before(s, k), env, later, Shadowed(late, hidden))
      blocks ==
        CASE s.kind = "function" -> {body(s, at)}
          [] s.kind = "class" ->
               {body(s.blocks[1][k], Start(s.blocks[1], at + Before(s, 1), k)) : k \in DOMAIN s.blocks[1]}
          [] s.kind = "for" -> {inner(1, own(at), {s.name})}
          [] s.kind = "try" -> {inner(1, bound, {}), inner(2, own(at + Before(s, 2) - 1), {s.name})}
          [] OTHER -> {inner(k, bound, {}) : k \in DOMAIN s.blocks}
  IN  uses \cup UNION {Meanings(b.block, b.at, b.bound, b.pending, b.late) : b \in blocks}
Meanings(block, at, bound, pending, late) ==
  LET before(k) == DeclaredBy(block, at, 1 .. k - 1)
      hidden(k) == {d.name : d \in before(k)}
  IN  UNION {MeaningsIn(block[k], Start(block, at, k), Shadowed(bound, hidden(k)) \cup before(k),
                        pending \cup DeclaredBy(block, at, k + 1 .. Len(block)), Shadowed(late, hidden(k))) :
             k \in DOMAIN block}

NamesOf(text) == {token.name : token \in Range(Tokens(text))}
MeaningsOf(text) == Meanings(text, 1, {}, {}, {})

RECURSIVE Statements(_)
Statements(block) ==
  UNION {{block[k]} \cup UNION {Statements(block[k].blocks[i]) : i \in DOMAIN block[k].blocks} : k \in DOMAIN block}

MemberNames(text) == {s.name : s \in {t \in Range(Symbols(text)) : t.member}}

\* The texts in which nothing is confused by its name alone: a use means one
\* declaration; a name of a member has no other declaration, is no variable and
\* is not looked up in a module; the name a catch declares is not in its try
\* branch; a variable is not initialised with another of its own name, and an
\* empty loop does not run over one.
Untangled(text) ==
  LET tokens == Tokens(text)
      symbols == Symbols(text)
      members == MemberNames(text)
  IN  /\ \A use \in MeaningsOf(text) : Cardinality(use[2]) = 1
      /\ \A m \in members : Cardinality({i \in DOMAIN tokens : tokens[i] = Plain(m)}) = 1
      /\ \A i \in DOMAIN tokens :
           tokens[i].via = "chain" /\ tokens[i - 1].name \in Imports(text) => tokens[i].name \notin members
      /\ \A s \in Statements(text) :
           /\ s.kind = "try" => s.name \notin NamesOf(s.blocks[1])
           /\ s.kind = "let" \/ (s.kind = "for" /\ s.blocks[1] = <<>>) =>
                s.name \notin {s.value[k].name : k \in DOMAIN s.value}

\* Which member of the text each identifier after a dot is taken for.
MemberUses(text) ==
  LET tokens == Tokens(text)
      members == MemberNames(text)
  IN  {<<i, {j \in DOMAIN tokens : tokens[j] = Plain(tokens[i].name)}>> :
         i \in {j \in DOMAIN tokens : tokens[j].via # "none" /\ tokens[j].name \in members}}

-----------------------------------------------------------------------------
\* The index, which knows positions and nothing of how a program runs, links
\* each use to the declaration it means ("以同一词法作用域模型提供…",
\* docs/project/archive/DEVELOPMENT_0_3_TO_0_7.md:129).
IndexFollowsMeaning ==
  published = "accepted" /\ answer = Nothing /\ sent = 1 /\ Untangled(documents) =>
    \A links \in {Links(documents)} : \A use \in MeaningsOf(documents) : links[use[1]] \in use[2]

\* A rename that is applied changes no meaning: what runs afterwards is the same
\* program (design/module-qualified-types.md:108).  The server does not look
\* whether the new name is in use; the editor has chosen one that is not.
RenameKeepsMeaning ==
  answer.edits # {} /\ Fresh \notin NamesOf(answer.asked) /\ Untangled(answer.asked) =>
    LET text == answer.asked
        after == Renamed(text, 1, answer.edits)
    IN  /\ Verdict(after) = "accepted"
        /\ MeaningsOf(after) = MeaningsOf(text)
        /\ MemberUses(after) = MemberUses(text)
        /\ \A i \in answer.edits :
             Tokens(text)[i].via = "chain" => Tokens(text)[i - 1].name \notin Imports(text)

\* An answer is about the text its request was about, whatever the editor wrote
\* before and since, and changes identifiers of one name only.
AnswersFit ==
  answer.edits # {} =>
    LET tokens == Tokens(answer.asked)
    IN  /\ Verdict(answer.asked) = "accepted"
        /\ answer.at \in answer.edits
        /\ \A i \in answer.edits : tokens[i].name = tokens[answer.at].name

\* When all is read, the diagnostics shown are those of the text in the editor.
DiagnosticsFollow ==
  alive /\ inbox = <<>> => published = IF buffer = Closed THEN "none" ELSE Verdict(buffer)

AnswersHold == IndexFollowsMeaning /\ RenameKeepsMeaning /\ AnswersFit /\ DiagnosticsFollow

=============================================================================

-------------------------- MODULE MCLanguageServer --------------------------
(***************************************************************************)
(* Families of programs for the language server, and what must be true of  *)
(* what the editor shows, renames and runs.                                *)
(***************************************************************************)
EXTENDS LanguageServer

S == INSTANCE Scoping

-----------------------------------------------------------------------------
(* Programs with holes for names, x and y.  In them a name may be declared *)
(* nowhere, in a scope around, beside or behind its use.                   *)
Fill(parts, names) == FoldLeft(LAMBDA t, i : t \o names[i] \o parts[i + 1], parts[1], [i \in DOMAIN names |-> i])
Filled(parts) == {Fill(parts, names) : names \in [1 .. Len(parts) - 1 -> {"x", "y"}]}

Scopes1 ==
  Filled(<<"let x = 1 fn f(", ") { let ", " = 2 return ", " } print(f(", "))">>)
  \cup Filled(<<"fn f(x) { if x { let ", " = 1 print(", ") } return ", " } f(1)">>)
  \cup Filled(<<"fn f(x) { for ", " in 0 .. x { print(", ") } try { f(", ") } catch y { print(", ") } }">>)
  \cup Filled(<<"fn f() { let x = 1 let g = |", "| => ", " { { let ", " = ", " } } return g }">>)
  \cup Filled(<<"fn f(x) { let y = ", " while x { fn g(x) => ", " print(", ") } }">>)
  \cup Filled(<<"if 1 { let ", " = 1 print(", ") } fn h() { return ", " } let y = 2 h()">>)

Long == {"fn f(x) { let y = x }", "fn f(x) => x print(f(w))"}

(* Two operators of every two levels, and a unary operator.                *)
Binary == {"..", "=", "??", "||", "&&", "==", "<=", "|", "^", "&", "<<", "-", "%"}
Grouped == {"p " \o o \o " q " \o t \o " r" : <<o, t>> \in (Binary \X Binary) \ {<<"..", "..">>}}
             \cup {"p " \o o \o " - q" \o t \o " ~ r" : <<o, t>> \in {"=", "??", "+", "*"} \X {"==", "|", "/", "+"}}

(* Packages that use each other.                                           *)
Packages1 == [name \in {"m", "n"} |->
  IF name = "m" THEN "fn mf() => 1 let mv = 2" ELSE "use \"m\" fn nf() => mf()"]
Used == {"use \"m\" print(mf())", "use \"n\" use \"m\" print(mf() + nf())", "use \"m\" use \"n\" use \"m\" print(nf())",
         "use \"m\" as k print(k.mf())", "use \"m\" as k use \"m\" as l print(l.mv, k.mv)",
         "use \"m\" as l use \"n\" as k print(k.nf)", "use \"o\" print(1)"}

(* Every program is opened, and renamed in, saved or changed once; a few   *)
(* are worked on for longer, next to another file.                         *)
Sessions1 ==
  {[files |-> "a.vn" :> text, messages |-> 2] : text \in Scopes1}
  \cup {[files |-> "a.vn" :> text, messages |-> 1] : text \in Grouped \cup Used}
  \cup {[files |-> "a.vn" :> text @@ "b.vn" :> "let z = 1 print(z)", messages |-> 4] : text \in Long}
TypedTexts1 == {"fn f( { let x", "fn f(x) { let y = 1 }"}

-----------------------------------------------------------------------------
Codes(uri, code) ==
  {editor[uri].shown[i][2] : i \in {j \in DOMAIN editor[uri].shown : editor[uri].shown[j][1] = code}}
PlacesOf(parsed) == S!Places(parsed.n, <<>>)
TreeOf(ed, uri) == Parse(ed[uri].text, Packages)

(* The names that are underlined as unknown are those that no declaration  *)
(* of the text covers: the walk of semantic.c over its stack of scopes     *)
(* finds what lexical scoping says.                                        *)
UnknownNames(uri, places) == Codes(uri, "UNDEF_ID") = S!Unknown(places, Builtins)

(* The locals that are underlined as unused are those whose name is never  *)
(* meant by a use: lint.c finds the same binding for a use as semantic.c.  *)
UnusedNames(uri, places) ==
  Codes(uri, "unused") =
    {d.name : d \in {e \in S!Unused(places, {"variable"}) : S!NodeAt(places, e.at).k # "program"}}

JudgedIn(uri, parsed) ==
  parsed.s.err \/ (UnknownNames(uri, PlacesOf(parsed)) /\ UnusedNames(uri, PlacesOf(parsed)))

(* An underlined name is wrong and a wrong name is underlined, as an       *)
(* unknown name or as an unused one.                                       *)
NamesAreJudged == Quiet => \A uri \in OpenFiles : JudgedIn(uri, TreeOf(editor, uri))

(* A file that `vn run` begins to run never asks the machine for a global  *)
(* that neither it declares nor the system: the analysis before and the    *)
(* resolution of names in the compiler agree on what is a local.           *)
CleanFilesRun ==
  \A uri \in Uris : ran[uri].status = "runs" => ran[uri].reads \subseteq ran[uri].declares \cup Builtins

(* The edits of a rename (the server's of handle_rename, when the editor   *)
(* takes them) leave every name of the text meaning the declaration that   *)
(* it meant, if the new name was not in the text.                          *)
Taken(uri) ==
  /\ Receive /\ Head(outbox).kind = "edits" /\ Head(outbox).uri = uri
  /\ editor'[uri].text # editor[uri].text /\ ~TreeOf(editor, uri).s.err
  /\ Words(editor[uri].text) \cap NewNames = {}
RenameKeepsBindings ==
  [][\A uri \in Uris : Taken(uri) =>
       S!Bindings(PlacesOf(TreeOf(editor', uri))) = S!Bindings(PlacesOf(TreeOf(editor, uri)))]_sessionVars

-----------------------------------------------------------------------------
(* The table of operators of the Varian book, from the one that binds      *)
(* least; assignments alone associate to the right.                        *)
Table == <<{".."}, {"=", "<-"}, {"??"}, {"||"}, {"&&"}, {"==", "!="}, {"<", ">", "<=", ">="}, {"|"},
           {"^"}, {"&"}, {"<<", ">>"}, {"+", "-"}, {"*", "/", "%"}>>
Unary == 14
Rank(n) ==
  CASE n.k = "tuple" -> 1
    [] n.k \in {"assign", "binary"} -> CHOOSE r \in DOMAIN Table : n.v[1] \in Table[r]
    [] n.k = "unary" -> Unary
    [] OTHER -> Unary + 1

WellGrouped(n) ==
  CASE n.k \in {"tuple", "binary"} -> Rank(n.kids[1]) >= Rank(n) /\ Rank(n.kids[2]) > Rank(n)
    [] n.k = "assign" -> Rank(n.kids[1]) > Rank(n) /\ Rank(n.kids[2]) >= Rank(n)
    [] n.k = "unary" -> Rank(n.kids[1]) >= Rank(n)
    [] OTHER -> TRUE

RECURSIVE InOrder(_)
InOrder(n) ==
  CASE n.k = "ident" -> n.v
    [] n.k = "unary" -> n.v \o InOrder(n.kids[1])
    [] n.k = "tuple" -> InOrder(n.kids[1]) \o <<"..">> \o InOrder(n.kids[2])
    [] n.k \in {"assign", "binary"} -> InOrder(n.kids[1]) \o n.v \o InOrder(n.kids[2])

Grouping(tree, tokens) ==
  /\ Len(tree) = 1
  /\ InOrder(tree[1].kids[1]) = [j \in 1 .. Len(tokens) - 1 |-> tokens[j].text]
  /\ \A x \in S!Places(tree[1].kids[1], <<>>) : WellGrouped(x.n)

(* An expression is grouped as the book's table says: its tree has the     *)
(* operands and operators of its text in their order, and there is one     *)
(* such tree whose every operator binds less than those under it.          *)
GroupedByTable ==
  \A i \in DOMAIN docs : docs[i].text \in Grouped =>
    Grouping(Parse(docs[i].text, Packages).n.kids, Lex(docs[i].text))

PackagesAppearOnce(places) ==
    LET named(name) == {x \in places : x.n.k = "fn" /\ x.n.v[1] = name}
        used(name) == {x \in places : x.n.k = "ident" /\ x.n.v[1] = name}
    IN /\ \A name \in {"mf", "nf"} : Cardinality(named(name)) <= 1 /\ (used(name) # {} => named(name) # {})
       /\ \A x \in places : x.n.k = "call" /\ x.n.kids[1].k = "ident" /\ x.n.kids[1].v[1] \in {InitName("m"), InitName("n")}
            => \E y \in named(x.n.kids[1].v[1]) : y.p[1] < x.p[1] \/ (Len(y.p) > 1 /\ y.p[1] = x.p[1])

(* What a package declares is in the tree of a program once, however many  *)
(* packages use it and under however many names, and what fetches a module *)
(* stands behind the function that makes it.                               *)
EachPackageOnce ==
  \A i \in DOMAIN docs : docs[i].text \in Used =>
    LET Once(parsed) == parsed.s.err \/ PackagesAppearOnce(PlacesOf(parsed))
    IN Once(Parse(docs[i].text, Packages))
=============================================================================

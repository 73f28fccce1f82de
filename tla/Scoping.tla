------------------------------ MODULE Scoping ------------------------------
(***************************************************************************)
(* What a name of a program refers to, said without walking the program:   *)
(* a declaration covers a part of the tree, and a use means the innermost  *)
(* declaration of its name that covers it.  Modules Semantic and Lint walk *)
(* the tree with a stack of scopes, as the code does, and must agree.      *)
(*                                                                         *)
(* A place in a tree is a path, the sequence of the numbers of the kids    *)
(* from the root.  The declaration d covers what is under the node d.at,   *)
(* from its kid d.from on.                                                 *)
(***************************************************************************)
EXTENDS Integers, Sequences, FiniteSets, SequencesExt, FiniteSetsExt

RECURSIVE Places(_, _)
Places(n, p) ==
  {[p |-> p, n |-> n]} \cup UNION {Places(n.kids[i], Append(p, i)) : i \in DOMAIN n.kids}

NodeAt(places, p) == (CHOOSE x \in places : x.p = p).n

Statements == {"let", "const", "fn"}

(* Declarations of the whole program are known everywhere in it.           *)
DeclaredBy(places, x) ==
  LET n == x.n
      At(p, from, kind, names) ==
        {[name |-> names[i], at |-> p, from |-> from, kind |-> kind, by |-> x.p, nth |-> i] : i \in DOMAIN names}
      parent == IF x.p = <<>> THEN <<>> ELSE Front(x.p)
      here == NodeAt(places, parent)
      global == here.k = "program"
      own == IF n.k = "fn" THEN 0 ELSE 1
  IN CASE n.k \in {"let", "const"} /\ here.k \in {"block", "program"} ->
            At(parent, IF global THEN 1 ELSE Last(x.p) + 1, "variable", n.v)
       [] n.k = "fn" ->
            At(x.p, 2, "parameter", n.kids[1].v)
            \cup (IF here.k \in {"block", "program"} /\ x.p # <<>>
                  THEN At(parent, IF global THEN 1 ELSE Last(x.p), "function", <<n.v[1]>>) ELSE {})
       [] n.k = "for" -> At(x.p, 2, "loop", n.v)
       [] n.k = "try" /\ n.v # <<"">> -> At(x.p, 2, "caught", n.v)
       [] n.k = "arm" -> At(x.p, 2, "bound", n.v)
       [] n.k \in {"struct", "enum", "actor", "trait"} /\ global -> At(parent, 1, "type", <<n.v[1]>>)
       [] OTHER -> {}

Declarations(places) == UNION {DeclaredBy(places, x) : x \in places}

Uses(places) == {[name |-> x.n.v[1], p |-> x.p] : x \in {y \in places : y.n.k = "ident"}}

Covers(d, use) ==
  /\ d.name = use.name
  /\ Len(d.at) < Len(use.p) /\ SubSeq(use.p, 1, Len(d.at)) = d.at
  /\ use.p[Len(d.at) + 1] >= d.from

(* The innermost scope, and in it the declaration that comes last.         *)
Meant(decls, use) ==
  LET ds == {d \in decls : Covers(d, use)}
      deep == {d \in ds : \A e \in ds : Len(e.at) <= Len(d.at)}
  IN IF ds = {} THEN {} ELSE {CHOOSE d \in deep : \A e \in deep : e.from <= d.from}

Unknown(places, known) ==
  {u.name : u \in {v \in Uses(places) : Meant(Declarations(places), v) = {} /\ v.name \notin known}}

Unused(places, kinds) ==
  LET decls == Declarations(places)
      used == UNION {Meant(decls, u) : u \in Uses(places)}
  IN {d \in decls : d.kind \in kinds /\ d \notin used}

(* What refers to what, whatever the names are.                            *)
Bindings(places) ==
  LET decls == Declarations(places)
  IN {<<u.p, {<<d.by, d.nth>> : d \in Meant(decls, u)}>> : u \in Uses(places)}
=============================================================================

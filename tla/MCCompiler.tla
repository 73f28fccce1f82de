----------------------------- MODULE MCCompiler -----------------------------
(***************************************************************************)
(* Families of programs for TLC.  A program is put together from small     *)
(* pieces of source, two at a time: in the body of a function, in a loop   *)
(* of a function, in a method and at the top level of a script.            *)
(***************************************************************************)
EXTENDS Machine

M == INSTANCE Meaning

-----------------------------------------------------------------------------
(* The syntax tree, one constructor per kind of node.                      *)
None == [k |-> "none"]
Nul == [k |-> "nil"]
I(i) == [k |-> "lit", value |-> IntVal(i)]
Str(s) == [k |-> "lit", value |-> StrVal(s)]
N(x) == [k |-> "name", name |-> x]
Op(o, as) == [k |-> "operator", op |-> o, args |-> as, tag |-> ""]
Tagged(o, t, as) == [k |-> "operator", op |-> o, args |-> as, tag |-> t]
Arr(as) == Op("ARRAY", as)
S(e) == Tagged("STRUCT", "S", <<e>>)
Enum(t, as) == Tagged("ENUM", t, as)
And(a, b) == [k |-> "and", left |-> a, right |-> b]
Or(a, b) == [k |-> "or", left |-> a, right |-> b]
Safe(o, m) == [k |-> "safe", object |-> o, member |-> m]
CallE(f, as) == [k |-> "call", callee |-> f, args |-> as]
Do(o, m, as) == [k |-> "dispatch", object |-> o, method |-> m, args |-> as]
Ask(e) == [k |-> "propagate", expr |-> e]
Expr(e) == [k |-> "expr", expr |-> e]
Show(as) == Expr(CallE(N("print"), as))
ThrowS(e) == Expr(CallE(N("throw"), <<e>>))
Lets(xs, e) == [k |-> "let", names |-> xs, init |-> e]
Let(x, e) == Lets(<<x>>, e)
Set(x, e) == Expr([k |-> "assign", name |-> x, value |-> e])
SetAt(o, i, e) == Expr([k |-> "assignindex", object |-> o, index |-> i, value |-> e])
FnNode(name, ps, body, returns) ==
  [k |-> "fn", name |-> name, params |-> ps, body |-> body, module |-> FALSE,
   returns |-> returns, impl |-> ""]
Fn(name, ps, body) == FnNode(name, ps, body, 1)
Lam(ps, body) == Fn(Lambda, ps, body)
Method(name, ps, body) == [Fn(name, <<"self">> \o ps, body) EXCEPT !.impl = "S"]
Module(body) == [Lam(<<>>, body) EXCEPT !.module = TRUE]
Ret(es) == [k |-> "return", values |-> es]
Block(ss) == [k |-> "block", stmts |-> ss]
If(c, a, b) == [k |-> "if", cond |-> c, then |-> Block(a), else |-> b]
While(c, b) == [k |-> "while", cond |-> c, body |-> Block(b)]
LoopS(b) == [k |-> "loop", body |-> Block(b)]
For(x, a, b, body) == [k |-> "for", var |-> x, from |-> a, to |-> b, body |-> Block(body)]
ForIn(x, a, body) == [k |-> "forin", var |-> x, array |-> a, body |-> Block(body)]
Break == [k |-> "break"]
Continue == [k |-> "continue"]
Arm(p, e) == [pattern |-> p, binds |-> <<>>, body |-> e]
ArmOf(t, xs, e) == [pattern |-> [tag |-> t], binds |-> xs, body |-> e]
Match(v, as) == [k |-> "match", value |-> v, arms |-> as]
Attempt(b, x, c) == [k |-> "try", body |-> Block(b), var |-> x, catch |-> c]
Add(a, b) == Op("ADD", <<a, b>>)
Eq(a, b) == Op("EQUAL", <<a, b>>)
Less(a, b) == Op("LESS", <<a, b>>)

-----------------------------------------------------------------------------
(* The pieces: each reads the variable x.                                  *)
X == N("x")
Pieces == <<
  (* 1 *) <<Let("a", Add(X, I(1))), Let("a", Add(N("a"), N("a"))), Show(<<N("a"), X>>)>>,
  (* 2 *) <<Let("b", I(5)), Block(<<Let("b", I(6)), Set("b", Add(N("b"), X))>>), Show(<<N("b")>>)>>,
  (* 3 *) <<If(X, <<Show(<<I(1)>>)>>, Block(<<Show(<<I(2)>>)>>)),
            If(Op("NOT", <<X>>), <<Let("_", X)>>, None)>>,
  (* 4 *) <<While(Less(X, I(3)), <<Let("t", X), Set("x", Add(N("t"), I(1))),
                                     If(Eq(X, I(2)), <<Break>>, None)>>)>>,
  (* 5 *) <<For("i", I(0), I(3), <<Let("u", N("i")), If(Eq(N("u"), X), <<Continue>>, None),
                                       Show(<<N("i")>>)>>)>>,
  (* 6 *) <<ForIn("e", Arr(<<X, I(7)>>), <<If(Eq(N("e"), I(2)), <<Break>>, None), Show(<<N("e")>>)>>)>>,
  (* 7 *) <<Let("g", Lam(<<"z">>, <<Ret(<<Add(X, N("z"))>>)>>)), Set("x", Add(X, I(1))),
            Show(<<CallE(N("g"), <<I(1)>>)>>)>>,
  (* 8 *) <<Let("n", I(0)),
            Let("c", Lam(<<>>, <<Set("n", Add(N("n"), X)), Ret(<<N("n")>>)>>)),
            Expr(CallE(N("c"), <<>>)), Show(<<CallE(N("c"), <<>>), N("n")>>)>>,
  (* 9 *) <<Attempt(<<Let("q", Op("DIV", <<I(4), X>>)), Show(<<N("q")>>)>>, "m",
                    Block(<<Show(<<N("m")>>)>>))>>,
  (* 10 *) <<Attempt(<<Attempt(<<ThrowS(X)>>, "m", Block(<<ThrowS(Add(N("m"), I(1)))>>))>>, "p",
                     Block(<<Let("r", N("p")), Show(<<N("r")>>)>>))>>,
  (* 11 *) <<Show(<<And(X, I(3)), Or(X, I(4)), Op("NIL_COALESCE", <<Nul, X>>)>>),
             Show(<<Op("MOD", <<Op("NEGATE", <<I(3)>>), Add(X, I(1))>>), Op("MUL", <<X, I(2)>>),
                    Op("GREATER_EQUAL", <<X, I(1)>>), Op("NOT_EQUAL", <<X, I(1)>>)>>)>>,
  (* 12 *) <<Let("s", S(X)), Show(<<Safe(N("s"), "v"), Safe(N("s"), "w"), Safe(Nul, "v")>>),
             Show(<<Do(N("s"), "plus", <<I(3)>>)>>)>>,
  (* 13 *) <<Let("l", Arr(<<X>>)), SetAt(N("l"), I(2), I(8)),
             Show(<<Op("INDEX", <<N("l"), I(1)>>), Op("INDEX", <<N("l"), I(2)>>),
                     Do(N("l"), "len", <<>>)>>)>>,
  (* 14 *) <<LoopS(<<Set("x", Add(X, I(1))), If(Less(I(3), X), <<Break>>, None)>>), Show(<<X>>)>>,
  (* 15 *) <<Let("k", Lam(<<>>, <<Ret(<<Lam(<<>>, <<Ret(<<X>>)>>)>>)>>)),
             Show(<<CallE(CallE(N("k"), <<>>), <<>>)>>)>>,
  (* 16 *) <<Show(<<CallE(N("orNil"), <<Nul>>), CallE(N("orNil"), <<X>>)>>)>>,
  (* 17 *) <<Attempt(<<Expr(CallE(N("orNil"), <<>>))>>, "", Block(<<Show(<<Str("caught")>>)>>)),
             Attempt(<<Expr(CallE(X, <<>>))>>, "", None)>>,
  (* 18 *) <<Attempt(<<Show(<<Op("INDEX", <<Arr(<<I(0)>>), X>>)>>)>>, "o", Block(<<Show(<<N("o")>>)>>)),
             Attempt(<<Show(<<Do(X, "plus", <<>>)>>)>>, "o", Block(<<Show(<<N("o")>>)>>))>>,
  (* 19 *) <<Let("w", S(Lam(<<"y">>, <<Ret(<<N("y")>>)>>))), Show(<<Do(N("w"), "v", <<X>>)>>)>>,
  (* 20 *) <<Show(<<Do(S(X), "kind", <<>>), Do(S(Nul), "kind", <<>>)>>)>>,
  (* 21 *) <<Let("d", Arr(<<X>>)), Show(<<Eq(N("d"), N("d")), Eq(Enum("A", <<X>>), Enum("A", <<I(1)>>)),
                                         Add(Str("no "), X), Add(N("d"), Str("!"))>>),
             Attempt(<<Show(<<Op("NEGATE", <<Eq(X, I(1))>>)>>)>>, "j", Block(<<Show(<<N("j")>>)>>))>>
>>

(* What every program declares first.  The method kind() has a `match`.    *)
Prelude == <<
  Fn("orNil", <<"y">>, <<Ret(<<Ask(N("y"))>>)>>),
  FnNode("two", <<"y">>, <<Ret(<<N("y"), Add(N("y"), I(1))>>)>>, 2),
  Fn("none", <<>>, <<>>),
  Method("plus", <<"y">>, <<Ret(<<Add(Safe(N("self"), "v"), N("y"))>>)>>),
  Method("kind", <<>>, <<Ret(<<Match(Safe(N("self"), "v"),
           <<Arm(I(0), Str("zero")), Arm(I(1), Str("one")), Arm(I(2), Str("two"))>>)>>)>>) >>

(* At the top level a let of two names, a match on an enum, and a module.  *)
Coda(v) == <<
  Lets(<<"first", "second">>, CallE(N("two"), <<I(4)>>)), Show(<<N("first"), N("second")>>),
  Let("m", Match(v, <<ArmOf("A", <<"p", "q">>, Add(N("p"), N("q"))), Arm(I(3), Str("three"))>>)),
  Show(<<N("m")>>),
  Let("mod", CallE(Module(<<Let("h", I(1)),
                            Fn("even", <<"y">>, <<Ret(<<Add(N("y"), N("base"))>>)>>),
                            Let("base", I(10)),
                            Ret(<<S(N("even"))>>)>>), <<>>)),
  Show(<<Do(N("mod"), "v", <<I(2)>>), CallE(N("none"), <<>>)>>) >>

InFunction(body) ==
  <<Fn("f", <<"x">>, body \o <<If(Eq(X, I(3)), <<Ret(<<I(9)>>)>>, None), Ret(<<X>>)>>)>>
  \o [i \in 1 .. 3 |-> Show(<<CallE(N("f"), <<I(i - 1)>>)>>)]

InMethod(body) ==
  <<Method("run", <<"x">>, body \o <<Ret(<<Do(N("self"), "kind", <<>>)>>)>>)>>
  \o [i \in 1 .. 2 |-> Show(<<Do(S(I(i)), "run", <<I(i)>>)>>)]

InLoop(body) ==
  <<Fn("f", <<"x">>, <<Let("rounds", I(0)),
                       While(Less(N("rounds"), I(2)),
                             body \o <<Set("rounds", Add(N("rounds"), I(1)))>>)>>),
    Show(<<CallE(N("f"), <<I(1)>>)>>)>>

(* A `for`, and a name that one scope declares twice, leave cells behind   *)
(* in every round of a loop around them: they are left out of loops.       *)
Leaky == {1, 5, 6}

Programs1 ==
  [p \in {"function"} \X (1 .. Len(Pieces)) \X {1, 2, 5, 8, 10, 16, 18}
         \cup {"method", "top"} \X (1 .. Len(Pieces)) \X {1, 8}
         \cup {"loop"} \X ((1 .. Len(Pieces)) \ Leaky) \X {9, 11} |->
     LET body == Pieces[p[2]] \o Pieces[p[3]]
     IN Prelude \o
        CASE p[1] = "function" -> InFunction(body)
          [] p[1] = "method"   -> InMethod(body)
          [] p[1] = "loop"     -> InLoop(body)
          [] p[1] = "top"      -> <<Let("x", I(1))>> \o body
                                  \o Coda(IF p[3] = 1 THEN Enum("A", <<I(1), I(2)>>) ELSE I(3))]

-----------------------------------------------------------------------------
(* A program prints what its source means, from the first line to the      *)
(* last, and ends as its source ends: no local is lost or mistaken for     *)
(* another, whatever the compiler made of scopes, loops, closures,         *)
(* handlers and early returns.                                             *)
SourceMeaning ==
  vm.status \in {"done", "error"} =>
    LET meant == M!MeaningOf(Programs[prog])
    IN vm.out = meant.out /\ vm.status = meant.end
=============================================================================

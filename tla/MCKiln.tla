------------------------------- MODULE MCKiln -------------------------------
(***************************************************************************)
(* Families of programs for the release compiler, and what its analyses    *)
(* and the native functions must keep of what a program means.             *)
(***************************************************************************)
EXTENDS Kiln

M == INSTANCE Meaning WITH FramesMax <- MaxFrames, TriesMax <- 8

-----------------------------------------------------------------------------
(* Pieces of the body of a function of two integers, x and y, each with    *)
(* the functions that it calls.                                            *)
Fib == "fn g(n: int) { if n < 2 { return n } return g(n - 1) + g(n - 2) } "
Pieces == <<
  <<"if x < y { let t = x x = y y = t } else { x = x - y }", "">>,
  <<"let i = 0 while i < 3 { let t = x x = y y = t + i i = i + 1 }", "">>,
  <<"for i in x .. 3 { if i == y { y = y * 2 } else { x = x + i } }", "">>,
  <<"loop { x = x + 1 if x > 3 { break } if y > 9 { continue } y = y + x }", "">>,
  <<"let a = x < 2 && y let b = !a || x == y if b { x = 7 }", "">>,
  <<"y = y / x - -x % 3", "">>,
  <<"x = g(x) + g(y - 1)", Fib>>,
  <<"y = h(x, y == 2)", "fn h(n: int, b: bool) { if b { return 4 } return n } ">>,
  <<"let w = 2.5 * y w = w + x if x == 3 { return w } else { return 1.5 }", "">>,
  <<"if !x { return y }", "">>,
  <<"while y < 3 { let j = 0 while j < y { j = j + 1 if j == x { continue } x = x - j } y = y + 1 }", "">>,
  <<"{{ let x = y + 1 y = x } x = x + y", "">>,
  <<"for i in 0 .. y { for j in i .. 2 { x = x + j } }", "">>,
  <<"let l = [y, \"b\"] let r = x if x { r = l[1] } return r", "">>,
  <<"if x > 0 { if y > 0 { x = x * 2 } y = y - x } else { y = x }", "">>,
  <<"let c = \"s\" if y { c = \"t\" } y = u(c)", "fn u(c: string) { return 6 } ">>,
  <<"y = v(x) + v(1)", "fn v(n: int) { let l = [n] return 4 } ">> >>

Scalars ==
  {[text |-> Pieces[p][2] \o (IF p = q THEN "" ELSE Pieces[q][2])
             \o "fn f(x: int, y: int) { " \o Pieces[p][1] \o " " \o Pieces[q][1] \o " return x + y }",
    prelude |-> 0,
    calls |-> {<<"f", <<V!IntVal(0), V!IntVal(2)>> >>, <<"f", <<V!IntVal(2), V!IntVal(1)>> >>,
               <<"f", <<V!IntVal(3), V!BoolVal(TRUE)>> >>}] :
     <<p, q>> \in ((1 .. Len(Pieces)) \X {1, 2, 3, 6, 7, 11, 14, 16}) \ {<<2, 2>>, <<14, 14>>, <<16, 16>>}}

(* Calls that are too deep, for native functions and for boxed ones.       *)
Deep ==
  {[text |-> "fn g(n: int) { if n < 1 { return 0 } return g(n - 1) + 1 }", prelude |-> 0,
    calls |-> {<<"g", <<V!IntVal(n)>> >> : n \in {1, MaxFrames - 4, MaxFrames + 2}}]}

(* Functions of the prelude, a, b and c, that each other and a program use *)
(* in several ways.                                                        *)
Bodies == {"() => 1", "() => b()", "() { return |x| => c() }", "() { if 1 { fn d() => c() return d() } }",
           "() { let c = b return c() }"}
Uses == {"print(a())", "let f = b print(f())", "struct S { v } impl S { fn m(self) => a() } print(S { v: 1 }.m())",
         "if 1 { fn e() => a() print(e()) }", "fn e(a) => a print(e(c()))", "print(1)"}
Preludes ==
  {[text |-> "fn a" \o p \o " fn b" \o q \o " fn c() => 3 " \o use, prelude |-> 3, calls |-> {}] :
     <<p, q, use>> \in Bodies \X (Bodies \ {"() => b()", "() { let c = b return c() }"}) \X Uses}

(* Functions that suspend by themselves or through what they call.         *)
Does == {"x = 1", "await x", "x <- 1", "x.go()", "len(x)", "x = |y| => len(y)", "x()()", "x = puts(x)"}
Suspending ==
  {[text |-> "@ffi(\"c\", \"p\") fn puts(s: int) fn f(x) { " \o d \o " } fn g(x) { f(x) h(x) } "
             \o "fn h(x) { if x { g(1) } } fn k(x) => " \o c, prelude |-> 0, calls |-> {}] :
     <<d, c>> \in Does \X {"h(2)", "f", "k(x)", "str(x)"}}

(* Values that stay in a function, and values that leave it.               *)
Uses2 == {"", "return s", "return t", "s.v = t return s", "t.v = 1", "k(s)", "return |z| => s",
          "fn j() => t", "let l = [x] l[0] = s return l", "let l = [s] l[0] = 1"}
Allocating ==
  {[text |-> "struct S { v } fn k(p) => 1 fn f(x) { let s = S { v: x } let t = s " \o change \o " " \o use \o " }",
    prelude |-> 0, calls |-> {}] :
     <<change, use>> \in {"", "t = S { v: 1 }", "if x { t = S { v: 1 } }", "while x { t = [x] x = x - 1 }"} \X Uses2}

Programs1 == Scalars \cup Deep \cup Preludes \cup Suspending \cup Allocating

-----------------------------------------------------------------------------
(* What is left of the prelude does with the program what all of it does:  *)
(* no function that pruning dropped is ever asked for.                     *)
PruneKeepsMeaning ==
  phase = "suspend" /\ prog.prelude > 0 =>
    M!MeaningOf(T!BuiltAll(stmts)) = M!MeaningOf(T!BuiltAll(S!Parse(prog.text, [x \in {} |-> ""]).n.kids))

-----------------------------------------------------------------------------
(* The nodes that run when a function runs.                                *)
RECURSIVE Nodes(_)
Nodes(n) == IF n.k = "fn" THEN {} ELSE {n} \cup UNION {Nodes(n.kids[i]) : i \in DOMAIN n.kids}
CallsOf(f) == {n \in Nodes(fns[f].kids[2]) : n.k = "call"}
Callees(f) == {g \in DOMAIN fns : \E n \in CallsOf(f) : n.kids[1].k = "ident" /\ n.kids[1].v[1] = fns[g].v[1]}
SuspendsItself(f) ==
  \/ \E n \in Nodes(fns[f].kids[2]) : n.k \in {"await", "send", "receive", "dispatch"}
  \/ \E n \in CallsOf(f) :
       \/ n.kids[1].k # "ident"
       \/ n.kids[1].v[1] \notin ForeignNames \cup {fns[g].v[1] : g \in DOMAIN fns}
RECURSIVE Reached(_)
Reached(F) ==
  LET more == F \cup UNION {Callees(f) : f \in F} IN IF more = F THEN F ELSE Reached(more)

(* The functions that are compiled to run without ever giving up the       *)
(* processor are those from which no call leads, through whatever cycles   *)
(* of calls, to something that may suspend.                                *)
SuspendsExactly ==
  phase = "types" => \A f \in DOMAIN fns : marks[f] <=> \E g \in Reached({f}) : SuspendsItself(g)

-----------------------------------------------------------------------------
(* Where the value v of f goes: into phis, and into what it is stored in.  *)
RECURSIVE Flow(_, _)
Flow(f, R) ==
  LET all == ToSet(AllInstrs(f))
      into == {ins.res : ins \in {x \in all : x.op \in {"PHI", "ALLOC_STRUCT", "ALLOC_ARRAY"} /\ Args(f, x) \cap R # {}}}
              \cup {Of(f, ins.args[1]) : ins \in {x \in all : x.op \in {"FIELD_SET", "INDEX_SET"}
                                                             /\ Of(f, Last(x.args)) \in R}}
  IN IF into \subseteq R THEN R ELSE Flow(f, R \cup into)

(* A value that may live in the frame of its function is never handed to   *)
(* anything outside: not by a return, by a call or a closure, not as a part   *)
(* of what is handed out, and not to what came from outside.               *)
StackMeansLocal ==
  phase = "plan" => \A f \in DOMAIN fns :
    LET all == ToSet(AllInstrs(f))
    IN \A alloc \in {x \in all : x.op \in {"ALLOC_STRUCT", "ALLOC_ARRAY", "ALLOC_TUPLE"}} :
         alloc.res \notin escaping[f] =>
           LET R == Flow(f, {alloc.res})
           IN \A ins \in all : ins.op \in Leaves \cup {"PARAM"} => (Args(f, ins) \cup {ins.res}) \cap R = {}

-----------------------------------------------------------------------------
Arguments(args) == [i \in DOMAIN args |-> T!Lit(args[i])]
CallOf(c) == [k |-> "call", callee |-> [k |-> "name", name |-> c[1]], args |-> Arguments(c[2])]
Program == T!BuiltAll(stmts)
Meant == M!Run(M!Fresh, Append(Program, T!Expression(CallOf(call))))

(* A native function gives what its source means: the same value, or an    *)
(* error where the source has one.                                         *)
NativeAgrees ==
  phase = "done" => LET s == Meant
                    IN IF M!Going(s) THEN result = <<"value", s.val>> ELSE result = <<"error">>

Has(v, t) ==
  CASE t = "string" -> v[1] = "str"
    [] t \in Scalar -> v[1] = t
    [] OTHER -> v[1] = "struct" /\ t = StructType(v[2])

(* Every direct call of the program passes what the parameters declare.    *)
CallsAsDeclared ==
  \A f \in DOMAIN fns : \A ins \in {x \in ToSet(AllInstrs(f)) : x.op = "CALL_DIRECT"} :
    LET g == ins.lit[2]
    IN Len(ins.args) = Arity(g) /\ \A i \in DOMAIN ins.args : TypeOf(types, f, ins.args[i]) = nat_param_type(g, i)

(* A function called with arguments of the declared types returns a value  *)
(* of the type that was inferred for it.                                   *)
ReturnsAsInferred ==
  phase \in {"boxed", "done"} =>
    LET f == Called(call)
        t == ssa_function_return_type(types, f)
        s == Meant
    IN (IsBuilt(f) /\ Guarded(f, call[2]) /\ CallsAsDeclared /\ t # "unknown" /\ M!Going(s)) => Has(s.val, t)
=============================================================================

------------------------------ MODULE Meaning -------------------------------
(***************************************************************************)
(* What a Varian program means, straight from its syntax tree and without  *)
(* a stack: names are lexical, a closure copies what it sees when it is    *)
(* made, the value of a `match` is evaluated once and its first fitting    *)
(* arm is taken, `?` returns nil from the function, the names of a `let`   *)
(* are bound in order, and a block forgets what it declared.               *)
(*                                                                         *)
(* The state s of an evaluation carries everything: the locals in scope,   *)
(* the closure that runs, globals, methods, arrays, closures, what was     *)
(* printed, the value of the last expression (a sequence for a `return` of *)
(* several) and ctl, why the evaluation does not just go on.               *)
(***************************************************************************)
EXTENDS Values

CONSTANTS FramesMax, TriesMax

-----------------------------------------------------------------------------
Fresh == [vars |-> <<>>, depth |-> 0, clo |-> 0, infn |-> FALSE, calls |-> 1, tries |-> 0,
          globals |-> [x \in {"print", "throw"} |-> NativeVal(x)], methods |-> NoNames,
          arrays |-> <<>>, closures |-> <<>>, out |-> <<>>, val |-> NilVal, ctl |-> ""]

Going(s) == s.ctl = ""
Give(s, v) == [s EXCEPT !.val = v]
Leave(s, why) == [s EXCEPT !.ctl = why]
Throw(s, v) == [s EXCEPT !.ctl = "throw", !.val = v]
Raise(s, message) == Throw(s, StrVal(message))

FindVar(s, name) ==
  LET S == {i \in DOMAIN s.vars : s.vars[i].name = name} IN IF S = {} THEN 0 ELSE Max(S)

Captured(s) == IF s.clo = 0 THEN NoNames ELSE s.closures[s.clo].captured
Seen(s) == [x \in {s.vars[i].name : i \in DOMAIN s.vars} |-> s.vars[FindVar(s, x)].val]
           @@ Captured(s)

Read(s, name) ==
  CASE FindVar(s, name) > 0                -> Give(s, s.vars[FindVar(s, name)].val)
    [] FindVar(s, name) = 0 /\ name \in DOMAIN Captured(s) -> Give(s, Captured(s)[name])
    [] name \notin DOMAIN Seen(s) /\ name \in DOMAIN s.globals -> Give(s, s.globals[name])
    [] OTHER                               -> Leave(s, "error")

Write(s, name) ==
  CASE FindVar(s, name) > 0                -> [s EXCEPT !.vars[FindVar(s, name)].val = s.val]
    [] FindVar(s, name) = 0 /\ name \in DOMAIN Captured(s) ->
         [s EXCEPT !.closures[s.clo].captured[name] = s.val]
    [] name \notin DOMAIN Seen(s) /\ name \in DOMAIN s.globals -> [s EXCEPT !.globals[name] = s.val]
    [] OTHER                               -> Leave(s, "error")

NewVarOf(s, name, v) == [s EXCEPT !.vars = Append(@, [name |-> name, val |-> v, depth |-> s.depth])]
DefineOf(s, name, v) == [s EXCEPT !.globals = (name :> v) @@ @]
KeepVar(s, name, v) == IF s.depth > 0 THEN NewVarOf(s, name, v) ELSE DefineOf(s, name, v)

Bound(s, name, v) ==
  LET j == FindVar(s, name)
  IN CASE name = Discard -> s
       [] name # Discard /\ ~s.infn -> DefineOf(s, name, v)
       [] name # Discard /\ s.infn  -> IF j > 0 /\ s.vars[j].depth >= s.depth
                                       THEN [s EXCEPT !.vars[j].val = v]
                                       ELSE NewVarOf(s, name, v)

BoundAll(s, names, vs) ==
  FoldLeft(LAMBDA t, i : Bound(t, names[i], vs[i]), s, [i \in DOMAIN names |-> i])

(* Back in the scope of t: what s did to the variables of t stays.         *)
Outer(s, t) == [s EXCEPT !.vars = SubSeq(@, 1, Len(t.vars)), !.depth = t.depth]

-----------------------------------------------------------------------------
RECURSIVE Eval(_, _), EvalAll(_, _, _), Run(_, _), Rounds(_, _), RoundsOf(_, _, _, _), FirstArm(_, _, _, _)

(* The operands from left to right; s.val is the sequence of their values. *)
EvalAll(s, nodes, vs) ==
  LET t == Eval(s, Head(nodes))
  IN IF nodes = <<>> THEN Give(s, vs)
     ELSE IF Going(t) THEN EvalAll(t, Tail(nodes), Append(vs, t.val)) ELSE t

Run(s, nodes) ==
  LET t == Eval(s, Head(nodes))
  IN IF nodes = <<>> \/ ~Going(s) THEN s ELSE Run(t, Tail(nodes))

Apply(s, n, vs) ==
  CASE n.op \in Binaries -> Give(s, Binary(n.op, vs[1], vs[2]))
    [] n.op = "DIV"    -> IF vs[2] = IntVal(0) THEN Raise(s, "Division by zero")
                          ELSE Give(s, IF vs[1][1] = "int" /\ vs[2][1] = "int"
                                       THEN IntVal(Quotient(vs[1][2], vs[2][2])) ELSE FloatVal)
    [] n.op = "MOD"    -> IF vs[2] = IntVal(0) THEN Raise(s, "Division by zero")
                          ELSE Give(s, IntVal(Remainder(vs[1][2], vs[2][2])))
    [] n.op = "NEGATE" -> IF IsNumber(vs[1]) THEN Give(s, Negated(vs[1]))
                          ELSE Raise(s, "Operand must be a number")
    [] n.op = "NOT"    -> Give(s, BoolVal(~Truthy(vs[1])))
    [] n.op = "ARRAY"  -> Give([s EXCEPT !.arrays = Append(@, vs)], ArrVal(Len(s.arrays) + 1))
    [] n.op = "STRUCT" -> Give(s, StructVal(n.tag, vs[1]))
    [] n.op = "ENUM"   -> Give(s, EnumVal(n.tag, vs))
    [] n.op = "INDEX"  ->
         IF vs[1][1] # "array" \/ vs[2][1] # "int" THEN Raise(s, "not indexable")
         ELSE IF vs[2][2] < 0 \/ vs[2][2] >= Len(s.arrays[vs[1][2]]) THEN Raise(s, "out of bounds")
              ELSE Give(s, s.arrays[vs[1][2]][vs[2][2] + 1])

(* A call: the body sees the parameters and what the closure captured.     *)
Invoke(s, f, clo, vs) ==
  LET n == f.node
      early == IF n.module THEN FlattenSeq([i \in DOMAIN n.body |-> HoistedNames(n.body[i])]) ELSE <<>>
      names == n.params \o early
      t == [s EXCEPT !.vars = [i \in DOMAIN names |->
                                 [name |-> names[i], depth |-> 1,
                                  val |-> IF i <= Len(vs) THEN vs[i] ELSE NilVal]],
                     !.depth = 1, !.clo = clo, !.infn = TRUE, !.calls = @ + 1]
      u == Run(t, n.body)
      nils == [i \in 1 .. n.returns |-> NilVal]
      final == Seen(u)
      v == IF ~n.module THEN u
           ELSE [u EXCEPT !.closures = [c \in DOMAIN @ |->
                   IF @[c].within # n THEN @[c]
                   ELSE [@[c] EXCEPT !.captured = [x \in DOMAIN @ |-> final[x]]]]]
      back == [v EXCEPT !.vars = s.vars, !.depth = s.depth, !.clo = s.clo, !.infn = s.infn,
                        !.calls = s.calls, !.tries = s.tries]
  IN CASE Len(n.params) # Len(vs)  -> Raise(s, "arity")
       [] Len(n.params) = Len(vs) /\ s.calls >= FramesMax -> Leave(s, "error")
       [] Len(n.params) = Len(vs) /\ s.calls < FramesMax ->
            CASE u.ctl = "return" -> Leave(back, "")
              [] u.ctl = ""       -> Give(back, IF n.returns = 1 THEN NilVal ELSE nils)
              [] OTHER            -> back

CallValue(s, callee, vs) ==
  CASE callee = NativeVal("print") ->
         Give([s EXCEPT !.out = Append(@, [i \in DOMAIN vs |-> Shown(vs[i])])], NilVal)
    [] callee = NativeVal("throw") -> Throw(s, NilVal)
    [] callee[1] = "closure"       -> Invoke(s, s.closures[callee[2]], callee[2], vs)
    [] OTHER                       -> Raise(s, "can only call functions")

EvalCall(s, n) ==
  LET c == Eval(s, n.callee)
      a == EvalAll(c, n.args, <<>>)
  IN IF ~Going(c) THEN c ELSE IF ~Going(a) THEN a
     ELSE IF c.val = NativeVal("throw") THEN Throw(a, a.val[1]) ELSE CallValue(a, c.val, a.val)

EvalDispatch(s, n) ==
  LET all == EvalAll(s, <<n.object>> \o n.args, <<>>)
      o == all.val[1]
  IN IF ~Going(all) THEN all
     ELSE CASE o[1] = "array" /\ n.method = "len" -> Give(all, IntVal(Len(all.arrays[o[2]])))
            [] o[1] = "struct" /\ <<o[2], n.method>> \in DOMAIN all.methods ->
                 CallValue(all, all.methods[<<o[2], n.method>>], all.val)
            [] o[1] = "struct" /\ <<o[2], n.method>> \notin DOMAIN all.methods
               /\ n.method = "v" /\ o[3][1] = "closure" -> CallValue(all, o[3], Tail(all.val))
            [] OTHER -> Raise(all, "no method")

(* Every function is a closure here.                                       *)
EvalFn(s, n) ==
  LET c == CloVal(Len(s.closures) + 1)
      (* the names of a module are known to all its functions *)
      names == Seen(s)
      t == [s EXCEPT !.closures = Append(@, [node |-> n, captured |-> names,
               within |-> IF s.clo # 0 THEN s.closures[s.clo].node ELSE [k |-> "none"]]),
                     !.methods = IF n.impl = "" THEN @ ELSE (<<n.impl, n.name>> :> c) @@ @]
  IN IF n.name = Lambda THEN Give(t, c) ELSE Bound(t, n.name, c)

-----------------------------------------------------------------------------
(* Control.                                                                *)

EvalIf(s, n) ==
  LET c == Eval(s, n.cond)
  IN IF ~Going(c) THEN c
     ELSE IF Truthy(c.val) THEN Eval(c, n.then)
          ELSE IF n.else.k = "none" THEN c ELSE Eval(c, n.else)

Next1(s) == IF s.ctl \in {"continue", ""} THEN [s EXCEPT !.ctl = ""] ELSE s
AfterLoop(s) == IF s.ctl = "break" THEN [s EXCEPT !.ctl = ""] ELSE s

(* The rounds of a `while` or a `loop`.                                    *)
Rounds(s, n) ==
  LET c == IF n.k = "loop" THEN Give(s, BoolVal(TRUE)) ELSE Eval(s, n.cond)
      b == Next1(Outer(Eval(c, n.body), s))
  IN IF ~Going(c) THEN c
     ELSE IF ~Truthy(c.val) THEN c
          ELSE IF Going(b) THEN Rounds(b, n) ELSE AfterLoop(b)

(* The rounds of a `for`: of a range the variable itself counts, of an     *)
(* array it holds the element at i.                                        *)
RoundsOf(s, n, i, end) ==
  LET arr == Read(s, "__arr__").val
      set == IF n.k = "for" THEN s
             ELSE Write(Give(s, s.arrays[arr[2]][i + 1]), n.var)
      b == Next1(Outer(Eval(set, n.body), s))
      count == Read(b, n.var).val[2] + 1
      up == Write(Give(b, IntVal(count)), n.var)
  IN IF i >= end THEN s
     ELSE IF ~Going(b) THEN AfterLoop(b)
          ELSE IF n.k = "for" THEN RoundsOf(up, n, count, end) ELSE RoundsOf(b, n, i + 1, end)

EvalFor(s, n) ==
  LET a == Eval(s, n.from)
      b == Eval(KeepVar(a, n.var, a.val), n.to)
  IN IF ~Going(a) THEN a ELSE IF ~Going(b) THEN b
     ELSE Outer(RoundsOf(b, n, a.val[2], b.val[2]), s)

EvalForIn(s, n) ==
  LET a == Eval(s, n.array)
      b == KeepVar(KeepVar(a, "__arr__", a.val), n.var, NilVal)
  IN IF ~Going(a) THEN a
     ELSE IF a.val[1] # "array" THEN Raise(a, "no method")
          ELSE Outer(RoundsOf(b, n, 0, Len(a.arrays[a.val[2]])), s)

Fits(s, arm, v) ==
  IF arm.binds = <<>> THEN Eval(s, arm.pattern).val = v
  ELSE v[1] = "enum" /\ v[2] = arm.pattern.tag

FirstArm(s, n, v, i) ==
  LET arm == n.arms[i]
      (* the parts of the enum, in the order of the names *)
      part(t, j) == KeepVar(t, arm.binds[j], v[3][j])
      t == IF arm.binds = <<>> THEN s ELSE FoldLeft(part, s, [j \in DOMAIN arm.binds |-> j])
  IN IF i > Len(n.arms) THEN Give(s, NilVal)
     ELSE IF Fits(s, arm, v) THEN Outer(Eval(t, arm.body), s) ELSE FirstArm(s, n, v, i + 1)

EvalMatch(s, n) ==
  LET a == Eval(s, n.value) IN IF Going(a) THEN FirstArm(a, n, a.val, 1) ELSE a

EvalTry(s, n) ==
  LET b == Eval([s EXCEPT !.tries = @ + 1], n.body)
      calm == [Outer(b, s) EXCEPT !.ctl = "", !.tries = s.tries]
      t == IF n.var = "" THEN calm
           ELSE IF s.infn THEN NewVarOf(calm, n.var, b.val) ELSE DefineOf(calm, n.var, b.val)
  IN IF s.tries >= TriesMax THEN Leave(s, "error")
     ELSE IF b.ctl # "throw" THEN [b EXCEPT !.tries = s.tries]
          ELSE IF n.catch.k = "none" THEN calm ELSE Outer(Eval(t, n.catch), s)

EvalReturn(s, n) ==
  LET all == EvalAll(s, n.values, <<>>)
  IN IF ~Going(all) THEN all
     ELSE Leave(Give(all, CASE n.values = <<>> -> NilVal
                            [] Len(n.values) = 1 -> all.val[1]
                            [] Len(n.values) > 1 -> all.val), "return")

Eval(s, n) ==
  CASE n.k = "lit"    -> Give(s, n.value)
    [] n.k = "nil"    -> Give(s, NilVal)
    [] n.k = "name"   -> Read(s, n.name)
    [] n.k = "operator" ->
         LET a == EvalAll(s, n.args, <<>>) IN IF Going(a) THEN Apply(a, n, a.val) ELSE a
    [] n.k = "and"    ->
         LET a == Eval(s, n.left) IN IF Going(a) /\ Truthy(a.val) THEN Eval(a, n.right) ELSE a
    [] n.k = "or"     ->
         LET a == Eval(s, n.left) IN IF Going(a) /\ ~Truthy(a.val) THEN Eval(a, n.right) ELSE a
    [] n.k = "safe"   ->
         LET o == Eval(s, n.object)
         IN IF ~Going(o) \/ o.val = NilVal THEN o
            ELSE IF o.val[1] # "struct" THEN Raise(o, "no field")
                 ELSE Give(o, IF n.member = "v" THEN o.val[3] ELSE NilVal)
    [] n.k = "call"   -> EvalCall(s, n)
    [] n.k = "dispatch" -> EvalDispatch(s, n)
    [] n.k = "propagate" ->
         LET a == Eval(s, n.expr) IN IF Going(a) /\ a.val = NilVal THEN Leave(a, "return") ELSE a
    [] n.k = "let"    ->
         LET a == Eval(s, n.init)
         IN IF ~Going(a) THEN a
            ELSE BoundAll(a, n.names, IF Len(n.names) = 1 THEN <<a.val>> ELSE a.val)
    [] n.k = "assign" -> LET a == Eval(s, n.value) IN IF Going(a) THEN Write(a, n.name) ELSE a
    [] n.k = "assignindex" ->
         LET a == EvalAll(s, <<n.object, n.index, n.value>>, <<>>)
             v == a.val
         IN IF ~Going(a) THEN a
            ELSE IF v[1][1] # "array" \/ v[2][1] # "int" THEN Raise(a, "not indexable")
                 ELSE IF v[2][2] < 0 THEN Raise(a, "out of bounds")
                      ELSE Give([a EXCEPT !.arrays[v[1][2]] = Grown(@, v[2][2] + 1, v[3])], v[3])
    [] n.k = "expr"   -> Eval(s, n.expr)
    [] n.k = "fn"     -> EvalFn(s, n)
    [] n.k = "return" -> EvalReturn(s, n)
    [] n.k = "block"  -> Outer(Run([s EXCEPT !.depth = @ + 1], n.stmts), s)
    [] n.k = "if"     -> EvalIf(s, n)
    [] n.k \in {"while", "loop"} -> Rounds(s, n)
    [] n.k = "for"    -> EvalFor(s, n)
    [] n.k = "forin"  -> EvalForIn(s, n)
    [] n.k = "break"  -> Leave(s, "break")
    [] n.k = "continue" -> Leave(s, "continue")
    [] n.k = "match"  -> EvalMatch(s, n)
    [] n.k = "try"    -> EvalTry(s, n)

(* What the program prints, and how it ends.                               *)
MeaningOf(stmts) ==
  LET s == Run(Fresh, stmts)
  IN [out |-> s.out, end |-> IF s.ctl \in {"throw", "error"} THEN "error" ELSE "done"]
=============================================================================

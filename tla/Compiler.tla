------------------------------ MODULE Compiler ------------------------------
(***************************************************************************)
(* The bytecode compiler of vm.c: compile_expression() and compile_node()  *)
(* walk the syntax tree of a program once and append instructions to the   *)
(* chunk of the function being compiled.                                   *)
(*                                                                         *)
(* A tree is a record whose field k is the kind of the node.  The work in  *)
(* progress is a record w: w.cs holds the chain of compilers, the one of   *)
(* the innermost function last, and w.fns the functions that are finished. *)
(* An instruction is a record; its address is its place in the code, and a *)
(* jump holds the address it goes to (Unpatched before it is known), where *)
(* the chunk holds a distance in bytes.                                    *)
(***************************************************************************)
EXTENDS Values

CONSTANTS MaxLocals,    \* 256 in compiler_add_local()
          MaxUpvalues,  \* 64 in compiler_add_upvalue()
          MaxJumps,     \* 64 breaks, and 64 continues, of one loop
          MaxLoops,     \* MAX_LOOP_NESTING, 64
          MaxReach      \* UINT16_MAX, the bytes of a jump: here its instructions

Unpatched == 0

-----------------------------------------------------------------------------
(* Compilers and code.                                                     *)

NewCompiler(depth, infn, params) ==
  [code |-> <<>>, depth |-> depth, infn |-> infn, loops |-> <<>>, ups |-> <<>>, err |-> "",
   names |-> [i \in DOMAIN params |-> [name |-> params[i], depth |-> depth]]]

Me(w) == Last(w.cs)
SetMe(w, c) == [w EXCEPT !.cs[Len(w.cs)] = c]

(* An error is noted in the compiler of the function, where the compiler   *)
(* around it never looks: compiling goes on, and only what the main        *)
(* compiler noted rejects the program.                                     *)
Fail(w, l, m) == IF w.cs[l].err = "" THEN [w EXCEPT !.cs[l].err = m] ELSE w

Here(w) == Len(Me(w).code) + 1
Emit(w, i) == [w EXCEPT !.cs[Len(w.cs)].code = Append(@, i)]
EmitJump(w, o) == Emit(w, [op |-> o, to |-> Unpatched])
PatchTo(w, jumps, target) ==
  [w EXCEPT !.cs[Len(w.cs)].code =
     [a \in DOMAIN @ |-> IF a \in jumps THEN [@[a] EXCEPT !.to = target] ELSE @[a]]]

(* The distance from behind a jump.  One that is too far is noted, and the *)
(* jump goes where its 16 bits say.                                        *)
Reach(d) == d % (MaxReach + 1)
Patch(w, jump) ==
  LET d == Here(w) - (jump + 1)
      v == PatchTo(w, {jump}, jump + 1 + Reach(d))
  IN IF d > MaxReach THEN Fail(v, Len(w.cs), "Too much code to jump over") ELSE v
EmitLoop(w, start) ==
  LET d == Here(w) + 1 - start
      v == Emit(w, [op |-> "LOOP", to |-> Here(w) + 1 - Reach(d)])
  IN IF d > MaxReach THEN Fail(v, Len(w.cs), "Loop body too large") ELSE v

-----------------------------------------------------------------------------
(* Names: a local is known by its slot, a captured variable by its place   *)
(* among the upvalues of the function, anything else is a global.          *)

AddLocal(w, name) ==
  IF Len(Me(w).names) >= MaxLocals THEN Fail(w, Len(w.cs), "Too many local variables")
  ELSE [w EXCEPT !.cs[Len(w.cs)].names = Append(@, [name |-> name, depth |-> Me(w).depth])]

(* The slot of a local that is added: the first one when none is left.     *)
NewSlot(w) == IF Len(Me(w).names) >= MaxLocals THEN 1 ELSE Len(Me(w).names) + 1

(* Broken: the outermost of two locals with one name.                      *)
FindFirst(c, name) ==
  LET S == {i \in DOMAIN c.names : c.names[i].name = name}
  IN IF S = {} THEN 0 ELSE Min(S)

FindLocal(c, name) ==
  LET S == {i \in DOMAIN c.names : c.names[i].name = name}
  IN IF S = {} THEN 0 ELSE Max(S)

AddUpvalue(w, l, up) ==
  LET S == {i \in DOMAIN w.cs[l].ups : w.cs[l].ups[i] = up}
  IN IF S # {} THEN [w |-> w, i |-> Min(S)]
     ELSE IF Len(w.cs[l].ups) >= MaxUpvalues
          THEN [w |-> Fail(w, l, "Too many captured variables in one closure"), i |-> 1]
          ELSE [w |-> [w EXCEPT !.cs[l].ups = Append(@, up)],
                i |-> Len(w.cs[l].ups) + 1]

RECURSIVE ResolveUpvalue(_, _, _)
ResolveUpvalue(w, l, name) ==
  IF l = 1 THEN [w |-> w, i |-> 0]
  ELSE LET j == FindLocal(w.cs[l - 1], name)
           r == ResolveUpvalue(w, l - 1, name)
       IN IF j > 0 THEN AddUpvalue(w, l, [local |-> TRUE, index |-> j])
          ELSE IF r.i > 0 THEN AddUpvalue(r.w, l, [local |-> FALSE, index |-> r.i])
               ELSE [w |-> w, i |-> 0]

(* What a name in an expression, or on the left of an assignment, becomes. *)
Access(w, verb, name) ==
  LET j == FindLocal(Me(w), name)
      r == ResolveUpvalue(w, Len(w.cs), name)
  IN CASE j > 0   -> Emit(w, [op |-> verb \o "_LOCAL", slot |-> j])
       [] r.i > 0 -> Emit(r.w, [op |-> verb \o "_UPVALUE", up |-> r.i])
       [] OTHER   -> Emit(w, [op |-> verb \o "_GLOBAL", name |-> name])

(* The declaration of a name whose value is on the stack: in a function    *)
(* the value stays there and is written to the slot of the name, which is  *)
(* new unless the scope has the name already.                              *)
Declare(w, name) ==
  LET j == FindLocal(Me(w), name)
      known == j > 0 /\ Me(w).names[j].depth >= Me(w).depth
      v == IF known THEN w ELSE AddLocal(w, name)
  IN CASE name = Discard -> Emit(w, [op |-> "POP"])
       [] Me(w).infn /\ name # Discard ->
            Emit(v, [op |-> "SET_LOCAL", slot |-> IF known THEN j ELSE NewSlot(w)])
       [] OTHER -> Emit(w, [op |-> "DEFINE_GLOBAL", name |-> name])

RECURSIVE DeclareAll(_, _)
DeclareAll(w, names) ==
  IF names = <<>> THEN w ELSE DeclareAll(Declare(w, Last(names)), Front(names))

(* Broken: what a block declared stays on the stack.                       *)
KeepScope(w, depth) == w

PopScope(w, depth) ==
  LET mine == {i \in DOMAIN Me(w).names : Me(w).names[i].depth = depth}
  IN [w EXCEPT !.cs[Len(w.cs)].code = @ \o [i \in 1 .. Cardinality(mine) |-> [op |-> "POP"]]]

Forget(w, count) == [w EXCEPT !.cs[Len(w.cs)].names = SubSeq(@, 1, count)]

-----------------------------------------------------------------------------
(* Loops: where they start, the depth of their scope and the jumps out of  *)
(* their body that wait for an address.                                    *)

PushLoop(w, start) ==
  IF Len(Me(w).loops) >= MaxLoops THEN Fail(w, Len(w.cs), "Too many nested loops")
  ELSE [w EXCEPT !.cs[Len(w.cs)].loops =
          Append(@, [start |-> start, depth |-> Me(w).depth, breaks |-> {}, continues |-> {}])]

PatchContinues(w) ==
  LET n == Len(Me(w).loops)
      v == PatchTo(w, Me(w).loops[n].continues, Here(w))
  IN IF n = 0 THEN w ELSE [v EXCEPT !.cs[Len(w.cs)].loops[n].continues = {}]

PopLoop(w) ==
  LET v == PatchTo(w, Last(Me(w).loops).breaks, Here(w))
  IN IF Me(w).loops = <<>> THEN Fail(w, Len(w.cs), "loop stack underflow")
     ELSE [v EXCEPT !.cs[Len(w.cs)].loops = Front(@)]

(* `break` and `continue` drop what the scopes inside the loop declared.   *)
PopToLoop(w) ==
  LET loop == Last(Me(w).loops)
      inner == {i \in DOMAIN Me(w).names : Me(w).names[i].depth > loop.depth}
  IN IF Me(w).loops = <<>> THEN w
     ELSE [w EXCEPT !.cs[Len(w.cs)].code = @ \o [i \in 1 .. Cardinality(inner) |-> [op |-> "POP"]]]

Record(w, kind, jump) ==
  LET n == Len(Me(w).loops)
  IN IF n = 0 \/ Cardinality(Me(w).loops[n][kind]) >= MaxJumps THEN w
     ELSE [w EXCEPT !.cs[Len(w.cs)].loops[n][kind] = @ \cup {jump}]

CompileBreak(w) ==
  LET v == EmitJump(PopToLoop(w), "JUMP") IN Record(v, "breaks", Here(v) - 1)

CompileContinue(w) ==
  LET v == EmitJump(PopToLoop(w), "JUMP")
  IN IF Me(w).loops = <<>> THEN w ELSE Record(v, "continues", Here(v) - 1)

-----------------------------------------------------------------------------
RECURSIVE Compile(_, _), CompileAll(_, _), CompileArms(_, _, _, _)

(* There always is a compiler; asking for it makes TLC evaluate w before   *)
(* the next node.                                                          *)
CompileAll(w, nodes) ==
  IF nodes = <<>> \/ w.cs = <<>> THEN w ELSE CompileAll(Compile(w, Head(nodes)), Tail(nodes))

(* Every operator that evaluates all its operands: arithmetic, arrays,     *)
(* tuples, indexing and the literals of enums.                             *)
CompileOperator(w, n) ==
  Emit(CompileAll(w, n.args), [op |-> n.op, n |-> Len(n.args), tag |-> n.tag])

(* The right operand of `and` and `or` is skipped when the left decides.   *)
CompileAnd(w, n) ==
  LET a == EmitJump(Compile(w, n.left), "JUMP_IF_FALSE")
      b == Compile(Emit(a, [op |-> "POP"]), n.right)
  IN Patch(b, Here(a) - 1)

CompileOr(w, n) ==
  LET a == EmitJump(Compile(w, n.left), "JUMP_IF_FALSE")
      b == EmitJump(a, "JUMP")
      c == Patch(b, Here(a) - 1)
      d == Compile(Emit(c, [op |-> "POP"]), n.right)
  IN Patch(d, Here(b) - 1)

CompileSafeMember(w, n) ==
  LET a == EmitJump(Compile(w, n.object), "JUMP_IF_NIL")
      b == EmitJump(Emit(a, [op |-> "MEMBER_SAFE", name |-> n.member]), "JUMP")
      c == Patch(b, Here(a) - 1)
      d == Emit(Emit(c, [op |-> "POP"]), [op |-> "NIL"])
  IN Patch(d, Here(b) - 1)

CompileCall(w, n) ==
  Emit(CompileAll(Compile(w, n.callee), n.args), [op |-> "CALL", n |-> Len(n.args)])

CompileDispatch(w, n) ==
  Emit(CompileAll(Compile(w, n.object), n.args),
       [op |-> "DISPATCH", name |-> n.method, n |-> Len(n.args)])

CompilePropagate(w, n) == Emit(Compile(w, n.expr), [op |-> "PROPAGATE"])

CompileLet(w, n) == DeclareAll(Compile(w, n.init), n.names)

CompileAssign(w, n) == Access(Compile(w, n.value), "SET", n.name)

CompileAssignIndex(w, n) ==
  Emit(CompileAll(w, <<n.object, n.index, n.value>>), [op |-> "SET_INDEX"])

CompileExprStmt(w, n) == Emit(Compile(w, n.expr), [op |-> "POP"])

-----------------------------------------------------------------------------
(* Functions.  The initializer of a module declares the names of its own   *)
(* statements before it compiles the first of them.                        *)

RECURSIVE Hoist(_, _)
Hoist(w, stmts) ==
  IF stmts = <<>> THEN w
  ELSE Hoist(FoldLeft(AddLocal, w, HoistedNames(Head(stmts))), Tail(stmts))

ImplicitReturn(w, count) ==
  IF count = 1 THEN Emit(Emit(w, [op |-> "NIL"]), [op |-> "RETURN"])
  ELSE Emit(FoldLeft(LAMBDA v, i : Emit(v, [op |-> "NIL"]), w, [i \in 1 .. count |-> i]),
            [op |-> "RETURN_N", n |-> count])

CompileFn(w, n) ==
  LET open == [w EXCEPT !.cs = Append(@, NewCompiler(1, TRUE, n.params))]
      body == CompileAll(IF n.module THEN Hoist(open, n.body) ELSE open, n.body)
      c == Me(ImplicitReturn(body, n.returns))
      shut == [body EXCEPT !.cs = Front(@),
                           !.fns = Append(@, [code |-> c.code, arity |-> Len(n.params),
                                              module |-> n.module])]
      const == Emit(shut, [op |-> "CONSTANT", value |-> FnVal(Len(shut.fns))])
      closed == IF c.ups = <<>> THEN const ELSE Emit(const, [op |-> "CLOSURE", ups |-> c.ups])
      method == IF n.impl = "" THEN closed
                ELSE Emit(closed, [op |-> "REGISTER_METHOD", type |-> n.impl, name |-> n.name])
  IN IF n.name = Lambda THEN method ELSE Declare(method, n.name)

CompileReturn(w, n) ==
  CASE n.values = <<>>     -> Emit(Emit(w, [op |-> "NIL"]), [op |-> "RETURN"])
    [] Len(n.values) = 1   -> Emit(CompileAll(w, n.values), [op |-> "RETURN"])
    [] Len(n.values) > 1   -> Emit(CompileAll(w, n.values), [op |-> "RETURN_N", n |-> Len(n.values)])

-----------------------------------------------------------------------------
(* Statements.                                                             *)

CompileBlock(w, n) ==
  LET inner == CompileAll([w EXCEPT !.cs[Len(w.cs)].depth = @ + 1], n.stmts)
      popped == PopScope(inner, Me(inner).depth)
  IN Forget([popped EXCEPT !.cs[Len(w.cs)].depth = @ - 1], Len(Me(w).names))

CompileIf(w, n) ==
  LET a == EmitJump(Compile(w, n.cond), "JUMP_IF_FALSE")
      b == EmitJump(Compile(Emit(a, [op |-> "POP"]), n.then), "JUMP")
      c == Emit(Patch(b, Here(a) - 1), [op |-> "POP"])
      d == IF n.else.k = "none" THEN c ELSE Compile(c, n.else)
  IN Patch(d, Here(b) - 1)

(* The end of every loop with a condition: back to its start, and the exit *)
(* of the condition drops its value before the breaks arrive.              *)
CloseLoop(w, start, exit) ==
  LET back == EmitLoop(w, start)
  IN PopLoop(Emit(Patch(back, exit), [op |-> "POP"]))

CompileWhile(w, n) ==
  LET start == Here(w)
      a == EmitJump(Compile(PushLoop(w, start), n.cond), "JUMP_IF_FALSE")
      b == Compile(Emit(a, [op |-> "POP"]), n.body)
  IN CloseLoop(PatchContinues(b), start, Here(a) - 1)

CompileLoop(w, n) ==
  LET start == Here(w)
      b == PatchContinues(Compile(PushLoop(w, start), n.body))
  IN PopLoop(EmitLoop(b, start))

(* The variables of a `for` are locals inside any scope, and globals at    *)
(* the top level.                                                          *)
InScope(w) == Me(w).depth > 0

KeepIn(w, name) ==
  IF InScope(w) THEN Emit(w, [op |-> "SET_LOCAL", slot |-> FindLocal(Me(w), name)])
  ELSE Emit(w, [op |-> "DEFINE_GLOBAL", name |-> name])

Fetch(w, name) ==
  IF InScope(w) THEN Emit(w, [op |-> "GET_LOCAL", slot |-> FindLocal(Me(w), name)])
  ELSE Emit(w, [op |-> "GET_GLOBAL", name |-> name])

NewVar(w, name) == IF InScope(w) THEN AddLocal(w, name) ELSE w

LessThan(w, a, b) == EmitJump(Emit(Fetch(Fetch(w, a), b), [op |-> "LESS", n |-> 2]), "JUMP_IF_FALSE")

Increment(w, name) ==
  LET v == Emit(Emit(Fetch(w, name), [op |-> "CONSTANT", value |-> IntVal(1)]), [op |-> "ADD", n |-> 2])
      s == IF InScope(w) THEN Emit(v, [op |-> "SET_LOCAL", slot |-> FindLocal(Me(w), name)])
           ELSE Emit(v, [op |-> "SET_GLOBAL", name |-> name])
  IN Emit(s, [op |-> "POP"])

CompileForRange(w, n) ==
  LET a == KeepIn(Compile(NewVar(w, n.var), n.from), n.var)
      b == KeepIn(NewVar(Compile(a, n.to), "__end__"), "__end__")
      start == Here(b)
      c == LessThan(PushLoop(b, start), n.var, "__end__")
      d == Compile(Emit(c, [op |-> "POP"]), n.body)
      e == Increment(PatchContinues(d), n.var)
  IN Forget(CloseLoop(e, start, Here(c) - 1), Len(Me(w).names))

CompileForArray(w, n) ==
  LET a == KeepIn(NewVar(Compile(w, n.array), "__arr__"), "__arr__")
      b == KeepIn(NewVar(Emit(a, [op |-> "CONSTANT", value |-> IntVal(0)]), "__i__"), "__i__")
      l == Emit(Fetch(b, "__arr__"), [op |-> "DISPATCH", name |-> "len", n |-> 0])
      c == KeepIn(NewVar(l, "__len__"), "__len__")
      d == IF InScope(w) THEN KeepIn(NewVar(Emit(c, [op |-> "NIL"]), n.var), n.var) ELSE c
      start == Here(d)
      e == LessThan(PushLoop(d, start), "__i__", "__len__")
      f == Emit(Fetch(Fetch(Emit(e, [op |-> "POP"]), "__arr__"), "__i__"), [op |-> "INDEX", n |-> 2])
      g == KeepIn(f, n.var)
      h == Compile(IF InScope(w) THEN Emit(g, [op |-> "POP"]) ELSE g, n.body)
      i == Increment(PatchContinues(h), "__i__")
  IN Forget(CloseLoop(i, start, Here(e) - 1), Len(Me(w).names))

-----------------------------------------------------------------------------
(* `match`: inside a scope the value is kept in the slot of a hidden local *)
(* and taken off the stack; at the top level it is evaluated for each arm. *)

Subject(w, n, kept) ==
  IF kept > 0 THEN Emit(w, [op |-> "GET_LOCAL", slot |-> kept]) ELSE Compile(w, n.value)

(* The parts of an enum are bound from the last to the first.              *)
RECURSIVE Bind(_, _)
Bind(w, names) ==
  LET v == AddLocal(w, Last(names))
      s == IF Me(w).infn
           THEN Emit(Emit(v, [op |-> "SET_LOCAL", slot |-> NewSlot(w)]), [op |-> "POP"])
           ELSE Emit(w, [op |-> "DEFINE_GLOBAL", name |-> Last(names)])
  IN IF names = <<>> THEN w ELSE Bind(s, Front(names))

CompileArms(w, n, kept, i) ==
  LET arm == n.arms[i]
      a == Subject(IF i > 1 THEN Emit(w, [op |-> "POP"]) ELSE w, n, kept)
      test == IF arm.binds # <<>> THEN Emit(a, [op |-> "TAG_EQ", tag |-> arm.pattern.tag])
              ELSE Emit(Compile(a, arm.pattern), [op |-> "EQUAL", n |-> 2])
      b == EmitJump(test, "JUMP_IF_FALSE")
      c == Emit(b, [op |-> "POP"])
      bound == IF arm.binds = <<>> THEN c
               ELSE Bind(Emit(Subject(c, n, kept), [op |-> "UNPACK_ENUM"]), arm.binds)
      d == EmitJump(Forget(Compile(bound, arm.body), Len(Me(c).names)), "JUMP")
      rest == CompileArms(Patch(d, Here(b) - 1), n, kept, i + 1)
  IN IF i > Len(n.arms) THEN [w |-> w, ends |-> {}]
     ELSE [rest EXCEPT !.ends = @ \cup {Here(d) - 1}]

CompileMatch(w, n) ==
  LET a == Compile(w, n.value)
      v == AddLocal(a, "__match__")
      kept == IF InScope(w) THEN NewSlot(a) ELSE 0
      b == IF kept > 0 THEN Emit(Emit(v, [op |-> "SET_LOCAL", slot |-> kept]), [op |-> "POP"]) ELSE a
      arms == CompileArms(b, n, kept, 1)
      c == IF n.arms = <<>> THEN arms.w ELSE Emit(arms.w, [op |-> "POP"])
      d == Emit(c, [op |-> "NIL"])
  IN Forget(PatchTo(d, arms.ends, Here(d)), Len(Me(w).names))

(* `try`: the handler keeps the number of locals that are in scope.  What  *)
(* was thrown is on the stack when the catch begins.                       *)
CompileTry(w, n) ==
  LET a == Emit(w, [op |-> "TRY", to |-> Unpatched, locals |-> Len(Me(w).names)])
      b == EmitJump(Emit(Compile(a, n.body), [op |-> "POP_TRY"]), "JUMP")
      c == Patch(b, Here(a) - 1)
      bind == n.var # ""
      d == IF bind /\ Me(w).infn THEN AddLocal(c, n.var)
           ELSE IF bind THEN Emit(c, [op |-> "DEFINE_GLOBAL", name |-> n.var])
                ELSE Emit(c, [op |-> "POP"])
      e == Compile(d, n.catch)
      f == IF bind /\ Me(w).infn THEN Forget(Emit(e, [op |-> "POP"]), Len(Me(w).names)) ELSE e
  IN Patch(IF n.catch.k = "none" THEN c ELSE f, Here(b) - 1)

-----------------------------------------------------------------------------
(* compile_expression() and compile_node().                                *)
Compile(w, n) ==
  CASE n.k = "lit"         -> Emit(w, [op |-> "CONSTANT", value |-> n.value])
    [] n.k = "nil"         -> Emit(w, [op |-> "NIL"])
    [] n.k = "name"        -> Access(w, "GET", n.name)
    [] n.k = "operator"    -> CompileOperator(w, n)
    [] n.k = "and"         -> CompileAnd(w, n)
    [] n.k = "or"          -> CompileOr(w, n)
    [] n.k = "safe"        -> CompileSafeMember(w, n)
    [] n.k = "call"        -> CompileCall(w, n)
    [] n.k = "dispatch"    -> CompileDispatch(w, n)
    [] n.k = "propagate"   -> CompilePropagate(w, n)
    [] n.k = "let"         -> CompileLet(w, n)
    [] n.k = "assign"      -> CompileAssign(w, n)
    [] n.k = "assignindex" -> CompileAssignIndex(w, n)
    [] n.k = "expr"        -> CompileExprStmt(w, n)
    [] n.k = "fn"          -> CompileFn(w, n)
    [] n.k = "return"      -> CompileReturn(w, n)
    [] n.k = "block"       -> CompileBlock(w, n)
    [] n.k = "if"          -> CompileIf(w, n)
    [] n.k = "while"       -> CompileWhile(w, n)
    [] n.k = "loop"        -> CompileLoop(w, n)
    [] n.k = "for"         -> CompileForRange(w, n)
    [] n.k = "forin"       -> CompileForArray(w, n)
    [] n.k = "break"       -> CompileBreak(w)
    [] n.k = "continue"    -> CompileContinue(w)
    [] n.k = "match"       -> CompileMatch(w, n)
    [] n.k = "try"         -> CompileTry(w, n)

(* NODE_PROGRAM: the main function is the last of the functions.           *)
CompileProgram(stmts) ==
  LET w == CompileAll([cs |-> <<NewCompiler(0, FALSE, <<>>)>>, fns |-> <<>>], stmts)
      main == Emit(w, [op |-> "HALT"])
  IN [fns |-> Append(main.fns, [code |-> Me(main).code, arity |-> 0, module |-> FALSE]),
      err |-> Me(main).err]
=============================================================================

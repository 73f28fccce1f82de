-------------------------------- MODULE Ssa --------------------------------
(***************************************************************************)
(* ssa.c: a function's body (a tree of module Parser) as basic blocks of   *)
(* instructions, each of which names the values it reads and the one it    *)
(* makes.  The algorithm is that of Braun et al.: a variable is a slot of  *)
(* the scope, a block knows the value that each slot has at its end, and a *)
(* phi is put where several predecessors meet, or may still come.          *)
(*                                                                         *)
(* The state b of a builder is the function that grows, its blocks, the    *)
(* value each value was replaced by (0: none), the block that is written,  *)
(* the names in scope, and the loops around.  The operators named after    *)
(* functions of the source return b and, as v, the value they found; 0 is  *)
(* no value.                                                               *)
(*                                                                         *)
(* Left out: the growth of arrays, the limit of 64 loops, the 256 locals   *)
(* of a scope, and functions that a `test` declares.                       *)
(***************************************************************************)
EXTENDS Integers, Sequences, SequencesExt, FiniteSets, FiniteSetsExt, TLC

V == INSTANCE Values
T == INSTANCE Trees

-----------------------------------------------------------------------------
(* The statements in which a declaration is looked for.                    *)
Inside(n) ==
  CASE n.k \in {"program", "block", "try", "loop", "comptime"} -> n.kids
    [] n.k \in {"if", "match"} -> Tail(n.kids)
    [] n.k \in {"while", "for", "arm", "fn"} -> <<n.kids[2]>>
    [] OTHER -> <<>>

(* The functions of a program from its top, each before the ones in it.    *)
RECURSIVE collect(_)
collect(n) ==
  (IF n.k = "fn" THEN <<n>> ELSE <<>>) \o
  FlattenSeq([i \in DOMAIN Inside(n) |-> collect(Inside(n)[i])])

(* The one function of a name: two make the name ambiguous.                *)
fntable_resolve(fns, name) ==
  LET S == {i \in DOMAIN fns : fns[i].v[1] = name}
  IN IF Cardinality(S) = 1 THEN CHOOSE i \in S : TRUE ELSE 0

-----------------------------------------------------------------------------
Instr(op, res, args, lit, to) == [op |-> op, res |-> res, args |-> args, lit |-> lit, to |-> to]
NoLit == <<"none">>
Block == [ins |-> <<>>, preds |-> <<>>, succs |-> <<>>, sealed |-> FALSE,
          defs |-> << >>, pending |-> << >>]
At(b, v) == [b |-> b, v |-> v]

RECURSIVE resolve(_, _)
resolve(same, v) == IF v = 0 \/ same[v] = 0 THEN v ELSE resolve(same, same[v])

new_value(b) == [b EXCEPT !.same = Append(@, 0)]
Newest(b) == Len(b.same)
new_block(b) == [b EXCEPT !.blocks = Append(@, Block)]
link(b, from, to) ==
  [b EXCEPT !.blocks[from].succs = Append(@, to), !.blocks[to].preds = Append(@, from)]

Terminators == {"JUMP", "BRANCH", "RETURN"}
block_terminated(b) ==
  LET ins == b.blocks[b.cur].ins IN ins # <<>> /\ Last(ins).op \in Terminators

Operands(b, vs) == [i \in DOMAIN vs |-> resolve(b.same, vs[i])]

(* An instruction without a result, and one with.                          *)
Put(b, op, vs, lit, to) ==
  [b EXCEPT !.blocks[b.cur].ins = Append(@, Instr(op, 0, Operands(b, vs), lit, to))]
Make(b, op, vs, lit) ==
  LET c == new_value(b)
  IN At([c EXCEPT !.blocks[b.cur].ins = Append(@, Instr(op, Newest(c), Operands(b, vs), lit, <<>>))],
        Newest(c))

(* The instruction of blk that makes v reads the values vs too.            *)
AddOperands(b, blk, v, vs) ==
  LET i == SelectInSeq(b.blocks[blk].ins, LAMBDA ins : ins.res = v)
  IN [b EXCEPT !.blocks[blk].ins[i].args = @ \o Operands(b, vs)]

(* A phi goes to the front: the block may already have its terminator.     *)
prepend_phi(b, blk) ==
  LET c == new_value(b)
  IN At([c EXCEPT !.blocks[blk].ins = <<Instr("PHI", Newest(c), <<>>, NoLit, <<>>)>> \o @], Newest(c))

emit_jump(b, to) == link(Put(b, "JUMP", <<>>, NoLit, <<to>>), b.cur, to)
emit_branch(b, v, to) == Put(b, "BRANCH", <<v>>, NoLit, to)

-----------------------------------------------------------------------------
(* Variables.                                                              *)
DefOf(b, blk, slot) ==
  IF slot \in DOMAIN b.blocks[blk].defs THEN b.blocks[blk].defs[slot] ELSE 0
write_variable(b, blk, slot, v) == [b EXCEPT !.blocks[blk].defs = (slot :> v) @@ @]

(* What a phi merges, from its operands one by one: 0 if it is the value   *)
(* of no other, itself if it is needed.                                    *)
RECURSIVE Merged(_, _, _, _)
Merged(b, phi, ops, same) ==
  LET op == resolve(b.same, Head(ops))
  IN IF ops = <<>> THEN (IF same = 0 THEN phi ELSE same)
     ELSE IF op \in {same, phi} THEN Merged(b, phi, Tail(ops), same)
          ELSE IF same # 0 THEN phi ELSE Merged(b, phi, Tail(ops), op)

try_remove_trivial_phi(b, blk, phi) ==
  LET ins == b.blocks[blk].ins[SelectInSeq(b.blocks[blk].ins, LAMBDA i : i.res = phi)]
      v == Merged(b, phi, ins.args, 0)
  IN At(IF v = phi THEN b ELSE [b EXCEPT !.same[phi] = v], v)

RECURSIVE read_variable(_, _, _), PhiOperands(_, _, _, _, _)
(* The phi's operands from the i-th predecessor on.                        *)
PhiOperands(b, blk, slot, phi, i) ==
  IF i > Len(b.blocks[blk].preds) THEN b
  ELSE LET r == read_variable(b, b.blocks[blk].preds[i], slot)
       IN PhiOperands(AddOperands(r.b, blk, phi, <<r.v>>), blk, slot, phi, i + 1)

add_phi_operands(b, blk, slot, phi) ==
  try_remove_trivial_phi(PhiOperands(b, blk, slot, phi, 1), blk, phi)

Kept(r, blk, slot) == IF r.v = 0 THEN r ELSE At(write_variable(r.b, blk, slot, r.v), r.v)

(* A block that waits for more predecessors has a phi to be completed; a   *)
(* phi is the slot's value before its operands are read, so that a loop    *)
(* finds it.                                                               *)
read_variable_recursive(b, blk, slot) ==
  LET preds == b.blocks[blk].preds
      p == prepend_phi(b, blk)
  IN CASE ~b.blocks[blk].sealed ->
            Kept(At([p.b EXCEPT !.blocks[blk].pending = (slot :> p.v) @@ @], p.v), blk, slot)
       [] b.blocks[blk].sealed /\ Len(preds) = 1 ->
            Kept(read_variable(b, preds[1], slot), blk, slot)
       [] b.blocks[blk].sealed /\ preds = <<>> -> At(b, 0)
       [] OTHER ->
            Kept(add_phi_operands(write_variable(p.b, blk, slot, p.v), blk, slot, p.v), blk, slot)

read_variable(b, blk, slot) ==
  LET v == DefOf(b, blk, slot)
  IN IF v # 0 THEN At(b, resolve(b.same, v)) ELSE read_variable_recursive(b, blk, slot)

RECURSIVE Complete(_, _, _)
Complete(b, blk, slots) ==
  IF slots = {} THEN b
  ELSE LET slot == Min(slots)
       IN Complete(add_phi_operands(b, blk, slot, b.blocks[blk].pending[slot]).b, blk, slots \ {slot})

seal_block(b, blk) ==
  IF b.blocks[blk].sealed THEN b
  ELSE [Complete(b, blk, DOMAIN b.blocks[blk].pending) EXCEPT
          !.blocks[blk].sealed = TRUE, !.blocks[blk].pending = << >>]

(* Names in scope: the slot of a name is its last place.                   *)
find_local(b, name) == SelectLastInSeq(b.scope, LAMBDA x : x = name)
add_local(b, name) == [b EXCEPT !.scope = Append(@, name)]
Bind(b, name, v) ==
  LET c == add_local(b, name) IN write_variable(c, c.cur, Len(c.scope), v)

-----------------------------------------------------------------------------
RECURSIVE Lower(_, _, _), ExprsOf(_, _, _), build_stmts(_, _),
  scan_captures(_, _), LaterOperands(_, _, _, _), Arms(_, _, _, _)

(* The expressions from the left; v is the sequence of their values.       *)
ExprsOf(b, nodes, vs) ==
  IF nodes = <<>> THEN At(b, vs)
  ELSE LET e == Lower("expr", b, Head(nodes)) IN ExprsOf(e.b, Tail(nodes), Append(vs, e.v))

Values(b, nodes) == ExprsOf(b, nodes, <<>>)
Unknown(b) == Make(b, "UNKNOWN_VALUE", <<>>, NoLit)
build_opaque(b, nodes) == Unknown(Values(b, nodes).b)

binop_kind == [op \in {"+", "-", "*", "/", "%", "==", "!=", "<", ">", "<=", ">=", "&", "|", "^",
                       "<<", ">>", "??"} |->
  CASE op = "==" -> "CMP_EQ" [] op = "!=" -> "CMP_NE" [] op = "<" -> "CMP_LT"
    [] op = ">" -> "CMP_GT" [] op = "<=" -> "CMP_LE" [] op = ">=" -> "CMP_GE"
    [] OTHER -> T!BinaryOps[op]]

(* The value of `&&` and `||` is a variable that both sides write.         *)
ShortCircuit(b, n) ==
  LET left  == Lower("expr", b, n.kids[1])
      temp  == Bind(left.b, IF n.v[1] = "&&" THEN "__and__" ELSE "__or__", left.v)
      slot  == Len(temp.scope)
      from  == temp.cur
      two   == new_block(new_block(temp))
      merge == Len(two.blocks)
      other == merge - 1
      br    == emit_branch(two, left.v, IF n.v[1] = "&&" THEN <<other, merge>> ELSE <<merge, other>>)
      ready == seal_block(link(link(br, from, other), from, merge), other)
      right == Lower("expr", [ready EXCEPT !.cur = other], n.kids[2])
      done  == emit_jump(write_variable(right.b, right.b.cur, slot, right.v), merge)
  IN read_variable([seal_block(done, merge) EXCEPT !.cur = merge], merge, slot)

(* A name that is no local and belongs to one function that never suspends *)
(* is called directly.                                                     *)
BuildCall(b, n) ==
  LET callee == n.kids[1]
      args == Values(b, Tail(n.kids))
      known == callee.k = "ident" /\ find_local(args.b, callee.v[1]) = 0
      f == IF known THEN fntable_resolve(b.fns, callee.v[1]) ELSE 0
      direct == f # 0 /\ ~b.suspends[f]
      fun == IF known THEN args ELSE Lower("expr", args.b, callee)
  IN IF direct THEN Make(args.b, "CALL_DIRECT", args.v, <<"function", f>>)
     ELSE Make(fun.b, "CALL_DYNAMIC", args.v, NoLit)

(* Elements and arguments are built behind the instruction that reads them. *)
LaterOperands(b, blk, v, nodes) ==
  IF nodes = <<>> THEN At(b, v)
  ELSE LET e == Lower("expr", b, Head(nodes))
       IN LaterOperands(AddOperands(e.b, blk, v, <<e.v>>), blk, v, Tail(nodes))

BuildBefore(b, op, vs, lit, nodes) ==
  LET m == Make(b, op, vs, lit) IN LaterOperands(m.b, b.cur, m.v, nodes)

BuildOf(b, op, nodes, lit) == LET vs == Values(b, nodes) IN Make(vs.b, op, vs.v, lit)

build_expr(b, n) ==
  CASE n.k = "none"   -> At(b, 0)
    [] n.k = "int"    -> Make(b, "CONST_INT", <<>>, V!IntVal(T!NumberOf(n.v[1])))
    [] n.k = "float"  -> Make(b, "CONST_FLOAT", <<>>, V!FloatVal)
    [] n.k = "string" -> Make(b, "CONST_STRING", <<>>, V!StrVal(n.v[1]))
    [] n.k = "bool"   -> Make(b, "CONST_BOOL", <<>>, V!BoolVal(n.v[1] = "true"))
    [] n.k = "null"   -> Make(b, "CONST_NIL", <<>>, NoLit)
    [] n.k = "ident"  -> IF find_local(b, n.v[1]) # 0 THEN read_variable(b, b.cur, find_local(b, n.v[1]))
                         ELSE Unknown(b)
    [] n.k = "binary" /\ n.v[1] \in {"&&", "||"} -> ShortCircuit(b, n)
    [] n.k = "binary" /\ n.v[1] \notin {"&&", "||"} -> BuildOf(b, binop_kind[n.v[1]], n.kids, NoLit)
    [] n.k = "unary"  -> BuildOf(b, CASE n.v[1] = "-" -> "NEG" [] n.v[1] = "!" -> "NOT"
                                      [] OTHER -> "BIT_NOT", n.kids, NoLit)
    [] n.k = "call"   -> BuildCall(b, n)
    [] n.k = "dispatch" -> LET o == Lower("expr", b, n.kids[1])
                           IN BuildBefore(o.b, "DISPATCH", <<o.v>>, NoLit, Tail(n.kids))
    [] n.k \in {"member", "safe"} -> BuildOf(b, "FIELD_GET", n.kids, V!StrVal(n.v[1]))
    [] n.k = "index"  -> BuildOf(b, "INDEX_GET", n.kids, NoLit)
    [] n.k = "struct_lit" -> BuildOf(b, "ALLOC_STRUCT", n.kids, V!StrVal(n.v[1]))
    [] n.k = "array"  -> BuildBefore(b, "ALLOC_ARRAY", <<>>, NoLit, n.kids)
    [] n.k = "tuple"  -> BuildBefore(b, "ALLOC_TUPLE", <<>>, NoLit, n.kids)
    [] n.k \in {"interp", "enum_lit", "propagate"} -> build_opaque(b, n.kids)
    [] n.k = "assign" -> Unknown(Lower("stmt", b, n))
    [] OTHER          -> build_opaque(b, <<>>)

assign_to(b, target, v) ==
  LET vs == Values(b, target.kids)
      slot == find_local(b, target.v[1])
  IN CASE target.k = "ident" /\ find_local(b, target.v[1]) # 0 -> write_variable(b, b.cur, slot, v)
       [] target.k = "member" -> Put(vs.b, "FIELD_SET", vs.v \o <<v>>, V!StrVal(target.v[1]), <<>>)
       [] target.k = "index" -> Put(vs.b, "INDEX_SET", vs.v \o <<v>>, NoLit, <<>>)
       [] OTHER -> Put(b, "UNKNOWN_EFFECT", <<v>>, NoLit, <<>>)

(* The locals that a function in this one names leave with it.             *)
scan_captures(b, n) ==
  LET r == read_variable(b, b.cur, find_local(b, n.v[1]))
      below == IF n.k = "fn" THEN SubSeq(n.kids, 3, Len(n.kids)) \o <<n.kids[2]>>
               ELSE IF n.k \in {"let", "const"} THEN <<n.kids[1]>>
               ELSE IF n.k \in {"struct", "actor"} THEN <<>> ELSE n.kids
  IN IF n.k = "ident"
     THEN IF find_local(b, n.v[1]) # 0 THEN Put(r.b, "UNKNOWN_EFFECT", <<r.v>>, NoLit, <<>>) ELSE b
     ELSE FoldLeft(scan_captures, b, below)

-----------------------------------------------------------------------------
Enter(b, blk) == [b EXCEPT !.cur = blk]
JumpIfOpen(b, to) == IF block_terminated(b) THEN b ELSE emit_jump(b, to)
InLoop(b, brk, cont) == [b EXCEPT !.loops = Append(@, [brk |-> brk, cont |-> cont])]
LeaveLoop(b) == [b EXCEPT !.loops = Front(@)]
Rescoped(b, before) == [b EXCEPT !.scope = before.scope]

build_stmts(b, nodes) ==
  IF nodes = <<>> \/ block_terminated(b) THEN b ELSE build_stmts(Lower("stmt", b, Head(nodes)), Tail(nodes))

BuildLet(b, n) ==
  LET init == IF n.kids[1].k = "none" THEN Make(b, "CONST_NIL", <<>>, NoLit) ELSE Lower("expr", b, n.kids[1])
  IN FoldLeft(LAMBDA c, name : Bind(c, name, init.v), init.b, n.v)

BuildIf(b, n) ==
  LET cond   == Lower("expr", b, n.kids[1])
      from   == cond.b.cur
      els    == n.kids[3].k # "none"
      then   == Len(cond.b.blocks) + 1
      merge  == IF els THEN then + 2 ELSE then + 1
      blocks == IF els THEN new_block(new_block(new_block(cond.b))) ELSE new_block(new_block(cond.b))
      linked == link(link(emit_branch(blocks, cond.v, <<then, then + 1>>), from, then), from, then + 1)
      sealed == IF els THEN seal_block(seal_block(linked, then), then + 1) ELSE seal_block(linked, then)
      one    == JumpIfOpen(Lower("stmt", Enter(sealed, then), n.kids[2]), merge)
      both   == IF els THEN JumpIfOpen(Lower("stmt", Enter(one, then + 1), n.kids[3]), merge) ELSE one
  IN Enter(seal_block(both, merge), merge)

(* The branch goes where the condition ended, but the edges begin at the   *)
(* header: with && or || in the condition the two differ.                  *)
BuildWhile(b, n) ==
  LET header == Len(b.blocks) + 1
      body   == header + 1
      exit   == header + 2
      start  == Enter(emit_jump(new_block(new_block(new_block(b))), header), header)
      cond   == Lower("expr", start, n.kids[1])
      linked == link(link(emit_branch(cond.b, cond.v, <<body, exit>>), header, body), header, exit)
      inside == Lower("stmt", Enter(InLoop(seal_block(linked, body), exit, header), body), n.kids[2])
      after  == LeaveLoop(JumpIfOpen(inside, header))
  IN Enter(seal_block(seal_block(after, header), exit), exit)

BuildLoop(b, n) ==
  LET header == Len(b.blocks) + 1
      exit   == header + 1
      start  == emit_jump(new_block(new_block(b)), header)
      inside == Lower("stmt", Enter(InLoop(start, exit, header), header), n.kids[1])
      after  == LeaveLoop(JumpIfOpen(inside, header))
  IN Enter(seal_block(seal_block(after, header), exit), exit)

(* A range counts the loop's variable; anything else is asked for its      *)
(* length, and read at a hidden index.                                     *)
ForRange(b, n, over) ==
  LET ends == Values(b, over.kids)
      var  == Bind(ends.b, n.v[1], ends.v[1])
  IN Bind(var, "__end__", ends.v[2])

ForEach(b, n, over) ==
  LET arr  == Lower("expr", b, over)
      kept == Bind(arr.b, "__arr__", arr.v)
      len  == Make(kept, "DISPATCH", <<arr.v>>, NoLit)
      size == Bind(len.b, "__len__", len.v)
      zero == Make(size, "CONST_INT", <<>>, V!IntVal(0))
  IN add_local(Bind(zero.b, "__i__", zero.v), n.v[1])

Increment(b, slot) ==
  LET Add(v, one) == Make(one.b, "ADD", <<v.v, one.v>>, NoLit)
      AddOne(v)   == Add(v, Make(v.b, "CONST_INT", <<>>, V!IntVal(1)))
      Write(sum)  == write_variable(sum.b, sum.b.cur, slot, sum.v)
  IN Write(AddOne(read_variable(b, b.cur, slot)))

ElementAt(b, arrSlot) ==
  LET Get(arr, idx) == Make(idx.b, "INDEX_GET", <<arr.v, idx.v>>, NoLit)
      Indexed(arr)  == Get(arr, read_variable(arr.b, b.cur, arrSlot + 2))
      Write(get)    == write_variable(get.b, b.cur, arrSlot + 3, get.v)
  IN Write(Indexed(read_variable(b, b.cur, arrSlot)))

(* `continue` goes to the header, past the increment.                      *)
BuildFor(b, n) ==
  LET over   == n.kids[1]
      range  == over.k = "tuple" /\ Len(over.kids) = 2
      header == Len(b.blocks) + 1
      body   == header + 1
      exit   == header + 2
      blocks == new_block(new_block(new_block(b)))
      Less(cur, end) == Make(end.b, "CMP_LT", <<cur.v, end.v>>, NoLit)
      Tested(cur, bound) == Less(cur, read_variable(cur.b, header, bound))
      Branched(cmp) ==
        link(link(emit_branch(cmp.b, cmp.v, <<body, exit>>), header, body), header, exit)
      Body(c, var) == Lower("stmt", IF range THEN c ELSE ElementAt(c, var - 2), n.kids[2])
      Repeated(c, var) ==
        LeaveLoop(IF block_terminated(c) THEN c ELSE emit_jump(Increment(c, var), header))
      Loop(start, var, bound) ==
        LET linked == Branched(Tested(read_variable(start, header, var), bound))
            ready  == Enter(InLoop(seal_block(linked, body), exit, header), body)
        IN Repeated(Body(ready, var), var)
      From(setup) == Loop(Enter(emit_jump(setup, header), header), Len(setup.scope) - 1,
                          IF range THEN Len(setup.scope) ELSE Len(setup.scope) - 2)
      after  == From(IF range THEN ForRange(blocks, n, over) ELSE ForEach(blocks, n, over))
  IN Rescoped(Enter(seal_block(seal_block(after, header), exit), exit), b)

(* The handler is entered from the beginning of what it guards.            *)
BuildTry(b, n) ==
  LET hand   == n.kids[2].k # "none"
      body   == Len(b.blocks) + 1
      merge  == IF hand THEN body + 2 ELSE body + 1
      blocks == IF hand THEN new_block(new_block(new_block(b))) ELSE new_block(new_block(b))
      start  == seal_block(emit_jump(blocks, body), body)
      linked == IF hand THEN seal_block(link(start, body, body + 1), body + 1) ELSE start
      one    == JumpIfOpen(Lower("stmt", Enter(linked, body), n.kids[1]), merge)
      caught == IF n.v[1] = "" THEN Enter(one, body + 1) ELSE add_local(Enter(one, body + 1), n.v[1])
      both   == IF hand THEN JumpIfOpen(Lower("stmt", caught, n.kids[2]), merge) ELSE one
  IN Enter(seal_block(both, merge), merge)

(* The arms begin at one block, which has no branch.                       *)
Arms(b, from, merge, arms) ==
  LET blk   == Len(b.blocks) + 1
      start == Enter(seal_block(link(new_block(b), from, blk), blk), blk)
      bound == FoldLeft(LAMBDA c, name : LET u == Unknown(c) IN Bind(u.b, name, u.v),
                        start, Head(arms).v)
      done  == JumpIfOpen(Lower("stmt", bound, Head(arms).kids[2]), merge)
  IN IF arms = <<>> THEN b ELSE Arms(Rescoped(done, b), from, merge, Tail(arms))

BuildMatch(b, n) ==
  LET value == Lower("expr", b, n.kids[1]).b
      merge == Len(value.blocks) + 1
      arms  == Arms(new_block(value), value.cur, merge, Tail(n.kids))
  IN Enter(seal_block(arms, merge), merge)

BuildReturn(b, n) ==
  LET nil == Make(b, "CONST_NIL", <<>>, NoLit)
      vs  == Values(b, n.kids)
  IN IF n.kids = <<>> THEN Put(nil.b, "RETURN", <<nil.v>>, NoLit, <<>>)
     ELSE Put(vs.b, "RETURN", vs.v, NoLit, <<>>)

CompoundOp == [op \in {"+=", "-=", "*=", "/="} |->
  CASE op = "+=" -> "ADD" [] op = "-=" -> "SUB" [] op = "*=" -> "MUL" [] op = "/=" -> "DIV"]
BuildAssign(b, n) ==
  LET rhs == IF n.v[1] = "=" THEN Lower("expr", b, n.kids[2])
             ELSE BuildOf(b, CompoundOp[n.v[1]], n.kids, NoLit)
  IN assign_to(rhs.b, n.kids[1], rhs.v)

build_stmt(b, n) ==
  CASE n.k = "none" -> b
    [] n.k \in {"let", "const"} -> BuildLet(b, n)
    [] n.k = "fn"     -> scan_captures(b, n)
    [] n.k = "expr"   -> IF n.kids[1].k = "assign" THEN Lower("stmt", b, n.kids[1])
                         ELSE Lower("expr", b, n.kids[1]).b
    [] n.k = "block"  -> Rescoped(build_stmts(b, n.kids), b)
    [] n.k = "if"     -> BuildIf(b, n)
    [] n.k = "while"  -> BuildWhile(b, n)
    [] n.k = "loop"   -> BuildLoop(b, n)
    [] n.k = "for"    -> BuildFor(b, n)
    [] n.k = "break"  -> IF b.loops = <<>> THEN b ELSE emit_jump(b, Last(b.loops).brk)
    [] n.k = "continue" -> IF b.loops = <<>> THEN b ELSE emit_jump(b, Last(b.loops).cont)
    [] n.k = "return" -> BuildReturn(b, n)
    [] n.k = "assign" -> BuildAssign(b, n)
    [] n.k = "assert" -> Lower("expr", b, n.kids[1]).b
    [] n.k = "try"    -> BuildTry(b, n)
    [] n.k = "match"  -> BuildMatch(b, n)
    [] n.k = "comptime" -> Lower("stmt", b, n.kids[1])
    [] n.k = "test"   -> b
    [] OTHER          -> Lower("expr", b, n).b

Lower(what, b, n) == IF what = "expr" THEN build_expr(b, n) ELSE build_stmt(b, n)

(* A function: its parameters, its body, and a nil if its end is reached.  *)
Param(b, i) == Make(b, "PARAM", <<>>, V!IntVal(i - 1))
RECURSIVE Params(_, _, _)
Params(b, names, i) ==
  IF i > Len(names) THEN b
  ELSE LET p == Param(b, i) IN Params(Bind(p.b, names[i], p.v), names, i + 1)

Returning(b) ==
  LET nil == Make(b, "CONST_NIL", <<>>, NoLit)
  IN IF block_terminated(b) THEN b ELSE Put(nil.b, "RETURN", <<nil.v>>, NoLit, <<>>)

Graph(b) ==
  [blocks |-> [i \in DOMAIN b.blocks |->
                 [ins |-> b.blocks[i].ins, preds |-> b.blocks[i].preds, succs |-> b.blocks[i].succs]],
   same |-> b.same]

build_function(fns, suspends, f) ==
  LET entry == seal_block(new_block([blocks |-> <<>>, same |-> <<>>, cur |-> 1, scope |-> <<>>,
                                     loops |-> <<>>, fns |-> fns, suspends |-> suspends]), 1)
  IN Graph(Returning(Lower("stmt", Params(entry, fns[f].kids[1].v, 1), fns[f].kids[2])))
=============================================================================

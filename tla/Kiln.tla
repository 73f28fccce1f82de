-------------------------------- MODULE Kiln --------------------------------
(***************************************************************************)
(* `vn build --release`: what the release compiler does to a program       *)
(* before it writes C, and what the C of a native function does.           *)
(*                                                                         *)
(*   aot.c              drops the functions of the prelude nobody names    *)
(*   suspend_analysis.c finds the functions that may suspend               *)
(*   ssa.c              builds the others (module Ssa) and infers types    *)
(*   ssa_escape.c       finds the values that leave their function         *)
(*   aot_native.c       picks the functions of scalars only; their calls   *)
(*                      use the C stack and no boxed values                *)
(*                                                                         *)
(* Each analysis sweeps over the whole program until nothing changes; a    *)
(* step is one sweep.  A call from boxed code goes native if its arguments *)
(* have the declared types, and a step is one instruction.                 *)
(*                                                                         *)
(* Left out: schemas, functions a `test` declares, the operators on bits,  *)
(* the cache of decorated functions, and the shadow mode, which runs both  *)
(* bodies and compares them.                                               *)
(***************************************************************************)
EXTENDS Ssa

CONSTANTS
  Programs,    \* records: text, prelude (how many statements it has), calls (names and arguments)
  MaxFrames    \* TASK_FRAMES_MAX

S == INSTANCE Semantic

VARIABLES
  prog,     \* the program
  phase,    \* the analysis that runs
  stmts,    \* the statements of the program
  marks,    \* what the analysis knows of each function
  fns,      \* the functions, and of each: its blocks, if it has been built,
  ssa,
  types,    \* the types of its values,
  escaping, \* the values that escape, and
  native,   \* whether it becomes native
  call,     \* the function that is called from boxed code, and its arguments
  frames,   \* the native calls on the C stack
  result    \* how the call ended

vars == <<prog, phase, stmts, marks, fns, ssa, types, escaping, native, call, frames, result>>

-----------------------------------------------------------------------------
(* Pruning.  A function of the prelude is kept if a name of something that *)
(* is kept could mean it.                                                  *)
RECURSIVE release_scan_node(_)
release_scan_node(n) ==
  LET below == CASE n.k = "fn" -> Tail(n.kids)
                 [] n.k \in {"actor", "enum", "trait", "ffi"} -> <<>>
                 [] OTHER -> n.kids
  IN (IF n.k = "ident" THEN {n.v[1]} ELSE {}) \cup UNION {release_scan_node(below[i]) : i \in DOMAIN below}

TopFunctions == SelectSeq([i \in DOMAIN stmts |-> i], LAMBDA i : stmts[i].k = "fn")
StaysAnyway(i) == i > prog.prelude \/ stmts[i].v[2] # ""
NamesOfStatements ==
  UNION {release_scan_node(stmts[i]) : i \in {j \in DOMAIN stmts : stmts[j].k # "fn"}}
release_mark_name(m, names) ==
  [i \in DOMAIN stmts |-> m[i] \/ (stmts[i].k = "fn" /\ stmts[i].v[1] \in names)]

(* Mutant: what a function that is kept names is not kept.                 *)
NoBody(m, i) == m
ScanFunction(m, i) == IF m[i] THEN release_mark_name(m, release_scan_node(stmts[i])) ELSE m
SweepOfReachable == FoldLeft(ScanFunction, marks, TopFunctions)
Survivors == SelectSeq([i \in DOMAIN stmts |-> i],
                   LAMBDA i : stmts[i].k # "fn" \/ i > prog.prelude \/ marks[i])

-----------------------------------------------------------------------------
(* Suspending.                                                             *)
RECURSIVE Foreign(_), suspend_scan_node(_, _, _)
Foreign(n) ==
  (IF n.k = "ffi" THEN {n.v[1]} ELSE {}) \cup UNION {Foreign(Inside(n)[i]) : i \in DOMAIN Inside(n)}
ForeignNames == UNION {Foreign(stmts[i]) : i \in DOMAIN stmts}
Resolved(name) == {i \in DOMAIN fns : fns[i].v[1] = name}

(* Mutant: a name that belongs to no function is taken for a harmless one. *)
KnownOnly(m, ffi, name) == \E i \in Resolved(name) : m[i]
CallMaySuspend(m, ffi, name) ==
  (Resolved(name) = {} /\ name \notin ffi) \/ \E i \in Resolved(name) : m[i]

(* Does the node reach something that suspends?  A function in it does not *)
(* run yet.                                                                *)
suspend_scan_node(m, ffi, n) ==
  LET below == CASE n.k \in {"let", "const"} -> <<n.kids[1]>>
                 [] n.k \in {"fn", "struct", "actor", "enum", "trait", "ffi"} -> <<>>
                 [] OTHER -> n.kids
  IN \/ n.k \in {"send", "receive", "await", "dispatch"}
     \/ n.k = "call" /\ (n.kids[1].k = "ident" => CallMaySuspend(m, ffi, n.kids[1].v[1]))
     \/ \E i \in DOMAIN below : suspend_scan_node(m, ffi, below[i])

ScanOwner(m, i) == [m EXCEPT ![i] = @ \/ suspend_scan_node(m, ForeignNames, fns[i].kids[2])]
SweepOfSuspends == FoldLeft(ScanOwner, marks, [i \in DOMAIN fns |-> i])

-----------------------------------------------------------------------------
(* Types.                                                                  *)
Bottom == {"pending", "unknown"}
Scalar == {"int", "float", "bool"}
StructType(name) == "struct " \o name

AllInstrs(f) == FlattenSeq([i \in DOMAIN ssa[f].blocks |-> ssa[f].blocks[i].ins])
EveryInstr ==
  FlattenSeq([f \in DOMAIN fns |-> LET all == AllInstrs(f) IN [i \in DOMAIN all |-> [f |-> f, ins |-> all[i]]]])
Of(f, v) == resolve(ssa[f].same, v)
TypeOf(ts, f, v) == IF v = 0 THEN "unknown" ELSE ts[f][Of(f, v)]
TypesOf(ts, f, ins) == [i \in DOMAIN ins.args |-> TypeOf(ts, f, ins.args[i])]

(* Mutant: a type that is not known is left to the others.                 *)
JoinKnown(ts) ==
  LET known == ts \ Bottom
  IN IF Cardinality(known) = 1 THEN CHOOSE t \in known : TRUE
     ELSE IF known = {} /\ "pending" \in ts THEN "pending" ELSE "unknown"
(* What several places agree on, as far as it is known.                    *)
Join(ts) ==
  CASE "unknown" \in ts -> "unknown"
    [] ts \subseteq {"pending"} -> "pending"
    [] OTHER -> IF Cardinality(ts \ {"pending"}) = 1 THEN CHOOSE t \in ts \ {"pending"} : TRUE ELSE "unknown"

ssa_type_from_annotation(param) ==
  LET name == IF param.kids = <<>> THEN "int" ELSE param.kids[1].v[1]
  IN CASE name \in {"int", "float", "string", "bool"} -> name
       [] name \in {"byte", "void", "ptr", "[]", "fn", "()"} -> "unknown"
       [] OTHER -> StructType(name)

ssa_function_return_type(ts, f) ==
  LET returns == {ins \in ToSet(AllInstrs(f)) : ins.op = "RETURN"}
  IN IF returns = {} \/ \E ins \in returns : Len(ins.args) # 1 THEN "unknown"
     ELSE Join({TypeOf(ts, f, ins.args[1]) : ins \in returns})

Promoted(a, b) ==
  CASE "unknown" \in {a, b} -> "unknown"
    [] "unknown" \notin {a, b} /\ "pending" \in {a, b} -> "pending"
    [] a = "int" /\ b = "int" -> "int"
    [] "float" \in {a, b} /\ {a, b} \subseteq {"int", "float"} -> "float"
    [] OTHER -> "unknown"
IfAmong(t, allowed) == IF t = "pending" \/ t \in allowed THEN t ELSE "unknown"

IntOnly == {"MOD", "BIT_AND", "BIT_OR", "BIT_XOR", "SHL", "SHR"}
Ordering == {"CMP_LT", "CMP_GT", "CMP_LE", "CMP_GE"}

ssa_compute_instr_type(ts, f, ins) ==
  LET t == TypesOf(ts, f, ins)
  IN CASE ins.op = "CONST_INT" -> "int"
       [] ins.op = "CONST_FLOAT" -> "float"
       [] ins.op = "CONST_STRING" -> "string"
       [] ins.op \in {"CONST_BOOL", "CMP_EQ", "CMP_NE", "NOT"} -> "bool"
       [] ins.op = "PARAM" -> ssa_type_from_annotation(fns[f].kids[1].kids[ins.lit[2] + 1])
       [] ins.op = "PHI" -> IF t = <<>> THEN "unknown" ELSE Join(ToSet(t))
       [] ins.op = "ADD" /\ "string" \in ToSet(t) -> "string"
       [] (ins.op = "ADD" /\ "string" \notin ToSet(t)) \/ ins.op \in {"SUB", "MUL", "DIV"} \cup Ordering ->
            Promoted(t[1], t[2])
       [] ins.op \in IntOnly -> IfAmong(Promoted(t[1], t[2]), {"int"})
       [] ins.op = "NEG" -> IfAmong(t[1], {"int", "float"})
       [] ins.op = "BIT_NOT" -> IfAmong(t[1], {"int"})
       [] ins.op = "ALLOC_STRUCT" -> StructType(ins.lit[2])
       [] ins.op = "FIELD_GET" -> IfAmong(t[1], {})
       [] ins.op = "CALL_DIRECT" -> ssa_function_return_type(ts, ins.lit[2])
       [] OTHER -> "unknown"

(* A type only goes down: pending, one type, unknown.                      *)
Inferred(ts, x) ==
  LET old == ts[x.f][x.ins.res]
      new == ssa_compute_instr_type(ts, x.f, x.ins)
  IN IF x.ins.res = 0 THEN ts
     ELSE [ts EXCEPT ![x.f][x.ins.res] =
             CASE old = "pending" -> new
               [] old = "unknown" -> old
               [] OTHER -> IF new \in {old, "pending"} THEN old ELSE "unknown"]
SweepOfTypes == FoldLeft(Inferred, types, EveryInstr)

-----------------------------------------------------------------------------
(* Escaping.                                                               *)
Leaves == {"RETURN", "CALL_DIRECT", "CALL_DYNAMIC", "DISPATCH", "UNKNOWN_EFFECT"}
Args(f, ins) == {Of(f, ins.args[i]) : i \in DOMAIN ins.args} \ {0}

(* Mutant: what a phi merges stays when the phi leaves.                    *)
NoPhi(e, x) == IF x.ins.op \in Leaves THEN [e EXCEPT ![x.f] = @ \cup Args(x.f, x.ins)] ELSE e
Marked(e, x) ==
  CASE x.ins.op \in Leaves -> [e EXCEPT ![x.f] = @ \cup Args(x.f, x.ins)]
    [] x.ins.op \in {"FIELD_SET", "INDEX_SET"} /\ Of(x.f, x.ins.args[1]) \in e[x.f] ->
         [e EXCEPT ![x.f] = @ \cup ({Of(x.f, Last(x.ins.args))} \ {0})]
    [] x.ins.op = "PHI" /\ x.ins.res \in e[x.f] -> [e EXCEPT ![x.f] = @ \cup Args(x.f, x.ins)]
    [] OTHER -> e
SweepOfEscapes == FoldLeft(Marked, escaping, EveryInstr)

-----------------------------------------------------------------------------
(* The plan.                                                               *)
IsBuilt(f) == ssa[f].blocks # <<>>
Dead(f, ins) == ins.res # 0 /\ ssa[f].same[ins.res] # 0
Blocks(f) == DOMAIN ssa[f].blocks
Succs(f, B) == UNION {ToSet(ssa[f].blocks[i].succs) : i \in B}

RECURSIVE nat_mark_reachable(_, _)
nat_mark_reachable(f, B) ==
  IF Succs(f, B) \subseteq B THEN B ELSE nat_mark_reachable(f, B \cup Succs(f, B))

nat_param_type(f, i) ==
  TypeOf(types, f, (CHOOSE ins \in ToSet(AllInstrs(f)) : ins.op = "PARAM" /\ ins.lit = V!IntVal(i - 1)).res)
nat_return_type(f) ==
  LET found == {TypeOf(types, f, ins.args[1]) :
               ins \in {x \in ToSet(AllInstrs(f)) : x.op = "RETURN" /\ Len(x.args) = 1}}
  IN IF Cardinality(found) = 1 THEN CHOOSE t \in found : TRUE ELSE "unknown"
Arity(f) == Len(fns[f].kids[1].v)

nat_instr_ok(f, ins) ==
  LET t == TypesOf(types, f, ins)
      rt == TypeOf(types, f, ins.res)
      number == {"int", "float"}
  IN CASE ins.op \in {"CONST_INT", "CONST_FLOAT", "CONST_BOOL", "PARAM"} -> rt \in Scalar
       [] ins.op = "PHI" -> rt \in Scalar /\ ToSet(t) \subseteq {rt}
       [] ins.op \in {"ADD", "SUB", "MUL", "DIV"} \cup Ordering -> {rt, t[1], t[2]} \subseteq number
       [] ins.op \in IntOnly -> {rt, t[1], t[2]} = {"int"}
       [] ins.op \in {"CMP_EQ", "CMP_NE"} -> t[1] \in Scalar /\ t[1] = t[2]
       [] ins.op = "NEG" -> rt \in number /\ t[1] = rt
       [] ins.op = "BIT_NOT" -> t[1] = "int"
       [] ins.op = "NOT" -> t[1] \in Scalar
       [] ins.op = "JUMP" -> TRUE
       [] ins.op = "BRANCH" -> t[1] \in Scalar
       [] ins.op = "RETURN" -> Len(t) = 1 /\ t[1] \in Scalar
       [] ins.op = "CALL_DIRECT" -> rt \in Scalar
       [] OTHER -> FALSE

BlockOk(f, seen, i) ==
  LET blk == ssa[f].blocks[i]
  IN /\ IsInjective(blk.preds)
     /\ \A j \in DOMAIN blk.ins :
          LET ins == blk.ins[j]
          IN \/ Dead(f, ins)
             \/ /\ nat_instr_ok(f, ins)
                /\ ins.op = "PHI" => Len(ins.args) = Len(blk.preds)
                /\ ins.op = "PARAM" => i = 1
     /\ blk.ins # <<>>
     /\ Last(blk.ins).op \in Terminators
     /\ \A to \in ToSet(Last(blk.ins).to) : to \in seen /\ i \in ToSet(ssa[f].blocks[to].preds)

nat_locally_ok(f) ==
  /\ IsBuilt(f)
  /\ nat_return_type(f) \in Scalar
  /\ \A i \in 1 .. Arity(f) : nat_param_type(f, i) \in Scalar
  /\ LET seen == nat_mark_reachable(f, {1}) IN \A i \in seen : BlockOk(f, seen, i)

nat_calls_ok(nat, f) ==
  \A ins \in {x \in ToSet(AllInstrs(f)) : x.op = "CALL_DIRECT" /\ ~Dead(f, x)} :
    LET g == ins.lit[2]
    IN /\ nat[g]
       /\ Len(ins.args) = Arity(g)
       /\ TypeOf(types, f, ins.res) = nat_return_type(g)
       /\ \A i \in DOMAIN ins.args : TypeOf(types, f, ins.args[i]) = nat_param_type(g, i)

Demote(nat, f) == [nat EXCEPT ![f] = @ /\ nat_calls_ok(nat, f)]
SweepOfPlan == FoldLeft(Demote, native, [f \in DOMAIN fns |-> f])

-----------------------------------------------------------------------------
(* The steps of the build.                                                 *)
Init ==
  /\ prog \in Programs
  /\ phase = "check"
  /\ stmts = <<>> /\ marks = <<>> /\ fns = <<>> /\ ssa = <<>> /\ types = <<>>
  /\ escaping = <<>> /\ native = <<>> /\ call = <<>> /\ frames = <<>> /\ result = <<"none">>

Accepted(parsed) ==
  IF ~parsed.s.err /\ S!semantic_analyze(parsed.n) = <<>>
  THEN phase' = "scan" /\ stmts' = parsed.n.kids
  ELSE phase' = "rejected" /\ UNCHANGED stmts
Check ==
  /\ phase = "check"
  /\ Accepted(S!Parse(prog.text, [x \in {} |-> ""]))
  /\ UNCHANGED <<prog, marks, fns, ssa, types, escaping, native, call, frames, result>>

(* What the statements of the program name is kept, and what may be called *)
(* by a way that leaves no name.                                           *)
ScanStatements ==
  /\ phase = "scan"
  /\ phase' = "prune"
  /\ marks' = release_mark_name([i \in DOMAIN stmts |-> stmts[i].k = "fn" /\ StaysAnyway(i)],
                                NamesOfStatements)
  /\ UNCHANGED <<prog, stmts, fns, ssa, types, escaping, native, call, frames, result>>

ScanFunctions ==
  /\ phase = "prune"
  /\ SweepOfReachable # marks
  /\ marks' = SweepOfReachable
  /\ UNCHANGED <<prog, phase, stmts, fns, ssa, types, escaping, native, call, frames, result>>

Prune ==
  LET kept == [i \in DOMAIN Survivors |-> stmts[Survivors[i]]]
  IN /\ phase = "prune"
     /\ SweepOfReachable = marks
     /\ phase' = "suspend"
     /\ stmts' = kept
     /\ fns' = FlattenSeq([i \in DOMAIN kept |-> collect(kept[i])])
     /\ marks' = [i \in DOMAIN fns' |-> FALSE]
     /\ UNCHANGED <<prog, ssa, types, escaping, native, call, frames, result>>

ScanSuspends ==
  /\ phase = "suspend"
  /\ SweepOfSuspends # marks
  /\ marks' = SweepOfSuspends
  /\ UNCHANGED <<prog, phase, stmts, fns, ssa, types, escaping, native, call, frames, result>>

(* Only a function that never suspends is built.                           *)
Build ==
  /\ phase = "suspend"
  /\ SweepOfSuspends = marks
  /\ phase' = "types"
  /\ ssa' = [f \in DOMAIN fns |->
               IF marks[f] THEN [blocks |-> <<>>, same |-> <<>>] ELSE build_function(fns, marks, f)]
  /\ types' = [f \in DOMAIN fns |-> [v \in DOMAIN ssa'[f].same |-> "pending"]]
  /\ UNCHANGED <<prog, stmts, marks, fns, escaping, native, call, frames, result>>

InferTypes ==
  /\ phase = "types"
  /\ SweepOfTypes # types
  /\ types' = SweepOfTypes
  /\ UNCHANGED <<prog, phase, stmts, marks, fns, ssa, escaping, native, call, frames, result>>

FinishTypes ==
  /\ phase = "types"
  /\ SweepOfTypes = types
  /\ phase' = "escape"
  /\ types' = [f \in DOMAIN types |-> [v \in DOMAIN types[f] |->
                 IF types[f][v] = "pending" THEN "unknown" ELSE types[f][v]]]
  /\ escaping' = [f \in DOMAIN fns |-> {}]
  /\ UNCHANGED <<prog, stmts, marks, fns, ssa, native, call, frames, result>>

FindEscapes ==
  /\ phase = "escape"
  /\ SweepOfEscapes # escaping
  /\ escaping' = SweepOfEscapes
  /\ UNCHANGED <<prog, phase, stmts, marks, fns, ssa, types, native, call, frames, result>>

FinishEscapes ==
  /\ phase = "escape"
  /\ SweepOfEscapes = escaping
  /\ phase' = "plan"
  /\ native' = [f \in DOMAIN fns |-> nat_locally_ok(f)]
  /\ UNCHANGED <<prog, stmts, marks, fns, ssa, types, escaping, call, frames, result>>

DemoteCallers ==
  /\ phase = "plan"
  /\ SweepOfPlan # native
  /\ native' = SweepOfPlan
  /\ UNCHANGED <<prog, phase, stmts, marks, fns, ssa, types, escaping, call, frames, result>>

FinishPlan ==
  /\ phase = "plan"
  /\ SweepOfPlan = native
  /\ phase' = "built"
  /\ UNCHANGED <<prog, stmts, marks, fns, ssa, types, escaping, native, call, frames, result>>

-----------------------------------------------------------------------------
(* A native call.  It has a frame on the C stack, with a local per value.  *)
NewFrame(f, args, depth) == [f |-> f, blk |-> 1, at |-> 1, args |-> args, depth |-> depth, vals |-> << >>]
Top == Last(frames)
Called(c) == fntable_resolve(fns, c[1])

(* The boxed body runs if an argument has not the declared type.           *)
Guarded(f, args) == \A i \in DOMAIN args : args[i][1] = nat_param_type(f, i)
RunsNative(c) == Called(c) # 0 /\ native[Called(c)] /\ Guarded(Called(c), c[2])

CallNative ==
  /\ phase = "built"
  /\ \E c \in prog.calls :
       /\ RunsNative(c)
       /\ call' = c
       (* main has a frame, and the boxed call of the function has one *)
       /\ frames' = <<NewFrame(Called(c), c[2], 2)>>
  /\ phase' = "native"
  /\ UNCHANGED <<prog, stmts, marks, fns, ssa, types, escaping, native, result>>

CallBoxed ==
  /\ phase = "built"
  /\ \E c \in prog.calls : ~RunsNative(c) /\ call' = c
  /\ phase' = "boxed"
  /\ UNCHANGED <<prog, stmts, marks, fns, ssa, types, escaping, native, frames, result>>

Finish(how) == phase' = "done" /\ result' = how /\ frames' = <<>>
Keep(stack) == frames' = stack /\ UNCHANGED <<phase, result>>
Goto(v, blk, at) == [Top EXCEPT !.vals = v, !.blk = blk, !.at = at]

BinaryOf == [op \in {"ADD", "SUB", "MUL", "CMP_EQ", "CMP_NE"} \cup Ordering |->
  CASE op = "CMP_LT" -> "LESS" [] op = "CMP_GT" -> "GREATER" [] op = "CMP_LE" -> "LESS_EQUAL"
    [] op = "CMP_GE" -> "GREATER_EQUAL" [] op = "CMP_EQ" -> "EQUAL" [] op = "CMP_NE" -> "NOT_EQUAL"
    [] OTHER -> op]

(* A local of C that was not written holds zero.                           *)
Zero(t) == CASE t = "int" -> V!IntVal(0) [] t = "bool" -> V!BoolVal(FALSE) [] OTHER -> V!FloatVal
Local(x, v) ==
  LET w == Of(x.f, v) IN IF w \in DOMAIN x.vals THEN x.vals[w] ELSE Zero(types[x.f][w])

(* The result is computed in the type that was inferred for it.            *)
Computed(x, ins) ==
  LET a == [i \in DOMAIN ins.args |-> Local(x, ins.args[i])]
      float == TypeOf(types, x.f, ins.res) = "float"
  IN CASE ins.op \in {"CONST_INT", "CONST_FLOAT", "CONST_BOOL"} -> ins.lit
       [] ins.op = "PARAM" -> x.args[ins.lit[2] + 1]
       [] ins.op \in DOMAIN BinaryOf -> IF float THEN V!FloatVal ELSE V!Binary(BinaryOf[ins.op], a[1], a[2])
       [] ins.op = "DIV" -> IF float THEN V!FloatVal ELSE V!IntVal(V!Quotient(a[1][2], a[2][2]))
       [] ins.op = "MOD" -> V!IntVal(V!Remainder(a[1][2], a[2][2]))
       [] ins.op = "NEG" -> IF float THEN V!FloatVal ELSE V!IntVal(-a[1][2])
       [] ins.op = "NOT" -> V!BoolVal(~V!Truthy(a[1]))

(* The phis of a block, and the operand that each takes on an edge.        *)
PhisOf(f, blk) == SelectSeq(ssa[f].blocks[blk].ins, LAMBDA ins : ins.op = "PHI" /\ ~Dead(f, ins))
Incoming(x, to, phi) == phi.args[SelectInSeq(ssa[x.f].blocks[to].preds, LAMBDA p : p = x.blk)]

(* Mutant: the copies of an edge are made one after the other.             *)
OneByOne(x, to) ==
  FoldLeft(LAMBDA vals, phi : (phi.res :> Local([x EXCEPT !.vals = vals], Incoming(x, to, phi))) @@ vals,
           x.vals, PhisOf(x.f, to))
(* The copies of an edge are parallel: all are read before one is written. *)
Copies(x, to) ==
  LET phis == ToSet(PhisOf(x.f, to))
  IN [v \in {phi.res : phi \in phis} |->
        Local(x, Incoming(x, to, CHOOSE phi \in phis : phi.res = v))] @@ x.vals

Instruction == ssa[Top.f].blocks[Top.blk].ins[Top.at]
Divides(ins) == ins.op \in {"DIV", "MOD"} /\ Local(Top, ins.args[2]) = V!IntVal(0)
Assigned == [Top EXCEPT !.vals = (Instruction.res :> Computed(Top, Instruction)) @@ @, !.at = @ + 1]

Native == phase = "native" /\ Top.depth < MaxFrames
UnchangedNative == UNCHANGED <<prog, stmts, marks, fns, ssa, types, escaping, native, call>>

(* An error ends the program: every caller returns at once.                *)
StackOverflow ==
  phase = "native" /\ Top.depth >= MaxFrames /\ Finish(<<"error">>) /\ UnchangedNative

NativeSkip ==
  /\ Native /\ (Instruction.op = "PHI" \/ Dead(Top.f, Instruction))
  /\ Keep(Front(frames) \o <<[Top EXCEPT !.at = @ + 1]>>)
  /\ UnchangedNative

NativeCompute ==
  /\ Native /\ ~Dead(Top.f, Instruction)
  /\ Instruction.op \notin Terminators \cup {"PHI", "CALL_DIRECT"}
  /\ IF Divides(Instruction) THEN Finish(<<"error">>) ELSE Keep(Front(frames) \o <<Assigned>>)
  /\ UnchangedNative

NativeCall ==
  /\ Native /\ Instruction.op = "CALL_DIRECT"
  /\ LET args == [i \in DOMAIN Instruction.args |-> Local(Top, Instruction.args[i])]
     IN Keep(Append(frames, NewFrame(Instruction.lit[2], args, Top.depth + 1)))
  /\ UnchangedNative

NativeJump ==
  /\ Native /\ Instruction.op \in {"JUMP", "BRANCH"}
  /\ LET to == IF Instruction.op = "JUMP" \/ V!Truthy(Local(Top, Instruction.args[1]))
               THEN Instruction.to[1] ELSE Instruction.to[2]
     IN Keep(Front(frames) \o <<Goto(Copies(Top, to), to, 1)>>)
  /\ UnchangedNative

NativeReturn ==
  LET v == Local(Top, Instruction.args[1])
      rest == Front(frames)
      caller == Last(rest)
      into == ssa[caller.f].blocks[caller.blk].ins[caller.at].res
  IN /\ Native /\ Instruction.op = "RETURN"
     /\ IF rest = <<>> THEN Finish(<<"value", v>>)
        ELSE Keep(Front(rest) \o <<[caller EXCEPT !.vals = (into :> v) @@ @, !.at = @ + 1]>>)
     /\ UnchangedNative

Next ==
  \/ Check \/ ScanStatements \/ ScanFunctions \/ Prune \/ ScanSuspends \/ Build \/ InferTypes \/ FinishTypes
  \/ FindEscapes \/ FinishEscapes \/ DemoteCallers \/ FinishPlan \/ CallNative \/ CallBoxed \/ StackOverflow
  \/ NativeSkip \/ NativeCompute \/ NativeCall \/ NativeJump \/ NativeReturn

Spec == Init /\ [][Next]_vars
=============================================================================

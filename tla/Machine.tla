------------------------------ MODULE Machine -------------------------------
(***************************************************************************)
(* The interpreter task_run() of vm.c on the code that the compiler makes: *)
(* one action per opcode, or per branch of one.  A task has a stack of     *)
(* values and a stack of frames.  A frame sees its arguments and locals    *)
(* through `slots`, the cells of the stack above its base, whether they    *)
(* are below the top or not: a cell above the top keeps what was last      *)
(* written to it.                                                          *)
(***************************************************************************)
EXTENDS Compiler

CONSTANTS Programs,     \* the programs, sequences of statements, by name
          StackSize,    \* TASK_STACK_SIZE, 4096
          FramesMax,    \* TASK_FRAMES_MAX, 64
          TriesMax      \* TASK_TRY_MAX, 16

VARIABLES prog,         \* the name of the program
          code,         \* its functions, the main one last
          vm,           \* the task and what it shares with the VM
          seen          \* the ends of loops it came by, and at what height

vars == <<prog, code, vm, seen>>

-----------------------------------------------------------------------------
(* The stack, the frames and the unwinding of an exception.                *)

Frame(v) == Last(v.frames)
Running == vm.status = "running"
Instr == code[Frame(vm).fn].code[Frame(vm).pc]
On(ops) == Running /\ Instr.op \in ops

Advance(v) == [v EXCEPT !.frames[Len(v.frames)].pc = @ + 1]
GoTo(v, a) == [v EXCEPT !.frames[Len(v.frames)].pc = a]
Stop(v, s) == [v EXCEPT !.status = s]

Push(v, x) == IF v.top >= StackSize THEN Stop(v, "smashed")
              ELSE [v EXCEPT !.top = @ + 1, !.stack[v.top + 1] = x]
PushAll(v, xs) == FoldLeft(Push, v, xs)
Drop(v, n) == [v EXCEPT !.top = @ - n]
Peek(v, n) == v.stack[v.top - n]
TopN(v, n) == SubSeq(v.stack, v.top - n + 1, v.top)
Slot(v, i) == v.stack[Frame(v).base + i]

(* handle_vm_exception() and the end of a throw.                           *)
Unwind(v, x) ==
  LET h == Last(v.trys)
      cut == [v EXCEPT !.trys = Front(@), !.frames = SubSeq(@, 1, h.frame), !.top = h.depth]
  IN IF v.trys = <<>> THEN Stop(v, "error") ELSE GoTo(Push(cut, x), h.to)

Raise(v, message) == Unwind(v, StrVal(message))

(* A frame for function f: argc values are on the stack, and the result    *)
(* replaces everything above ret.                                          *)
Enter(v, f, clo, argc, base, ret) ==
  CASE code[f].arity # argc           -> Raise(v, "arity")
    [] Len(v.frames) >= FramesMax    -> Stop(v, "error")
    [] OTHER -> [v EXCEPT !.frames = Append(@, [fn |-> f, pc |-> 1, base |-> base,
                                                ret |-> ret, clo |-> clo])]

Init ==
  \E p \in DOMAIN Programs :
    LET made == CompileProgram(Programs[p])
    IN /\ prog = p
       /\ code = made.fns
       /\ vm = [frames |-> <<[fn |-> Len(made.fns), pc |-> 1, base |-> 0, ret |-> 0, clo |-> 0]>>,
                stack |-> [i \in 1 .. StackSize |-> NilVal], top |-> 0, trys |-> <<>>,
                globals |-> [x \in {"print", "throw"} |-> NativeVal(x)],
                methods |-> NoNames, arrays |-> <<>>, closures |-> <<>>, out |-> <<>>,
                status |-> IF made.err = "" THEN "running" ELSE "rejected"]
       /\ seen = {}

Step(v) == vm' = v /\ UNCHANGED <<prog, code, seen>>

-----------------------------------------------------------------------------
(* Values and operators.                                                   *)

Constant == On({"CONSTANT"}) /\ Step(Push(Advance(vm), Instr.value))
Nil == On({"NIL"}) /\ Step(Push(Advance(vm), NilVal))
PopTop == On({"POP"}) /\ Step(Drop(Advance(vm), 1))

BinaryOp ==
  /\ On(Binaries)
  /\ Step(Push(Drop(Advance(vm), 2), Binary(Instr.op, Peek(vm, 1), Peek(vm, 0))))

Divide ==
  /\ On({"DIV", "MOD"})
  /\ LET b == Peek(vm, 0)
         a == Peek(vm, 1)
         v == Drop(Advance(vm), 2)
         ints == a[1] = "int" /\ b[1] = "int"
     IN Step(CASE b = IntVal(0) -> Raise(v, "Division by zero")
               [] b # IntVal(0) /\ Instr.op = "DIV" ->
                    Push(v, IF ints THEN IntVal(Quotient(a[2], b[2])) ELSE FloatVal)
               [] b # IntVal(0) /\ Instr.op = "MOD" -> Push(v, IntVal(Remainder(a[2], b[2]))))

Unary ==
  /\ On({"NOT", "NEGATE"})
  /\ LET a == Peek(vm, 0)
         v == Drop(Advance(vm), 1)
     IN Step(CASE Instr.op = "NOT" -> Push(v, BoolVal(~Truthy(a)))
               [] Instr.op = "NEGATE" /\ IsNumber(a) -> Push(v, Negated(a))
               [] Instr.op = "NEGATE" /\ ~IsNumber(a) -> Raise(v, "Operand must be a number"))

MakeArray ==
  /\ On({"ARRAY"})
  /\ LET v == Drop(Advance(vm), Instr.n)
     IN Step([Push(v, ArrVal(Len(vm.arrays) + 1)) EXCEPT !.arrays = Append(@, TopN(vm, Instr.n))])

MakeStruct ==
  /\ On({"STRUCT"})
  /\ Step(Push(Drop(Advance(vm), Instr.n), StructVal(Instr.tag, Peek(vm, 0))))

MakeEnum ==
  /\ On({"ENUM"})
  /\ Step(Push(Drop(Advance(vm), Instr.n), EnumVal(Instr.tag, TopN(vm, Instr.n))))

Index ==
  /\ On({"INDEX"})
  /\ LET i == Peek(vm, 0)
         a == Peek(vm, 1)
         v == Drop(Advance(vm), 2)
     IN Step(IF a[1] # "array" \/ i[1] # "int" THEN Raise(v, "not indexable")
             ELSE IF i[2] < 0 \/ i[2] >= Len(vm.arrays[a[2]]) THEN Raise(v, "out of bounds")
                  ELSE Push(v, vm.arrays[a[2]][i[2] + 1]))

SetIndex ==
  /\ On({"SET_INDEX"})
  /\ LET x == Peek(vm, 0)
         i == Peek(vm, 1)
         a == Peek(vm, 2)
         v == Drop(Advance(vm), 3)
     IN Step(IF a[1] # "array" \/ i[1] # "int" THEN Raise(v, "not indexable")
             ELSE IF i[2] < 0 THEN Raise(v, "out of bounds")
                  ELSE [Push(v, x) EXCEPT !.arrays[a[2]] = Grown(@, i[2] + 1, x)])

MemberSafe ==
  /\ On({"MEMBER_SAFE"})
  /\ LET o == Peek(vm, 0)
         v == Drop(Advance(vm), 1)
     IN Step(IF o[1] # "struct" THEN Raise(v, "no field")
             ELSE Push(v, IF Instr.name = "v" THEN o[3] ELSE NilVal))

TagEq ==
  /\ On({"TAG_EQ"})
  /\ LET e == Peek(vm, 0)
     IN Step(Push(Drop(Advance(vm), 1), BoolVal(e[1] = "enum" /\ e[2] = Instr.tag)))

UnpackEnum ==
  /\ On({"UNPACK_ENUM"})
  /\ LET e == Peek(vm, 0)
     IN Step(PushAll(Drop(Advance(vm), 1), IF e[1] = "enum" THEN e[3] ELSE <<NilVal>>))

-----------------------------------------------------------------------------
(* Names.  A name that no table knows ends the program: no handler sees it. *)

DefineGlobal ==
  /\ On({"DEFINE_GLOBAL"})
  /\ Step([Drop(Advance(vm), 1) EXCEPT !.globals = (Instr.name :> Peek(vm, 0)) @@ @])

GetGlobal ==
  /\ On({"GET_GLOBAL"})
  /\ Step(IF Instr.name \in DOMAIN vm.globals THEN Push(Advance(vm), vm.globals[Instr.name])
          ELSE Stop(vm, "error"))

SetGlobal ==
  /\ On({"SET_GLOBAL"})
  /\ Step(IF Instr.name \in DOMAIN vm.globals
          THEN [Advance(vm) EXCEPT !.globals[Instr.name] = Peek(vm, 0)]
          ELSE Stop(vm, "error"))

GetLocal == On({"GET_LOCAL"}) /\ Step(Push(Advance(vm), Slot(vm, Instr.slot)))

SetLocal ==
  /\ On({"SET_LOCAL"})
  /\ LET at == Frame(vm).base + Instr.slot
     IN Step(IF at > StackSize THEN Stop(vm, "smashed")
             ELSE [Advance(vm) EXCEPT !.stack[at] = Peek(vm, 0)])

(* A closure takes a copy of what it captures.  In the initializer of a    *)
(* module the copy of a local is made again when the initializer returns:  *)
(* owner and slots remember where from.                                    *)
Closure ==
  /\ On({"CLOSURE"})
  /\ LET f == Frame(vm)
         Copy(u) == IF u.local THEN Slot(vm, u.index) ELSE vm.closures[f.clo].captured[u.index]
         made == [fn |-> Peek(vm, 0)[2], owner |-> f.base,
                  captured |-> [i \in DOMAIN Instr.ups |-> Copy(Instr.ups[i])],
                  open |-> IF code[f.fn].module
                           THEN [i \in DOMAIN Instr.ups |->
                                   IF Instr.ups[i].local THEN Instr.ups[i].index ELSE 0]
                           ELSE [i \in DOMAIN Instr.ups |-> 0]]
     IN Step([Push(Drop(Advance(vm), 1), CloVal(Len(vm.closures) + 1))
              EXCEPT !.closures = Append(@, made)])

CloseUpvalues(v, base) ==
  [v EXCEPT !.closures =
     [c \in DOMAIN @ |->
        IF @[c].owner # base THEN @[c]
        ELSE [@[c] EXCEPT !.captured = [i \in DOMAIN @ |->
                 IF v.closures[c].open[i] > 0 THEN v.stack[base + v.closures[c].open[i]] ELSE @[i]],
                          !.open = [i \in DOMAIN @ |-> 0]]]]

GetUpvalue ==
  /\ On({"GET_UPVALUE"})
  /\ Step(Push(Advance(vm), vm.closures[Frame(vm).clo].captured[Instr.up]))

SetUpvalue ==
  /\ On({"SET_UPVALUE"})
  /\ Step([Advance(vm) EXCEPT !.closures[Frame(vm).clo].captured[Instr.up] = Peek(vm, 0)])

-----------------------------------------------------------------------------
(* Jumps.                                                                  *)

Jump == On({"JUMP"}) /\ Step(GoTo(vm, Instr.to))

Loop ==
  /\ On({"LOOP"})
  /\ vm' = GoTo(vm, Instr.to)
  /\ seen' = seen \cup {[at |-> <<Frame(vm).fn, Frame(vm).pc, Len(vm.frames), Frame(vm).base>>,
                          height |-> vm.top]}
  /\ UNCHANGED <<prog, code>>

JumpIfFalse ==
  On({"JUMP_IF_FALSE"}) /\ Step(IF Truthy(Peek(vm, 0)) THEN Advance(vm) ELSE GoTo(vm, Instr.to))

JumpIfNil ==
  On({"JUMP_IF_NIL"}) /\ Step(IF Peek(vm, 0) = NilVal THEN GoTo(vm, Instr.to) ELSE Advance(vm))

-----------------------------------------------------------------------------
(* Calls.  The callee lies below its arguments, and the frame begins at    *)
(* the first of them.                                                      *)

Callee == Peek(vm, Instr.n)
Clo(x) == IF x[1] = "closure" THEN x[2] ELSE 0
FnOf(x) == IF x[1] = "closure" THEN vm.closures[x[2]].fn ELSE x[2]

CallPrint ==
  /\ On({"CALL"}) /\ Callee = NativeVal("print")
  /\ Step([Push(Drop(Advance(vm), Instr.n + 1), NilVal)
           EXCEPT !.out = Append(@, [i \in 1 .. Instr.n |-> Shown(TopN(vm, Instr.n)[i])])])

CallThrow ==
  /\ On({"CALL"}) /\ Callee = NativeVal("throw")
  /\ Step(Unwind(Push(Drop(Advance(vm), Instr.n + 1), NilVal), Peek(vm, 0)))

CallFunction ==
  /\ On({"CALL"}) /\ Callee[1] \in {"fn", "closure"}
  /\ Step(Enter(Advance(vm), FnOf(Callee), Clo(Callee), Instr.n,
                vm.top - Instr.n, vm.top - Instr.n - 1))

CallOther ==
  /\ On({"CALL"}) /\ Callee[1] \notin {"fn", "closure", "native"}
  /\ Step(Raise(Advance(vm), "can only call functions"))

(* A method finds its object below its arguments, and the callee above     *)
(* them: the frame has the object as its first argument.                   *)
Object == Peek(vm, Instr.n)

DispatchLen ==
  /\ On({"DISPATCH"}) /\ Object[1] = "array" /\ Instr.name = "len"
  /\ Step(Push(Drop(Advance(vm), Instr.n + 1), IntVal(Len(vm.arrays[Object[2]]))))

DispatchMethod ==
  /\ On({"DISPATCH"}) /\ Object[1] = "struct"
  /\ <<Object[2], Instr.name>> \in DOMAIN vm.methods
  /\ LET m == vm.methods[<<Object[2], Instr.name>>]
         at == vm.top - Instr.n - 1
     IN Step(Enter(Push(Advance(vm), m), FnOf(m), Clo(m), Instr.n + 1, at, at))

(* A field that holds a function is called without the object: the         *)
(* arguments move down over it, and the callee goes above them.            *)
DispatchField ==
  /\ On({"DISPATCH"}) /\ Object[1] = "struct"
  /\ <<Object[2], Instr.name>> \notin DOMAIN vm.methods
  /\ Instr.name = "v" /\ Object[3][1] \in {"fn", "closure"}
  /\ LET m == Object[3]
         at == vm.top - Instr.n - 1
         moved == PushAll(Drop(Advance(vm), Instr.n + 1), Append(TopN(vm, Instr.n), m))
     IN Step(Enter(moved, FnOf(m), Clo(m), Instr.n, at, at))

DispatchOther ==
  /\ On({"DISPATCH"})
  /\ ~(Object[1] = "array" /\ Instr.name = "len")
  /\ ~(Object[1] = "struct" /\ <<Object[2], Instr.name>> \in DOMAIN vm.methods)
  /\ ~(Object[1] = "struct" /\ Instr.name = "v" /\ Object[3][1] \in {"fn", "closure"})
  /\ Step(Raise(Advance(vm), "no method"))

RegisterMethod ==
  /\ On({"REGISTER_METHOD"})
  /\ Step([Advance(vm) EXCEPT !.methods = (<<Instr.type, Instr.name>> :> Peek(vm, 0)) @@ @])

(* The results take the place of everything above the return base.         *)
Leave(results) ==
  LET f == Frame(vm)
      v == IF code[f.fn].module THEN CloseUpvalues(vm, f.base) ELSE vm
      back == [v EXCEPT !.frames = Front(@), !.top = f.ret]
  IN IF Len(vm.frames) = 1 THEN Stop(v, "done") ELSE PushAll(back, results)

Return == On({"RETURN"}) /\ Step(Leave(<<Peek(vm, 0)>>))
ReturnN == On({"RETURN_N"}) /\ Step(Leave(TopN(vm, Instr.n)))

(* `?` on nil leaves the frame as if its arguments and the callee were all *)
(* that lay on the stack.                                                  *)
Propagate ==
  /\ On({"PROPAGATE"})
  /\ LET cut == [vm EXCEPT !.frames = Front(@), !.top = @ - 1 - (code[Frame(vm).fn].arity + 1)]
     IN Step(IF Peek(vm, 0) # NilVal THEN Advance(vm)
             ELSE IF Len(vm.frames) = 1 THEN Stop(vm, "done") ELSE Push(cut, NilVal))

Try ==
  /\ On({"TRY"})
  /\ Step(IF Len(vm.trys) >= TriesMax THEN Stop(vm, "error")
          ELSE [Advance(vm) EXCEPT !.trys = Append(@, [to |-> Instr.to, frame |-> Len(vm.frames),
                                                       depth |-> Frame(vm).base + Instr.locals])])

PopTry ==
  On({"POP_TRY"}) /\ Step([Advance(vm) EXCEPT !.trys = IF @ = <<>> THEN @ ELSE Front(@)])

Halt == On({"HALT"}) /\ Step(Stop(vm, "done"))

Next ==
  \/ Constant \/ Nil \/ PopTop \/ BinaryOp \/ Divide \/ Unary
  \/ MakeArray \/ MakeStruct \/ MakeEnum \/ Index \/ SetIndex \/ MemberSafe \/ TagEq \/ UnpackEnum
  \/ DefineGlobal \/ GetGlobal \/ SetGlobal \/ GetLocal \/ SetLocal
  \/ Closure \/ GetUpvalue \/ SetUpvalue
  \/ Jump \/ Loop \/ JumpIfFalse \/ JumpIfNil
  \/ CallPrint \/ CallThrow \/ CallFunction \/ CallOther
  \/ DispatchLen \/ DispatchMethod \/ DispatchField \/ DispatchOther \/ RegisterMethod
  \/ Return \/ ReturnN \/ Propagate \/ Try \/ PopTry \/ Halt

Spec == Init /\ [][Next]_vars

-----------------------------------------------------------------------------
(* Locals and temporaries never share a cell.  A cell that an instruction  *)
(* reads or writes as a local belongs to the frame: it lies above the      *)
(* frame's base and not above the top of the stack, where the next value   *)
(* pushed would replace it; only the declaration of a name may write the   *)
(* cell it has just pushed.  And between two visits of one loop's end the  *)
(* height of the frame's stack does not change: a loop may run for ever on *)
(* the stack it has.                                                       *)
StackDiscipline ==
  /\ vm.status # "smashed"
  /\ On({"GET_LOCAL", "SET_LOCAL"}) => Frame(vm).base + Instr.slot <= vm.top
  /\ \A p, q \in seen : p.at = q.at => p.height = q.height
=============================================================================

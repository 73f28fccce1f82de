------------------------------- MODULE Trees -------------------------------
(***************************************************************************)
(* The tree that the parser builds (module Parser), in the form in which   *)
(* the compiler and the meaning of a program take it: one record per node, *)
(* with a field for each part that the compiler names.  compile_node() and *)
(* compile_expression() of vm.c choose by the kind of a node as Built and  *)
(* the operators under it do.                                              *)
(*                                                                         *)
(* A number is what its text says, up to MaxNumber; every float is one     *)
(* value (module Values).                                                  *)
(***************************************************************************)
EXTENDS Integers, Sequences, SequencesExt, FiniteSets, TLC

V == INSTANCE Values

MaxNumber == 99
Absent == [k |-> "none"]
NumberOf(text) == CHOOSE i \in 0 .. MaxNumber : ToString(i) = text

BinaryOps == [op \in {"+", "-", "*", "/", "%", "==", "!=", "<", ">", "<=", ">=", "|", "&", "^",
                      "<<", ">>", "??"} |->
  CASE op = "+" -> "ADD" [] op = "-" -> "SUB" [] op = "*" -> "MUL" [] op = "/" -> "DIV"
    [] op = "%" -> "MOD" [] op = "==" -> "EQUAL" [] op = "!=" -> "NOT_EQUAL"
    [] op = "<" -> "LESS" [] op = ">" -> "GREATER" [] op = "<=" -> "LESS_EQUAL"
    [] op = ">=" -> "GREATER_EQUAL" [] op = "|" -> "BIT_OR" [] op = "&" -> "BIT_AND"
    [] op = "^" -> "BIT_XOR" [] op = "<<" -> "SHL" [] op = ">>" -> "SHR"
    [] op = "??" -> "NIL_COALESCE"]
UnaryOps == [op \in {"-", "!", "~"} |->
  CASE op = "-" -> "NEGATE" [] op = "!" -> "NOT" [] op = "~" -> "BIT_NOT"]

Lit(v) == [k |-> "lit", value |-> v]
OperatorOf(op, tag, args) == [k |-> "operator", op |-> op, args |-> args, tag |-> tag]
Expression(e) == [k |-> "expr", expr |-> e]

-----------------------------------------------------------------------------
RECURSIVE Built(_)
BuiltAll(ns) == [i \in DOMAIN ns |-> Built(ns[i])]

(* Of the types of its results, the parser keeps nothing for a function:   *)
(* one that declares several results is compiled as one that declares one. *)
BuiltFn(n) ==
  [k |-> "fn", name |-> n.v[1], params |-> n.kids[1].v, module |-> n.v[2] = "module",
   impl |-> IF n.v[2] = "module" THEN "" ELSE n.v[2],
   returns |-> 1, body |-> BuiltAll(n.kids[2].kids)]

(* A range of two bounds is counted, anything else is asked for its parts. *)
BuiltFor(n) ==
  LET over == n.kids[1]
  IN IF over.k = "tuple" /\ Len(over.kids) = 2
     THEN [k |-> "for", var |-> n.v[1], from |-> Built(over.kids[1]), to |-> Built(over.kids[2]),
           body |-> Built(n.kids[2])]
     ELSE [k |-> "forin", var |-> n.v[1], array |-> Built(over), body |-> Built(n.kids[2])]

(* The operator of a compound assignment is not looked at: `x += 1` is     *)
(* compiled as `x = 1`.                                                    *)
BuiltAssign(n) ==
  LET target == n.kids[1]
      value == Built(n.kids[2])
  IN CASE target.k = "ident" -> [k |-> "assign", name |-> target.v[1], value |-> value]
       [] target.k = "index" -> [k |-> "assignindex", object |-> Built(target.kids[1]),
                                 index |-> Built(target.kids[2]), value |-> value]
       [] target.k = "member" -> OperatorOf("SET_MEMBER", target.v[1], <<Built(target.kids[1]), value>>)
       [] OTHER -> OperatorOf("NOTHING", "", <<>>)

BuiltArm(arm) ==
  [binds |-> arm.v, body |-> Built(arm.kids[2]),
   pattern |-> IF arm.v = <<>> THEN Built(arm.kids[1]) ELSE [tag |-> arm.kids[1].v[2]]]

BuiltBinary(n) ==
  CASE n.v[1] = "&&" -> [k |-> "and", left |-> Built(n.kids[1]), right |-> Built(n.kids[2])]
    [] n.v[1] = "||" -> [k |-> "or", left |-> Built(n.kids[1]), right |-> Built(n.kids[2])]
    [] OTHER -> OperatorOf(BinaryOps[n.v[1]], "", BuiltAll(n.kids))

(* The operands of everything else are all evaluated, from the left.       *)
Operands == [k \in {"array", "tuple", "index", "interp", "send", "receive", "await"} |->
  CASE k = "array" -> "ARRAY" [] k = "tuple" -> "TUPLE" [] k = "index" -> "INDEX"
    [] k = "interp" -> "INTERP" [] k = "send" -> "CHAN_SEND" [] k = "receive" -> "CHAN_RECEIVE"
    [] k = "await" -> "AWAIT"]

BuiltExpression(n) ==
  CASE n.k = "int"    -> Lit(V!IntVal(NumberOf(n.v[1])))
    [] n.k = "float"  -> Lit(V!FloatVal)
    [] n.k = "string" -> Lit(V!StrVal(n.v[1]))
    [] n.k = "bool"   -> Lit(V!BoolVal(n.v[1] = "true"))
    [] n.k = "ident"  -> [k |-> "name", name |-> n.v[1]]
    [] n.k = "binary" -> BuiltBinary(n)
    [] n.k = "unary"  -> OperatorOf(UnaryOps[n.v[1]], "", BuiltAll(n.kids))
    [] n.k = "assign" -> BuiltAssign(n)
    [] n.k = "call"   -> [k |-> "call", callee |-> Built(n.kids[1]), args |-> BuiltAll(Tail(n.kids))]
    [] n.k = "dispatch" -> [k |-> "dispatch", object |-> Built(n.kids[1]), method |-> n.v[1],
                            args |-> BuiltAll(Tail(n.kids))]
    [] n.k = "safe"   -> [k |-> "safe", object |-> Built(n.kids[1]), member |-> n.v[1]]
    [] n.k = "propagate" -> [k |-> "propagate", expr |-> Built(n.kids[1])]
    [] n.k = "member" -> OperatorOf("MEMBER", n.v[1], BuiltAll(n.kids))
    [] n.k = "struct_lit" -> OperatorOf("STRUCT", n.v[1], BuiltAll(n.kids))
    [] n.k = "enum_lit" -> OperatorOf("ENUM", n.v[2], BuiltAll(n.kids))
    [] n.k \in DOMAIN Operands -> OperatorOf(Operands[n.k], "", BuiltAll(n.kids))
    [] n.k = "match"  -> [k |-> "match", value |-> Built(n.kids[1]),
                          arms |-> [i \in 1 .. Len(n.kids) - 1 |-> BuiltArm(n.kids[i + 1])]]
    [] OTHER          -> [k |-> "nil"]

Expressions == {"int", "float", "string", "bool", "null", "ident", "binary", "unary", "assign",
  "call", "dispatch", "safe", "propagate", "member", "struct_lit", "enum_lit", "match"}
  \cup DOMAIN Operands

(* Declarations of structs, enums and traits leave no code behind.         *)
Built(n) ==
  CASE n.k \in Expressions -> BuiltExpression(n)
    [] n.k \in {"let", "const"} ->
         [k |-> "let", names |-> n.v,
          init |-> IF n.kids[1].k = "none" THEN [k |-> "nil"] ELSE Built(n.kids[1])]
    [] n.k = "expr" -> Expression(Built(n.kids[1]))
    [] n.k = "assert" -> Expression(OperatorOf("ASSERT", "", BuiltAll(n.kids)))
    [] n.k = "fn" -> BuiltFn(n)
    [] n.k = "return" -> [k |-> "return", values |-> BuiltAll(n.kids)]
    [] n.k = "block" -> [k |-> "block", stmts |-> BuiltAll(n.kids)]
    [] n.k = "if" -> [k |-> "if", cond |-> Built(n.kids[1]), then |-> Built(n.kids[2]),
                      else |-> Built(n.kids[3])]
    [] n.k = "while" -> [k |-> "while", cond |-> Built(n.kids[1]), body |-> Built(n.kids[2])]
    [] n.k = "loop" -> [k |-> "loop", body |-> Built(n.kids[1])]
    [] n.k = "for" -> BuiltFor(n)
    [] n.k \in {"break", "continue"} -> [k |-> n.k]
    [] n.k = "try" -> [k |-> "try", body |-> Built(n.kids[1]), var |-> n.v[1],
                       catch |-> Built(n.kids[2])]
    [] n.k = "none" -> Absent
    [] OTHER -> [k |-> "block", stmts |-> <<>>]
=============================================================================

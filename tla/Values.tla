------------------------------- MODULE Values -------------------------------
(***************************************************************************)
(* The values of a Varian program and what its operators do with them,     *)
(* shared by the machine, which finds its operands on a stack, and by the  *)
(* meaning of a program, which has none.  An array is known by its place   *)
(* in the heap, a struct has a type and one field, v, and of a float only  *)
(* its kind is kept: no program compares two.                              *)
(***************************************************************************)
EXTENDS Integers, Sequences, FiniteSets, FiniteSetsExt, SequencesExt, TLC

Lambda == "__lambda__"
Discard == "_"

FnVal(i) == <<"fn", i>>
NilVal == <<"nil">>
IntVal(n) == <<"int", n>>
BoolVal(b) == <<"bool", b>>
StrVal(s) == <<"str", s>>
NativeVal(s) == <<"native", s>>
ArrVal(i) == <<"array", i>>
CloVal(i) == <<"closure", i>>
EnumVal(t, vs) == <<"enum", t, vs>>
StructVal(t, v) == <<"struct", t, v>>
FloatVal == <<"float">>
NoNames == [x \in {} |-> NilVal]

Truthy(v) ==
  CASE v[1] = "nil"  -> FALSE
    [] v[1] = "bool" -> v[2]
    [] v[1] = "int"  -> v[2] # 0
    [] v[1] = "str"  -> v[2] # ""
    [] OTHER         -> TRUE

(* What print() shows of a value: not which array or function it is.       *)
Shown(v) ==
  CASE v[1] \in {"closure", "fn"}   -> <<"fn">>
    [] v[1] \in {"array", "native"} -> <<v[1]>>
    [] OTHER                        -> v

(* BINARY_OP_NUM: two integers, or an arithmetic of floats on whatever the *)
(* operands hold.  A comparison gives an integer too.                      *)
Orderings == {"LESS", "GREATER", "LESS_EQUAL", "GREATER_EQUAL"}
Holds(op, m, n) ==
  CASE op = "LESS" -> m < n [] op = "GREATER" -> m > n
    [] op = "LESS_EQUAL" -> m <= n [] op = "GREATER_EQUAL" -> m >= n

(* What a `+` makes of an operand when the other is a string.              *)
TextOf(v) ==
  CASE v[1] = "str"   -> v[2]
    [] v[1] = "int"   -> ToString(v[2])
    [] v[1] = "bool"  -> IF v[2] THEN "true" ELSE "false"
    [] v[1] = "float" -> "<float>"
    [] OTHER          -> "<object>"

Numeric(op, a, b) ==
  CASE op = "ADD" /\ "str" \in {a[1], b[1]} -> StrVal(TextOf(a) \o TextOf(b))
    [] a[1] # "int" \/ b[1] # "int" -> FloatVal
    [] op \in Orderings /\ a[1] = "int" /\ b[1] = "int" -> IntVal(IF Holds(op, a[2], b[2]) THEN 1 ELSE 0)
    [] op = "ADD" /\ a[1] = "int" /\ b[1] = "int" -> IntVal(a[2] + b[2])
    [] op = "SUB" /\ a[1] = "int" /\ b[1] = "int" -> IntVal(a[2] - b[2])
    [] op = "MUL" /\ a[1] = "int" /\ b[1] = "int" -> IntVal(a[2] * b[2])

Numerics == {"ADD", "SUB", "MUL"} \cup Orderings
Binaries == Numerics \cup {"EQUAL", "NOT_EQUAL", "NIL_COALESCE"}

(* value_equal: a closure equals itself, an array, a struct, a function    *)
(* that captures nothing and a native function not even themselves.        *)
RECURSIVE Equal(_, _)
Equal(a, b) ==
  CASE a[1] # b[1]   -> FALSE
    [] a[1] = "enum" /\ b[1] = "enum" ->
         a[2] = b[2] /\ Len(a[3]) = Len(b[3]) /\ \A i \in DOMAIN a[3] : Equal(a[3][i], b[3][i])
    [] OTHER         -> a = b /\ a[1] \notin {"array", "struct", "fn", "native"}

IsNumber(v) == v[1] \in {"int", "float"}
Negated(v) == IF v[1] = "int" THEN IntVal(-v[2]) ELSE FloatVal

Binary(op, a, b) ==
  CASE op \in Numerics       -> Numeric(op, a, b)
    [] op = "EQUAL"          -> BoolVal(Equal(a, b))
    [] op = "NOT_EQUAL"      -> BoolVal(~Equal(a, b))
    [] op = "NIL_COALESCE"   -> IF a = NilVal THEN b ELSE a

(* The division of C goes to zero.                                         *)
Away(n) == IF n < 0 THEN -n ELSE n
Quotient(m, n) == (IF (m < 0) = (n < 0) THEN 1 ELSE -1) * (Away(m) \div Away(n))
Remainder(m, n) == m - n * Quotient(m, n)

(* An assignment beyond the end makes the array longer, with nils between. *)
Grown(seq, i, x) ==
  [j \in 1 .. Max({Len(seq), i}) |->
     IF j = i THEN x ELSE IF j <= Len(seq) THEN seq[j] ELSE NilVal]

(* The names that a statement of a module declares.                        *)
HoistedNames(stmt) ==
  CASE stmt.k = "fn"  -> <<stmt.name>>
    [] stmt.k = "let" -> SelectSeq(stmt.names, LAMBDA x : x # Discard)
    [] OTHER          -> <<>>
=============================================================================

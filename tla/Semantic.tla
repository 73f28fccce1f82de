------------------------------ MODULE Semantic ------------------------------
(***************************************************************************)
(* semantic.c: what `vn run`, `vn check` and the editor are told about a   *)
(* tree before it is compiled.                                             *)
(*                                                                         *)
(* An analyzer a has its scopes, the innermost last, each the sequence of  *)
(* its symbols, its depths in loops and functions, and the diagnostics, a  *)
(* code and a name each.  Left out: places, messages, and the prelude,     *)
(* whose statements are collected and not analysed.                        *)
(***************************************************************************)
EXTENDS Parser

Builtins == {"print", "throw", "ffi_to_string", "assert_eq", "assert_ne", "assert_throws",
  "json_encode", "json_decode", "_lumen_escape_str", "__lumen_log_start", "__lumen_log_drain",
  "__test_enable_arena", "__test_recycle_arena", "new_app", "channel", "task_spawn", "len",
  "type_of", "str", "int", "float", "bool", "assert", "exit", "copy", "clone", "fetch", "JSON",
  "String", "Array", "Object", "Task", "Channel", "Response", "auth", "env", "errors", "http",
  "io", "math", "mock", "postgres", "python", "redis", "regex", "_sanitize", "smtp", "sqlite",
  "task", "time", "_validate", "db", "lumen", "shield", "zenith", "ai", "cache", "config",
  "crypto", "csv", "event", "feature", "i18n", "mail", "migration", "observe", "pagination",
  "queue", "ratelimit", "seo", "storage", "ws"}

Report(a, code, name) == [a EXCEPT !.diags = Append(@, <<code, name>>)]

push_scope(a) == [a EXCEPT !.scopes = Append(@, <<>>)]
(* Mutant: what the scope declared is known behind it.                    *)
KeepScope(a) == a
pop_scope(a)  == [a EXCEPT !.scopes = Front(@)]
InProgramScope(a) == Len(a.scopes) = 1

Symbol(name, const, fn, params) == [name |-> name, const |-> const, fn |-> fn, params |-> params]
NoParams == -1
Variable(name) == Symbol(name, FALSE, FALSE, NoParams)

Found(scope, name) == SelectInSeq(scope, LAMBDA x : x.name = name)
Scopes(a, name) == {d \in DOMAIN a.scopes : Found(a.scopes[d], name) # 0}
IsKnown(a, name) == Scopes(a, name) # {}
lookup_symbol(a, name) ==
  LET scope == a.scopes[Max(Scopes(a, name))]
  IN scope[SelectLastInSeq(scope, LAMBDA x : x.name = name)]

(* A name is declared once in a scope, but any number of times in the      *)
(* program's: there the first symbol is kept and told of the new function. *)
add_symbol(a, x, isParam) ==
  LET d == Len(a.scopes)
      i == Found(a.scopes[d], x.name)
  IN CASE x.name \in {"_", "__lambda__"} -> a
       [] x.name \notin {"_", "__lambda__"} /\ i = 0 -> [a EXCEPT !.scopes[d] = Append(@, x)]
       [] x.name \notin {"_", "__lambda__"} /\ i # 0 /\ InProgramScope(a) ->
            [a EXCEPT !.scopes[d][i].params = IF x.params # NoParams THEN x.params ELSE @,
                      !.scopes[d][i].fn = @ \/ x.fn]
       [] OTHER -> Report(a, IF isParam THEN "DUP_PARAM" ELSE "DUP_DECL", x.name)

RECURSIVE AddAll(_, _, _), Collect(_, _)
AddAll(a, symbols, isParam) ==
  IF symbols = <<>> THEN a ELSE AddAll(add_symbol(a, Head(symbols), isParam), Tail(symbols), isParam)

ParamCount(fn) == Len(fn.kids[1].v)
FnSymbol(n) == Symbol(n.v[1], FALSE, TRUE, ParamCount(n))
LetSymbols(n) == [i \in DOMAIN n.v |-> Symbol(n.v[i], n.k = "const", FALSE, NoParams)]
IsMethod(fn) == fn.v[2] \notin {"", "module"}

(* What a statement of the program declares: known before any is analysed. *)
collect_top_level_symbol(a, n) ==
  CASE n.k = "block" -> Collect(a, n.kids)
    [] n.k = "fn" -> IF IsMethod(n) /\ Found(Last(a.scopes), n.v[1]) # 0 THEN a
                     ELSE add_symbol(a, FnSymbol(n), FALSE)
    [] n.k = "ffi" -> add_symbol(a, FnSymbol(n), FALSE)
    [] n.k \in {"struct", "actor", "trait"} -> add_symbol(a, Variable(n.v[1]), FALSE)
    [] n.k = "enum" ->
         AddAll(a, [i \in DOMAIN n.v |-> Variable(IF i = 1 THEN n.v[1] ELSE n.v[1] \o "::" \o n.v[i])], FALSE)
    [] n.k \in {"let", "const"} -> AddAll(a, LetSymbols(n), FALSE)
    [] OTHER -> a

Collect(a, stmts) ==
  IF stmts = <<>> THEN a ELSE Collect(collect_top_level_symbol(a, Head(stmts)), Tail(stmts))

(* Only the literals int, float, string and bool are ever compared.        *)
check_type_annotation_mismatch(a, type, init) ==
  IF /\ type.k = "type" /\ type.v[1] \in {"int", "float", "string", "bool"}
     /\ init.k \in {"int", "float", "string", "bool"} /\ init.k # type.v[1]
  THEN Report(a, "TYPE_MISMATCH", init.k) ELSE a

-----------------------------------------------------------------------------
RECURSIVE analyze_expr(_, _), analyze_node(_, _), Exprs(_, _), Nodes(_, _), Arms(_, _)
(* The nodes from the left.  (No loop count is below 0: the test only has  *)
(* TLC compute a before it goes on, which keeps its own stack short.)      *)
Exprs(a, ns) ==
  IF a.loop >= 0 /\ ns # <<>> THEN Exprs(analyze_expr(a, Head(ns)), Tail(ns)) ELSE a
Nodes(a, ns) ==
  IF a.loop >= 0 /\ ns # <<>> THEN Nodes(analyze_node(a, Head(ns)), Tail(ns)) ELSE a

NameUse(a, name) ==
  IF IsKnown(a, name) \/ name \in Builtins THEN a ELSE Report(a, "UNDEF_ID", name)

Assigned(a, target) ==
  IF target.k = "ident" /\ IsKnown(a, target.v[1]) /\ lookup_symbol(a, target.v[1]).const
  THEN Report(a, "ASSIGN_CONST", target.v[1]) ELSE a

CheckArity(a, call) ==
  LET f == call.kids[1]
      x == lookup_symbol(a, f.v[1])
  IN IF /\ f.k = "ident" /\ IsKnown(a, f.v[1])
        /\ x.fn /\ x.params \notin {NoParams, Len(call.kids) - 1}
     THEN Report(a, "ARITY_MISMATCH", f.v[1]) ELSE a

(* A `match` in an expression is not analysed, nor is what is in it.       *)
analyze_expr(a, n) ==
  CASE n.k = "ident" ->
         IF n.v[1] = "_" \/ (a.impl # "" /\ n.v[1] = "self") THEN a ELSE NameUse(a, n.v[1])
    [] n.k = "call" -> CheckArity(Exprs(a, n.kids), n)
    [] n.k \in {"binary", "unary", "member", "safe", "index", "dispatch", "array", "tuple",
                "interp", "propagate", "await", "send", "receive"} -> Exprs(a, n.kids)
    [] n.k = "assign" -> Exprs(Assigned(a, n.kids[1]), n.kids)
    [] n.k \in {"struct_lit", "enum_lit"} -> Exprs(NameUse(a, n.v[1]), n.kids)
    [] n.k \in {"fn"} -> analyze_node(a, n)
    [] n.k = "comptime" -> analyze_node(a, n.kids[1])
    [] OTHER -> a

InLoop(a, n) ==
  [analyze_node([a EXCEPT !.loop = @ + 1], n) EXCEPT !.loop = @ - 1]

(* A function of any scope but the program's is declared where it stands.  *)
AnalyzeFn(a, n) ==
  LET declared == IF InProgramScope(a) THEN a ELSE add_symbol(a, FnSymbol(n), FALSE)
      entered  == [push_scope(declared) EXCEPT !.fn = @ + 1, !.loop = 0,
                                               !.impl = IF IsMethod(n) THEN n.v[2] ELSE @]
      params   == [i \in 1 .. ParamCount(n) |-> Variable(n.kids[1].v[i])]
      body     == analyze_node(AddAll(entered, params, TRUE), n.kids[2])
  IN [pop_scope(body) EXCEPT !.fn = a.fn, !.loop = a.loop, !.impl = a.impl]

(* Mutant: a name is declared before its value is analysed.                *)
LetBeforeInit(a, n) ==
  check_type_annotation_mismatch(
    analyze_expr(IF InProgramScope(a) THEN a ELSE AddAll(a, LetSymbols(n), FALSE), n.kids[1]),
    n.kids[2], n.kids[1])

(* The names of the program's own scope are known since they were collected. *)
AnalyzeLet(a, n) ==
  LET init == check_type_annotation_mismatch(analyze_expr(a, n.kids[1]), n.kids[2], n.kids[1])
  IN IF InProgramScope(a) THEN init ELSE AddAll(init, LetSymbols(n), FALSE)

DuplicateFields(a, n) ==
  LET fields == Tail(n.v)
      pairs == {p \in (DOMAIN fields) \X (DOMAIN fields) : p[1] < p[2] /\ fields[p[1]] = fields[p[2]]}
  IN [a EXCEPT !.diags = @ \o [i \in 1 .. Cardinality(pairs) |-> <<"DUP_DECL", "field">>]]

(* The body of an arm is analysed as a statement.                          *)
Arms(a, arms) ==
  IF arms = <<>> THEN a
  ELSE LET arm     == Head(arms)
           pattern == arm.kids[1]
           bound   == AddAll(push_scope(a), [i \in DOMAIN arm.v |-> Variable(arm.v[i])], FALSE)
           tested  == IF pattern.k = "enum_lit" /\ arm.v # <<>> THEN NameUse(bound, pattern.v[1])
                      ELSE analyze_expr(bound, pattern)
       IN Arms(pop_scope(analyze_node(tested, arm.kids[2])), Tail(arms))

analyze_node(a, n) ==
  CASE n.k = "program" -> Nodes(a, n.kids)
    [] n.k = "block" -> pop_scope(Nodes(push_scope(a), n.kids))
    [] n.k \in {"let", "const"} -> AnalyzeLet(a, n)
    [] n.k = "fn"   -> AnalyzeFn(a, n)
    [] n.k = "expr" -> Exprs(a, n.kids)
    [] n.k = "assert" -> Exprs(a, n.kids)
    [] n.k = "if" -> Nodes(analyze_expr(a, n.kids[1]), Tail(n.kids))
    [] n.k = "while" -> InLoop(analyze_expr(a, n.kids[1]), n.kids[2])
    [] n.k = "loop" -> InLoop(a, n.kids[1])
    [] n.k = "for" ->
         pop_scope(InLoop(add_symbol(push_scope(analyze_expr(a, n.kids[1])), Variable(n.v[1]), FALSE),
                          n.kids[2]))
    [] n.k \in {"break", "continue"} ->
         IF a.loop > 0 THEN a ELSE Report(a, "OUTSIDE_LOOP", n.k)
    [] n.k = "return" ->
         Exprs(IF a.fn > 0 THEN a ELSE Report(a, "OUTSIDE_FN", n.k), n.kids)
    [] n.k = "assign" -> Exprs(Assigned(a, n.kids[1]), n.kids)
    [] n.k = "struct" -> DuplicateFields(a, n)
    [] n.k = "match" -> Arms(analyze_expr(a, n.kids[1]), Tail(n.kids))
    [] n.k = "try" ->
         LET caught == push_scope(analyze_node(a, n.kids[1]))
         IN pop_scope(analyze_node(IF n.v[1] = "" THEN caught
                                   ELSE add_symbol(caught, Variable(n.v[1]), FALSE), n.kids[2]))
    [] n.k = "test" -> pop_scope(analyze_node(push_scope(a), n.kids[1]))
    [] OTHER -> a

semantic_analyze(program) ==
  analyze_node(Collect([scopes |-> <<<<>>>>, diags |-> <<>>, loop |-> 0, fn |-> 0, impl |-> ""],
                       program.kids), program).diags
=============================================================================

-------------------------------- MODULE Lint --------------------------------
(***************************************************************************)
(* lint.c: what `vn lint` and the editor say about a tree.                 *)
(*                                                                         *)
(* A walker w has its scopes, the innermost last, each the sequence of its *)
(* bindings; whether it is in a loop; how deep statements are nested; and  *)
(* the findings, a category and the name they are about.  Left out: places *)
(* and messages, the category that a user asks for, the prelude, and the   *)
(* checks of components and of style sheets in .lumen files.               *)
(***************************************************************************)
EXTENDS Parser

MaxNestingDepth == 4
MaxFnStatements == 40

known_native_methods == {"abs", "acos", "append", "asin", "atan", "atan2", "bit_and", "bit_or",
  "bit_xor", "build", "ceil", "channel", "clamp", "close", "close_socket", "cmd", "code_at",
  "connect", "constant_time_eq", "contains", "cos", "cosh", "create_struct", "decrypt",
  "deg_to_rad", "delete", "drain_changes", "encrypt", "ends_with", "escape_html", "exists", "exp",
  "explain", "fields", "find_all", "floor", "from_codes", "generate_token", "get", "get_field",
  "get_keys", "groups", "has", "hash_password", "hash_password_v2", "hash_sha256", "id",
  "index_of", "intercept", "is", "is_alphanumeric", "is_email", "is_url", "is_uuid", "join",
  "keys", "kind", "last_index_of", "len", "lerp", "limit", "list_dir", "load", "log", "log10",
  "log2", "lower", "make", "match", "max", "max_arr", "max_len", "mean", "median", "min",
  "min_arr", "min_len", "mkdir", "now_iso8601", "now_ms", "offset", "order_by", "paginate",
  "parse_multipart", "post", "post_stream", "pow", "product", "push", "query", "rad_to_deg",
  "randfloat", "randint", "random", "read_bytes", "read_socket", "read_text", "replace",
  "require", "restore", "round", "run", "seed", "select", "send", "serve", "serve_tls",
  "serve_with_routes", "set", "sha1_base64", "shuffle", "sign", "sign_jwt", "sign_jwt_v2", "sin",
  "sinh", "sleep", "spawn", "split", "sqrt", "starts_with", "stddev", "strip_html", "substring",
  "sum", "tanh", "test", "test_request", "totp_generate", "totp_secret", "totp_verify", "trim",
  "trunc", "try_receive", "upper", "variance", "verify_jwt", "verify_jwt_v2", "verify_password",
  "verify_password_v2", "where", "write_bytes", "write_socket", "write_text", "stream_start",
  "stream_write", "stream_end", "yield"}

known_decorator_names == {"validate", "is_email", "is_url", "is_alphanumeric", "min_len",
  "max_len", "is_uuid", "cache", "retry", "ffi"}

report_lint(w, category, name) == [w EXCEPT !.out = Append(@, <<category, name>>)]
ReportIf(w, b, category, name) == IF b THEN report_lint(w, category, name) ELSE w

(* Whether a text has another in it, in small letters or capitals.         *)
Capital == [c \in Chars("abcdefghijklmnopqrstuvwxyz") |->
  At("ABCDEFGHIJKLMNOPQRSTUVWXYZ", CHOOSE i \in 1 .. 26 : At("abcdefghijklmnopqrstuvwxyz", i) = c)]
lint_strcasestr(s, t) ==
  \E i \in 0 .. Len(s) - Len(t) : \A j \in 1 .. Len(t) :
    \/ At(s, i + j) = At(t, j)
    \/ At(t, j) \in DOMAIN Capital /\ At(s, i + j) = Capital[At(t, j)]
    \/ At(s, i + j) \in DOMAIN Capital /\ At(t, j) = Capital[At(s, i + j)]

(* A long text that is given to a name like this is a secret in the source. *)
IsSecret(name, e) ==
  /\ e.k = "string" /\ Len(e.v[1]) > 12
  /\ lint_strcasestr(name, "password") \/ lint_strcasestr(name, "api_key")

-----------------------------------------------------------------------------
Binding(name, used) == [name |-> name, used |-> used]
Opened(w, bindings) == [w EXCEPT !.scopes = Append(@, bindings)]
Closed(w) == [w EXCEPT !.scopes = Front(@)]
InScope(scope, name) == SelectInSeq(scope, LAMBDA b : b.name = name)

lookup_ancestor(w, name) == \E d \in 1 .. Len(w.scopes) - 1 : InScope(w.scopes[d], name) # 0

(* The first binding of the name in the innermost scope that has one.      *)
mark_used(w, name) ==
  LET ds == {d \in DOMAIN w.scopes : InScope(w.scopes[d], name) # 0}
  IN IF ds = {} THEN w
     ELSE [w EXCEPT !.scopes[Max(ds)][InScope(w.scopes[Max(ds)], name)].used = TRUE]

RECURSIVE Bind(_, _), ReportUnused(_, _, _)
Bind(w, names) ==
  IF names = <<>> THEN w
  ELSE LET told == ReportIf(w, lookup_ancestor(w, Head(names)), "shadowed", Head(names))
       IN Bind([told EXCEPT !.scopes[Len(w.scopes)] = Append(@, Binding(Head(names), FALSE))],
               Tail(names))

ReportUnused(w, scope, category) ==
  IF scope = <<>> THEN w
  ELSE ReportUnused(ReportIf(w, ~Head(scope).used, category, Head(scope).name), Tail(scope), category)

is_terminator(n) ==
  \/ n.k \in {"return", "break", "continue"}
  \/ n.k = "expr" /\ n.kids[1].k = "call" /\ n.kids[1].kids[1] = Ident("throw")

-----------------------------------------------------------------------------
(* Calls of the database, of mail and of migrations.                       *)
CalledName(f) == IF f.k \in {"ident", "member"} THEN f.v[1] ELSE ""
Args(call) == Tail(call.kids)

is_sql_function_name(name) == name \in {"query", "select", "compile_select", "QueryBuilder"}
is_raw_query_function_name(name) == name \in {"query", "cmd"}

check_sql_call_unsafe(call) ==
  LET f == call.kids[1]
  IN /\ \/ is_sql_function_name(CalledName(f))
        \/ f.k = "member" /\ f.kids[1].k = "ident" /\ is_sql_function_name(f.kids[1].v[1])
     /\ \E i \in DOMAIN Args(call) : Args(call)[i].k = "binary" /\ Args(call)[i].v[1] = "+"

ReportEach(w, ns, category, Bad(_)) ==
  LET bad == SelectSeq(ns, Bad)
  IN [w EXCEPT !.out = @ \o [i \in DOMAIN bad |-> <<category, bad[i].k>>]]

MissesLimit(e) == /\ e.k = "string" /\ lint_strcasestr(e.v[1], "select")
                  /\ ~lint_strcasestr(e.v[1], "limit")
RawQuery(w, args) ==
  ReportEach(ReportIf(w, w.loop, "performance", "query"), args, "performance", MissesLimit)

(* The sender and the receiver of a mail have an @ in them.                *)
NoAddress(e) == e.k = "string" /\ ~lint_strcasestr(e.v[1], "@")
CheckMail(w, call) ==
  LET name == CalledName(call.kids[1])
      from == IF name = "send_smtp" THEN 3 ELSE 2
      args == Args(call)
      count == ReportIf(w, Len(args) # from + 3, "arguments", name)
  IN IF name \notin {"send_smtp", "send_resend"} THEN w
     ELSE ReportEach(count, SubSeq(args, from, Min({from + 1, Len(args)})), "arguments", NoAddress)

DropsTable(e) == e.k = "string" /\ lint_strcasestr(e.v[1], "DROP TABLE")
CheckMigration(w, n) ==
  IF n.v[1] \notin {"register", "register_up"} THEN w
  ELSE ReportEach(w, Args(n), "security", DropsTable)

(* fetch(...) as a statement does nothing without a method that sends it.  *)
RECURSIVE check_has_terminal_fetch_method(_), Root(_)
check_has_terminal_fetch_method(n) ==
  n.k = "dispatch" /\ (\/ n.v[1] \in {"get", "post", "put", "delete", "json"}
                       \/ check_has_terminal_fetch_method(n.kids[1]))
Root(n) == IF n.k = "dispatch" THEN Root(n.kids[1]) ELSE n
UnsentFetch(e) ==
  /\ Root(e).k = "call" /\ Root(e).kids[1] = Ident("fetch")
  /\ ~check_has_terminal_fetch_method(e)

-----------------------------------------------------------------------------
(* Declarations.                                                           *)
RECURSIVE Duplicates(_, _), Unknown(_, _)
Duplicates(w, names) ==
  IF names = <<>> THEN w
  ELSE LET again == SelectSeq(Tail(names), LAMBDA x : x = Head(names))
       IN Duplicates([w EXCEPT !.out = @ \o [i \in DOMAIN again |-> <<"duplicate", again[i]>>]],
                     Tail(names))

Unknown(w, decorators) ==
  IF decorators = <<>> THEN w
  ELSE Unknown(ReportIf(w, Head(decorators).v[1] \notin known_decorator_names,
                        "unknown-decorator", Head(decorators).v[1]), Tail(decorators))

WalkStruct(w, n) ==
  LET own == SelectSeq(n.kids, LAMBDA d : d.k = "decorator")
      fields == SelectSeq(n.kids, LAMBDA d : d.k = "field")
  IN Unknown(Duplicates(w, Tail(n.v)), own \o FlattenSeq([i \in DOMAIN fields |-> fields[i].kids]))

-----------------------------------------------------------------------------
RECURSIVE lint_walk(_, _), WalkAll(_, _), WalkStmts(_, _, _)
WalkAll(w, ns) == IF ns = <<>> THEN w ELSE WalkAll(lint_walk(w, Head(ns)), Tail(ns))

(* What stands behind a terminator is reported and not walked.             *)
WalkStmts(w, stmts, dead) ==
  IF stmts = <<>> THEN w
  ELSE IF dead THEN WalkStmts(report_lint(w, "unreachable", Head(stmts).k), Tail(stmts), TRUE)
       ELSE WalkStmts(lint_walk(w, Head(stmts)), Tail(stmts), is_terminator(Head(stmts)))

WalkBlock(w, n) ==
  LET body == WalkStmts(Opened(w, <<>>), n.kids, FALSE)
  IN Closed(ReportUnused(body, Last(body.scopes), "unused"))

Nested(w) ==
  LET d == w.depth + 1 IN ReportIf([w EXCEPT !.depth = d], d = MaxNestingDepth + 1, "style", "nesting")

WalkLoop(w, body) ==
  LET b == lint_walk(Nested([w EXCEPT !.loop = TRUE]), body)
  IN [b EXCEPT !.depth = w.depth, !.loop = w.loop]

WalkFor(w, n) ==
  Closed(WalkLoop(Opened(lint_walk(w, n.kids[1]), <<Binding(n.v[1], TRUE)>>), n.kids[2]))

WalkIf(w, n) ==
  LET c == lint_walk(w, n.kids[1]) IN [WalkAll(Nested(c), Tail(n.kids)) EXCEPT !.depth = w.depth]

WalkLet(w, n) ==
  LET init == lint_walk(w, n.kids[1])
      secrets == SelectSeq(n.v, LAMBDA name : n.k = "let" /\ IsSecret(name, n.kids[1]))
  IN Bind([init EXCEPT !.out = @ \o [i \in DOMAIN secrets |-> <<"security", secrets[i]>>]], n.v)

WalkAssign(w, n) ==
  LET to == n.kids[1]
      secret == to.k \in {"ident", "member"} /\ IsSecret(to.v[1], n.kids[2])
  IN WalkAll(ReportIf(w, secret, "security", CalledName(to)), n.kids)

WalkStructLiteral(w, n) ==
  LET at == SelectSeq([i \in DOMAIN n.kids |-> i], LAMBDA i : IsSecret(n.v[i + 1], n.kids[i]))
  IN WalkAll([w EXCEPT !.out = @ \o [i \in DOMAIN at |-> <<"security", n.v[at[i] + 1]>>]], n.kids)

(* The parameters are a scope; the body of a function nests anew.          *)
RECURSIVE Parameters(_)
Parameters(names) ==
  IF names = <<>> THEN <<>>
  ELSE <<Binding(Head(names), Head(names) = "self" \/ At(Head(names), 1) = "_")>> \o Parameters(Tail(names))

WalkFn(w, n) ==
  LET method == n.v[2] \notin {"", "module"}
      told == ReportIf(w, method /\ n.v[1] \in known_native_methods, "collision", n.v[1])
      body == lint_walk([Opened(told, Parameters(n.kids[1].v)) EXCEPT !.depth = 0], n.kids[2])
      unused == ReportUnused(Closed(body), Last(body.scopes), "style")
      long == n.kids[2].k = "block" /\ Len(n.kids[2].kids) > MaxFnStatements
  IN [ReportIf(unused, long, "style", n.v[1]) EXCEPT !.depth = w.depth]

WalkTry(w, n) ==
  LET body == lint_walk(w, n.kids[1])
      scope == IF n.v[1] = "" THEN <<>> ELSE <<Binding(n.v[1], FALSE)>>
  IN Closed(lint_walk(Opened(body, scope), n.kids[2]))

WalkCall(w, n) ==
  LET unsafe == ReportIf(CheckMail(w, n), check_sql_call_unsafe(n), "security", "query")
      raw == n.kids[1].k = "member" /\ is_raw_query_function_name(n.kids[1].v[1])
  IN WalkAll(IF raw THEN RawQuery(unsafe, Args(n)) ELSE unsafe, n.kids)

WalkDispatch(w, n) ==
  LET checked == CheckMigration(w, n)
  IN WalkAll(IF is_raw_query_function_name(n.v[1]) THEN RawQuery(checked, Args(n)) ELSE checked, n.kids)

lint_walk(w, n) ==
  CASE n.k \in {"let", "const"} -> WalkLet(w, n)
    [] n.k = "ident"      -> mark_used(w, n.v[1])
    [] n.k = "block"      -> WalkBlock(w, n)
    [] n.k = "expr"       -> WalkAll(ReportIf(w, UnsentFetch(n.kids[1]), "unused", "fetch"), n.kids)
    [] n.k = "if"         -> WalkIf(w, n)
    [] n.k = "while"      -> WalkLoop(lint_walk(w, n.kids[1]), n.kids[2])
    [] n.k = "for"        -> WalkFor(w, n)
    [] n.k = "loop"       -> WalkLoop(w, n.kids[1])
    [] n.k = "assign"     -> WalkAssign(w, n)
    [] n.k = "call"       -> WalkCall(w, n)
    [] n.k = "dispatch"   -> WalkDispatch(w, n)
    [] n.k = "struct_lit" -> WalkStructLiteral(w, n)
    [] n.k = "struct"     -> WalkStruct(w, n)
    [] n.k \in {"actor", "enum"} -> Duplicates(w, Tail(n.v))
    [] n.k = "fn"         -> WalkFn(w, n)
    [] n.k = "try"        -> WalkTry(w, n)
    [] n.k \in {"program", "return", "binary", "unary", "index", "member", "safe", "interp",
                "array", "tuple", "match", "arm", "test", "send", "receive", "enum_lit", "await",
                "propagate", "assert", "comptime"} -> WalkAll(w, n.kids)
    [] OTHER -> w

(* The findings of a program, in the order in which they are reported.     *)
lint_buffer(program) ==
  lint_walk([scopes |-> <<<<>>>>, loop |-> FALSE, depth |-> 0, out |-> <<>>], program).out
=============================================================================

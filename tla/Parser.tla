------------------------------- MODULE Parser -------------------------------
(***************************************************************************)
(* parser.c: the tree of a program, with the packages it uses.             *)
(*                                                                         *)
(* The state s of a parser is the tokens and the place of the current one, *)
(* whether an error was met, what was declared so far (functions, structs, *)
(* enums, methods), the packages that can be found, and those included.    *)
(* Every operator named after a function of the source returns the node n  *)
(* it built and the state s it left.  Like the code, it goes on behind an  *)
(* error.  A node is a kind, names, and the nodes below it.                *)
(*                                                                         *)
(* Left out: places in the source but for the lines that a call depends    *)
(* on, the wording of messages, the sizes of tables (64 parameters, 128    *)
(* structs, 1024 statements ...), and `schema`, which the lexer never      *)
(* returns as a keyword.                                                   *)
(***************************************************************************)
EXTENDS Lexer

Node(k, v, kids) == [k |-> k, v |-> v, kids |-> kids]
NoNode == Node("none", <<>>, <<>>)
NullLit == Node("null", <<>>, <<>>)
TrueLit == Node("bool", <<"true">>, <<>>)
Ident(name) == Node("ident", <<name>>, <<>>)
BlockOf(stmts) == Node("block", <<>>, stmts)
ReturnOf(e) == BlockOf(<<Node("return", <<>>, <<e>>)>>)

R(n, s) == [n |-> n, s |-> s]
Fails(s) == [s EXCEPT !.err = TRUE]
Nothing(s) == R(NullLit, Fails(s))

Current(s) == s.toks[s.at]
Previous(s) == s.toks[s.at - 1]
Is(s, type) == Current(s).type = type
IsName(s) == Is(s, "ID")
Word(s) == Current(s).text
advance(s) == IF s.at = Len(s.toks) THEN s ELSE [s EXCEPT !.at = @ + 1]
consume(s, type) == IF Is(s, type) THEN advance(s) ELSE Fails(s)
match(s, type) == IF Is(s, type) THEN advance(s) ELSE s

-----------------------------------------------------------------------------
(* What was declared.  The first struct or enum of a name counts, and the  *)
(* last function.                                                          *)
BuiltinMethods == {"len", "upper", "lower", "substring", "trim", "spawn", "serve",
  "serve_with_routes", "push", "append", "join", "split", "starts_with", "replace",
  "write_socket", "close_socket", "read_socket", "stream_start", "stream_write", "stream_end",
  "code_at", "from_codes", "sha1_base64", "hash_password", "verify_password", "bit_and",
  "bit_or", "bit_xor", "index_of", "last_index_of", "contains", "ends_with", "set", "get",
  "has", "keys", "get_field", "get_keys", "read", "write", "close", "header", "timeout", "post"}

IsStruct(s, name) == \E i \in DOMAIN s.structs : s.structs[i] = name
FindEnum(s, name) == SelectInSeq(s.enums, LAMBDA e : e.name = name)
FindFunction(s, name) == SelectLastInSeq(s.fns, LAMBDA f : f.name = name)
AddMethod(s, name) == [s EXCEPT !.methods = @ \cup {name}]

parser_init(source, files) ==
  [toks |-> Lex(source), at |-> 1, err |-> FALSE, hung |-> FALSE, fns |-> <<>>, structs |-> <<>>,
   enums |-> <<>>, methods |-> BuiltinMethods, files |-> files, used |-> {}]

-----------------------------------------------------------------------------
RECURSIVE Rule(_, _), Listed(_, _), Unbraced(_, _), UnionRest(_), Stmts(_), parse_if_stmt(_),
  parse_assignment(_), Level(_, _), LevelRest(_, _, _), Decorators(_), Members(_, _),
  Signatures(_), MatchArms(_)

(* do { item } while (match(COMMA)): the items, their names, and whether a *)
(* list goes on behind each.  Item returns no node where the code breaks.  *)
Listed(kind, s) ==
  LET a == Rule(kind, s) IN
  IF a.n = <<>> \/ ~Is(a.s, ",") THEN a
  ELSE LET rest == Listed(kind, advance(a.s)) IN R(a.n \o rest.n, rest.s)

(* The items between s and the closing token.                              *)
ListedUpTo(close, kind, s) ==
  LET a == IF Is(s, close) THEN R(<<>>, s) ELSE Listed(kind, s)
  IN R(a.n, consume(a.s, close))

(* while (!check(close) && !check(EOF)) { item; if (!match(COMMA)) break; } *)
Unbraced(close, s) ==
  IF Is(s, close[1]) \/ Is(s, "EOF") THEN R(<<>>, consume(s, close[1]))
  ELSE LET a == Rule(close[2], s) IN
       IF a.n = <<>> \/ ~Is(a.s, ",") THEN R(a.n, consume(a.s, close[1]))
       ELSE LET rest == Unbraced(close, advance(a.s)) IN R(a.n \o rest.n, rest.s)

Keyed(s, value) == R(<<Node("field", <<Word(s)>>, <<value.n>>)>>, value.s)

Item(kind, s) ==
  CASE kind = "types" -> LET t == Rule("type", s) IN R(<<t.n>>, t.s)
    [] kind = "exprs" -> LET e == Rule("expr", s) IN R(<<e.n>>, e.s)
    [] kind = "arg" ->
         LET e == Rule("expr", s) IN
         IF e.n.k = "ident" /\ Is(e.s, ":")
         THEN LET named == Rule("expr", advance(e.s))
              IN R(<<Node("named", e.n.v, <<named.n>>)>>, named.s)
         ELSE R(<<e.n>>, e.s)
    [] kind \in {"param", "method param"} /\ IsName(s) ->
         IF Is(advance(s), ":")
         THEN LET t == Rule("type", advance(advance(s)))
              IN R(<<Node("param", <<Word(s)>>, <<t.n>>)>>, t.s)
         ELSE R(<<Node("param", <<Word(s)>>, <<>>)>>, advance(s))
    [] kind = "name" /\ IsName(s) -> R(<<Node("param", <<Word(s)>>, <<>>)>>, advance(s))
    [] kind = "variant" /\ IsName(s) ->
         LET types == IF Is(advance(s), "(")
                      THEN Unbraced(<<")", "types">>, advance(advance(s)))
                      ELSE R(<<>>, advance(s))
         IN R(<<Node("variant", <<Word(s)>>, types.n)>>, types.s)
    [] kind = "key" /\ IsName(s) -> Keyed(s, Rule("expr", consume(advance(s), ":")))
    [] kind = "object key" /\ IsName(s) -> Keyed(s, Rule("expr", consume(advance(s), ":")))
    [] kind = "object key" /\ Is(s, "STRING") ->
         LET e == Rule("expr", consume(advance(s), ":"))
         IN R(<<Node("field", <<Current(s).value>>, <<e.n>>)>>, e.s)
    [] kind = "struct field" ->
         LET d == Decorators(s)
             t == IF Is(advance(d.s), ":") THEN Rule("type", advance(advance(d.s))).s
                  ELSE advance(d.s)
         IN IF IsName(d.s) THEN R(<<Node("field", <<Word(d.s)>>, d.n)>>, t)
            ELSE R(<<>>, Fails(d.s))
    [] kind \in {"method param", "name", "key"} -> R(<<>>, s)
    [] OTHER -> R(<<>>, Fails(s))

-----------------------------------------------------------------------------
(* Types are read and, but for the parameters of functions and the type of *)
(* a `let`, forgotten.                                                     *)
PrimitiveTypes == {"bool", "int", "float", "string", "byte", "void"}
TypeOf(name, kids) == Node("type", <<name>>, kids)

parse_type_inner(s) ==
  CASE Is(s, "[") ->
         LET t == Rule("type", advance(s)) IN R(TypeOf("[]", <<t.n>>), consume(t.s, "]"))
    [] Is(s, "fn") ->
         LET params == ListedUpTo(")", "types", consume(advance(s), "("))
             result == IF Is(params.s, "->") THEN Rule("type", advance(params.s))
                       ELSE R(TypeOf("void", <<>>), params.s)
         IN R(TypeOf("fn", Append(params.n, result.n)), result.s)
    [] Is(s, "(") ->
         LET ts == Listed("types", advance(s))
         IN R(IF Len(ts.n) = 1 THEN ts.n[1] ELSE TypeOf("()", ts.n), consume(ts.s, ")"))
    [] Current(s).type \in PrimitiveTypes -> R(TypeOf(Word(s), <<>>), advance(s))
    [] Is(s, "null") -> R(TypeOf("void", <<>>), advance(s))
    [] IsName(s) ->
         R(TypeOf(Word(s), <<>>),
           IF ~Is(advance(s), "<") \/ Word(s) \in {"ptr", "c_int", "c_double", "c_float", "c_char"}
           THEN advance(s)
           ELSE Unbraced(<<">", "types">>, advance(advance(s))).s)
    [] OTHER -> R(TypeOf("void", <<>>), Fails(s))

UnionRest(s) == IF Is(s, "|") THEN UnionRest(parse_type_inner(advance(s)).s) ELSE s
parse_type(s) ==
  LET Rest(t) == R(t.n, match(UnionRest(t.s), "?")) IN Rest(parse_type_inner(s))

(* <A, B> behind the name of a declaration.                                *)
parse_type_params(s) ==
  IF Is(s, "<") THEN Unbraced(<<">", "name">>, advance(s)).s ELSE s

-----------------------------------------------------------------------------
(* Statements up to a closing brace.  One that consumes no token is tried  *)
(* again and again, which only the limit on a body's statements ends.      *)
Stmts(s) ==
  IF Is(s, "}") \/ Is(s, "EOF") THEN R(<<>>, s)
  ELSE LET a == Rule("stmt", s) IN
       IF a.s.at = s.at THEN R(<<a.n>>, a.s)
       ELSE LET rest == Stmts(a.s) IN R(<<a.n>> \o rest.n, rest.s)

Body(s) == LET b == Stmts(s) IN R(BlockOf(b.n), consume(b.s, "}"))
parse_block(s) == Body(consume(s, "{"))

(* Names, then a type if there is one name, then a value.                  *)
parse_let_decl(s) ==
  LET word  == Previous(s).type
      names == IF IsName(s) THEN Listed("name", s) ELSE R(<<>>, s)
      type  == IF Len(names.n) = 1 /\ Is(names.s, ":") THEN Rule("type", advance(names.s))
               ELSE R(NoNode, names.s)
      value == IF Is(type.s, "=") THEN Rule("expr", advance(type.s))
               ELSE R(NoNode, IF word = "let" THEN type.s ELSE Fails(type.s))
  IN IF names.n = <<>> THEN Nothing(s)
     ELSE R(Node(word, [i \in DOMAIN names.n |-> names.n[i].v[1]], <<value.n, type.n>>),
            match(value.s, ";"))

(* { statements }, => expression, or nothing.                              *)
FnBody(s) ==
  CASE Is(s, "{")  -> Body(advance(s))
    [] Is(s, "=>") -> LET e == Rule("expr", advance(s)) IN R(ReturnOf(e.n), e.s)
    [] OTHER       -> R(NoNode, s)

FnNode(name, of, params, body) ==
  Node("fn", <<name, of>>, <<Node("params", [i \in DOMAIN params |-> params[i].v[1]], params), body>>)

(* fn name(params) -> types body, which declares the name behind the body. *)
parse_fn_decl(s) ==
  LET params == ListedUpTo(")", "param", consume(parse_type_params(advance(s)), "("))
      result == IF Is(params.s, "->") THEN Listed("types", advance(params.s)).s ELSE params.s
      body   == FnBody(result)
      fn     == FnNode(Word(s), "", params.n, body.n)
  IN IF ~IsName(s) THEN Nothing(s)
     ELSE R(fn, [body.s EXCEPT !.fns = Append(@, [name |-> Word(s), params |-> fn.kids[1].v])])

(* A method of type `of`, from its name on.  Its parameters may end with a *)
(* comma, and it may be used in its own body.                              *)
parse_method(of, s) ==
  LET params == ListedUpTo(")", "method param", consume(AddMethod(advance(s), Word(s)), "("))
      result == IF Is(params.s, "->") THEN Rule("type", advance(params.s)).s ELSE params.s
      body   == FnBody(result)
  IN R(FnNode(Word(s), of, params.n, body.n), body.s)

(* @ffi("library", "function") fn name(params) -> type, from ffi on.       *)
parse_ffi_decl(s) ==
  LET lib    == consume(advance(s), "(")
      func   == consume(advance(lib), ",")
      fn     == consume(advance(func), ")")
      name   == advance(fn)
      params == ListedUpTo(")", "param", consume(advance(name), "("))
      result == IF Is(params.s, "->") THEN Rule("type", advance(params.s))
                ELSE R(TypeOf("void", <<>>), params.s)
  IN CASE ~Is(lib, "STRING")  -> Nothing(lib)
       [] ~Is(func, "STRING") -> Nothing(func)
       [] ~Is(fn, "fn")       -> Nothing(fn)
       [] ~IsName(name)       -> Nothing(name)
       [] OTHER -> R(Node("ffi", <<Word(name), Current(lib).value, Current(func).value>>,
                          <<Node("params", [i \in DOMAIN params.n |-> params.n[i].v[1]], params.n),
                            result.n>>), result.s)

(* comptime { } has no limit on its statements: it never ends at a token   *)
(* that cannot begin one.                                                  *)
parse_comptime(s) ==
  IF Is(s, "{")
  THEN LET body == Stmts(advance(s))
           stuck == ~Is(body.s, "}") /\ ~Is(body.s, "EOF")
       IN R(Node("comptime", <<>>, <<BlockOf(body.n)>>),
            [consume(body.s, "}") EXCEPT !.hung = @ \/ stuck])
  ELSE LET e == Rule("expr", s) IN R(Node("comptime", <<>>, <<e.n>>), match(e.s, ";"))

parse_if_stmt(s) ==
  LET cond == Rule("expr", s)
      then == parse_block(cond.s)
      els  == CASE Is(then.s, "else") /\ Is(advance(then.s), "if") -> parse_if_stmt(advance(advance(then.s)))
                [] Is(then.s, "else") -> parse_block(advance(then.s))
                [] OTHER -> R(NoNode, then.s)
  IN R(Node("if", <<>>, <<cond.n, then.n, els.n>>), els.s)

parse_while_stmt(s) ==
  LET cond == Rule("expr", s)
      body == parse_block(cond.s)
  IN R(Node("while", <<>>, <<cond.n, body.n>>), body.s)

parse_for_stmt(s) ==
  LET over == Rule("expr", consume(advance(s), "in"))
      body == parse_block(over.s)
  IN IF IsName(s) THEN R(Node("for", <<Word(s)>>, <<over.n, body.n>>), body.s) ELSE Nothing(s)

parse_loop_stmt(s) == LET body == parse_block(s) IN R(Node("loop", <<>>, <<body.n>>), body.s)

parse_return_stmt(s) ==
  LET values == IF Current(s).type \in {"}", ";", "EOF"} THEN R(<<>>, s) ELSE Listed("exprs", s)
  IN R(Node("return", <<>>, values.n), match(values.s, ";"))

ParseTry(s) ==
  LET body  == parse_block(s)
      named == IsName(advance(body.s))
      hand  == parse_block(IF named THEN advance(advance(body.s)) ELSE advance(body.s))
  IN IF Is(body.s, "catch")
     THEN R(Node("try", <<IF named THEN Word(advance(body.s)) ELSE "">>, <<body.n, hand.n>>), hand.s)
     ELSE R(Node("try", <<"">>, <<body.n, NoNode>>), body.s)

parse_test_decl(s) ==
  LET body == Body(advance(advance(s)))
  IN IF Is(s, "STRING") /\ Is(advance(s), "{")
     THEN R(Node("test", <<Word(s)>>, <<body.n>>), body.s)
     ELSE Nothing(match(s, "STRING"))

-----------------------------------------------------------------------------
(* @name or @name(expression), any number of them.                         *)
Decorator(s) ==
  LET value == Rule("expr", advance(advance(s)))
  IN IF Is(advance(s), "(")
     THEN R(Node("decorator", <<Word(s)>>, <<value.n>>), consume(value.s, ")"))
     ELSE R(Node("decorator", <<Word(s)>>, <<TrueLit>>), advance(s))

Decorators(s) ==
  CASE ~Is(s, "@") -> R(<<>>, s)
    [] Is(s, "@") /\ ~IsName(advance(s)) -> R(<<>>, Fails(advance(s)))
    [] OTHER -> LET one  == Decorator(advance(s))
                    rest == Decorators(one.s)
                IN R(<<one.n>> \o rest.n, rest.s)

Names(items) == [i \in DOMAIN items |-> items[i].v[1]]

(* struct Name { field: Type, ... }; only decorators are kept with a field. *)
parse_struct_decl(s0) ==
  LET d == Decorators(s0)
      s == d.s
      fields == Unbraced(<<"}", "struct field">>, consume(parse_type_params(advance(s)), "{"))
  IN IF ~IsName(s) THEN Nothing(s)
     ELSE R(Node("struct", <<Word(s)>> \o Names(fields.n), d.n \o fields.n),
            [fields.s EXCEPT !.structs = Append(@, Word(s))])

parse_enum_decl(s) ==
  LET variants == Unbraced(<<"}", "variant">>, consume(parse_type_params(advance(s)), "{"))
  IN IF ~IsName(s) THEN Nothing(s)
     ELSE R(Node("enum", <<Word(s)>> \o Names(variants.n), variants.n),
            [variants.s EXCEPT !.enums = Append(@, [name |-> Word(s), variants |-> Names(variants.n)])])

(* The methods of an `impl`, or the methods and fields of an actor.        *)
Members(of, s) ==
  LET Method(m) == LET rest == Members(of, m.s) IN R(<<m.n>> \o rest.n, rest.s)
      Field(end) ==
        LET field == Node("field", <<Word(s)>>, <<>>)
            rest  == Members(of, advance(end))
        IN IF Is(end, ",") THEN R(<<field>> \o rest.n, rest.s) ELSE R(<<field>>, end)
      Default(at) == IF Is(at, "=") THEN Rule("expr", advance(at)).s ELSE at
  IN CASE Is(s, "}") \/ Is(s, "EOF") -> R(<<>>, s)
       [] Is(s, "fn") /\ IsName(advance(s)) -> Method(parse_method(of.name, advance(s)))
       [] of.actor /\ IsName(s) ->
            Field(Default(IF Is(advance(s), ":") THEN Rule("type", advance(advance(s))).s ELSE advance(s)))
       [] OTHER -> R(<<>>, Fails(match(s, "fn")))

MembersOf(s, actor) == Members([name |-> Word(s), actor |-> actor], consume(advance(s), "{"))

parse_impl_block(s) ==
  LET Block(ms) == R(BlockOf(ms.n), consume(ms.s, "}"))
  IN IF IsName(s) THEN Block(MembersOf(s, FALSE)) ELSE Nothing(s)

(* An actor is a block of its declaration and its methods.                 *)
parse_actor_decl(s) ==
  LET Kept(ms, k) == SelectSeq(ms, LAMBDA m : m.k = k)
      Actor(ms) ==
        R(BlockOf(<<Node("actor", <<Word(s)>> \o Names(Kept(ms.n, "field")), <<>>)>> \o Kept(ms.n, "fn")),
          [consume(ms.s, "}") EXCEPT !.structs = Append(@, Word(s))])
  IN IF IsName(s) THEN Actor(MembersOf(s, TRUE)) ELSE Nothing(s)

(* Behind the parenthesis that closes the one before s.                    *)
RECURSIVE Unparen(_, _)
Unparen(s, depth) ==
  CASE Is(s, "EOF") -> s
    [] Is(s, "(")   -> Unparen(advance(s), depth + 1)
    [] Is(s, ")")   -> IF depth = 1 THEN advance(s) ELSE Unparen(advance(s), depth - 1)
    [] OTHER        -> Unparen(advance(s), depth)

(* The methods of a trait: no more than their names is kept.               *)
Signatures(s) ==
  CASE Is(s, "}") \/ Is(s, "EOF") -> R(<<>>, s)
    [] Is(s, "fn") /\ IsName(advance(s)) ->
         LET name == advance(s)
             sig  == IF Is(advance(name), "(") THEN Unparen(advance(advance(name)), 1) ELSE advance(name)
             type == IF Is(sig, "->") THEN Rule("type", advance(sig)).s ELSE sig
             rest == Signatures(match(match(type, ";"), ","))
         IN R(<<Word(name)>> \o rest.n, rest.s)
    [] OTHER -> R(<<>>, IF Is(s, "fn") THEN advance(s) ELSE Fails(s))

parse_trait_decl(s) ==
  LET sigs == Signatures(consume(advance(s), "{"))
  IN IF IsName(s) THEN R(Node("trait", <<Word(s)>> \o sigs.n, <<>>), consume(sigs.s, "}"))
     ELSE Nothing(s)

-----------------------------------------------------------------------------
(* Decorators in front of a function are kept with it; in front of         *)
(* anything else they are an error, and in front of @ffi they are lost.    *)
RECURSIVE Decorated(_, _)
Decorated(s, before) ==
  CASE Is(s, "@") /\ IsName(advance(s)) /\ Word(advance(s)) = "ffi" -> parse_ffi_decl(advance(s))
    [] Is(s, "@") /\ IsName(advance(s)) /\ Word(advance(s)) # "ffi" ->
         LET Rest(d) == Decorated(d.s, Append(before, d.n)) IN Rest(Decorator(advance(s)))
    [] Is(s, "@") /\ ~IsName(advance(s)) -> Nothing(advance(s))
    [] Is(s, "fn") ->
         LET With(fn) == R([fn.n EXCEPT !.kids = @ \o before], fn.s) IN With(parse_fn_decl(advance(s)))
    [] OTHER -> Nothing(s)

ExprStmt(s) == LET e == Rule("expr", s) IN R(Node("expr", <<>>, <<e.n>>), match(e.s, ";"))

(* A brace at the start of a statement is taken, and the block behind it   *)
(* asks for one more.                                                      *)
parse_stmt(s) ==
  LET t == Current(s).type
      next == advance(s)
  IN CASE t \in {"let", "const"} -> parse_let_decl(next)
       [] t \in {"@", "fn"} -> Decorated(s, <<>>)
       [] t = "if"       -> parse_if_stmt(next)
       [] t = "while"    -> parse_while_stmt(next)
       [] t = "for"      -> parse_for_stmt(next)
       [] t = "loop"     -> parse_loop_stmt(next)
       [] t = "return"   -> parse_return_stmt(next)
       [] t \in {"break", "continue"} -> R(Node(t, <<>>, <<>>), match(next, ";"))
       [] t = "{"        -> parse_block(next)
       [] t = "struct"   -> parse_struct_decl(next)
       [] t = "enum"     -> parse_enum_decl(next)
       [] t = "actor"    -> parse_actor_decl(next)
       [] t = "impl"     -> parse_impl_block(next)
       [] t = "trait"    -> parse_trait_decl(next)
       [] t = "comptime" -> parse_comptime(next)
       [] t = "try"      -> ParseTry(next)
       [] t = "assert"   -> LET e == Rule("expr", next) IN R(Node("assert", <<>>, <<e.n>>), e.s)
       [] t = "test"     -> parse_test_decl(next)
       [] OTHER          -> ExprStmt(s)

-----------------------------------------------------------------------------
(* Expressions, from the operators that bind least.                        *)
parse_expr(s) ==
  LET Upto(from, to) == R(Node("tuple", <<>>, <<from.n, to.n>>), to.s)
      From(from) == IF Is(from.s, "..") THEN Upto(from, parse_assignment(advance(from.s))) ELSE from
  IN From(parse_assignment(s))

AssignOps == {"=", "+=", "-=", "*=", "/=", "<-"}
parse_assignment(s) ==
  LET left  == Level(1, s)
      op    == Current(left.s).type
      right == parse_assignment(advance(left.s))
  IN CASE op \notin AssignOps -> left
       [] op = "<-" -> R(Node("send", <<>>, <<left.n, right.n>>), right.s)
       [] OTHER     -> R(Node("assign", <<op>>, <<left.n, right.n>>), right.s)

(* The binary operators, from the level that binds least.  A chain of the  *)
(* operators of one level associates to the left.                          *)
Levels == <<{"??"}, {"||"}, {"&&"}, {"==", "!="}, {"<", ">", "<=", ">="}, {"|"}, {"^"}, {"&"},
            {"<<", ">>"}, {"+", "-"}, {"*", "/", "%"}>>
LevelOf == [op \in UNION {Levels[l] : l \in DOMAIN Levels} |-> CHOOSE l \in DOMAIN Levels : op \in Levels[l]]

(* Mutant: a chain of the operators of one level associates to the right.  *)
ToTheRight(l, left, s) ==
  LET op == Current(s).type IN
  IF (op \in DOMAIN LevelOf => LevelOf[op] < l) THEN R(left, s)
  ELSE LET right == Level(LevelOf[op], advance(s))
       IN LevelRest(l, Node("binary", <<op>>, <<left, right.n>>), right.s)

LevelRest(l, left, s) ==
  LET op == Current(s).type IN
  IF (op \in DOMAIN LevelOf => LevelOf[op] < l) THEN R(left, s)
  ELSE LET right == Level(LevelOf[op] + 1, advance(s))
       IN LevelRest(l, Node("binary", <<op>>, <<left, right.n>>), right.s)

Level(l, s) == LET left == Rule("unary", s) IN LevelRest(l, left.n, left.s)

-----------------------------------------------------------------------------
(* The arguments of a call of a function by name, in the order of its      *)
(* parameters.  Of two that have one name, the second counts.              *)
finish_call(callee, s) ==
  LET args  == ListedUpTo(")", "arg", s)
      Plain(a) == IF a.k = "named" THEN a.kids[1] ELSE a
      call  == Node("call", <<>>, <<callee>> \o [i \in DOMAIN args.n |-> Plain(args.n[i])])
      f     == IF callee.k = "ident" THEN FindFunction(args.s, callee.v[1]) ELSE 0
      params == args.s.fns[f].params
      Given(p) == SelectLastInSeq(args.n, LAMBDA a : a.v[1] = p)
      allNamed == \A i \in DOMAIN args.n : args.n[i].k = "named"
  IN CASE \A i \in DOMAIN args.n : args.n[i].k # "named" -> R(call, args.s)
       [] OTHER ->
            IF /\ f # 0 /\ allNamed
               /\ \A i \in DOMAIN args.n : \E j \in DOMAIN params : params[j] = args.n[i].v[1]
               /\ \A j \in DOMAIN params : Given(params[j]) # 0
            THEN R(Node("call", <<>>, <<callee>> \o
                        [j \in DOMAIN params |-> args.n[Given(params[j])].kids[1]]), args.s)
            ELSE R(call, Fails(args.s))

parse_struct_literal(name, s) ==
  LET fields == Unbraced(<<"}", "key">>, advance(s))
  IN R(Node("struct_lit", <<name>> \o Names(fields.n),
            [i \in DOMAIN fields.n |-> fields.n[i].kids[1]]), fields.s)

(* Name::Variant or Name::Variant(values), from the colons on.             *)
parse_enum_literal(enum, s) ==
  LET variant == advance(s)
      known == \E i \in DOMAIN s.enums[FindEnum(s, enum)].variants :
                 s.enums[FindEnum(s, enum)].variants[i] = Word(variant)
      values == IF Is(advance(variant), "(") THEN Unbraced(<<")", "exprs">>, advance(advance(variant)))
                ELSE R(<<>>, advance(variant))
  IN CASE ~IsName(variant) -> Nothing(variant)
       [] IsName(variant) /\ ~known -> Nothing(advance(variant))
       [] OTHER -> R(Node("enum_lit", <<enum, Word(variant)>>, values.n), values.s)

(* What a name may begin: a struct, an enum or a static method.            *)
Qualified(e, s) ==
  LET member == advance(s)
      name   == Word(member)
  IN CASE e.k = "ident" /\ Is(s, "{") /\ IsStruct(s, e.v[1]) -> parse_struct_literal(e.v[1], s)
       [] e.k = "ident" /\ Is(s, "::") /\ FindEnum(s, e.v[1]) # 0 -> parse_enum_literal(e.v[1], s)
       [] e.k = "ident" /\ Is(s, "::") /\ FindEnum(s, e.v[1]) = 0 ->
            CASE ~IsName(member) -> R(e, member)
              [] IsName(member) /\ Is(advance(member), "(") /\ name \in s.methods ->
                   R(Ident(name), advance(member))
              [] OTHER -> R(Node("member", <<name>>, <<e>>), advance(member))
       [] OTHER -> R(e, s)

(* Calls, indices, members and `?` behind e.  A parenthesis on a line of   *)
(* its own begins another statement; a bracket there does not.             *)
RECURSIVE ChainFrom(_)
ChainFrom(e) ==
  LET s == e.s
      t == Current(s)
      next == advance(s)
      member == At(Word(next), 1) \in NameStart
      behind == advance(next)
      Index(i) == R(Node("index", <<>>, <<e.n, i.n>>), consume(i.s, "]"))
      Dispatch(args) == R(Node("dispatch", <<Word(next)>>, <<e.n>> \o args.n), args.s)
  IN CASE t.type = "(" /\ t.line = Previous(s).line -> ChainFrom(finish_call(e.n, next))
       [] t.type = "[" -> ChainFrom(Index(Rule("expr", next)))
       [] t.type \in {".", "?."} /\ ~member -> R(e.n, Fails(next))
       [] t.type = "." /\ member /\ Is(behind, "(") /\ Word(next) \in s.methods ->
            ChainFrom(Dispatch(ListedUpTo(")", "exprs", advance(behind))))
       [] t.type = "." /\ member /\ ~(Is(behind, "(") /\ Word(next) \in s.methods) ->
            ChainFrom(R(Node("member", <<Word(next)>>, <<e.n>>), behind))
       [] t.type = "?." /\ member -> ChainFrom(R(Node("safe", <<Word(next)>>, <<e.n>>), behind))
       [] t.type = "?" -> ChainFrom(R(Node("propagate", <<>>, <<e.n>>), next))
       [] OTHER -> e

(* A literal of a struct or an enum ends the chain.                        *)
ChainUnless(ends, q) == IF ends /\ q.n.k \in {"struct_lit", "enum_lit"} THEN q ELSE ChainFrom(q)
Chain(e) == ChainUnless(e.n.k = "ident", Qualified(e.n, e.s))

-----------------------------------------------------------------------------
(* The parts of a string.  An expression is parsed on its own: it knows no *)
(* declaration, and its errors, and what follows it, are forgotten.        *)
StringPart(p) ==
  CASE ~p.expr -> <<Node("string", <<p.text>>, <<>>)>>
    [] p.expr /\ p.closed /\ p.text # "" -> <<Rule("expr", parser_init(p.text, <<>>)).n>>
    [] OTHER -> <<>>
StringParts(parts) == FlattenSeq([i \in DOMAIN parts |-> StringPart(parts[i])])

(* An arm binds the names in the place of an enum's values, if all of them *)
(* are names.                                                              *)
MatchArms(s) ==
  IF Is(s, "}") \/ Is(s, "EOF") THEN R(<<>>, s)
  ELSE LET pattern == Rule("expr", s)
           body == Rule("expr", consume(pattern.s, "=>"))
           values == pattern.n.kids
           binds == IF pattern.n.k = "enum_lit" /\ \A i \in DOMAIN values : values[i].k = "ident"
                    THEN Names(values) ELSE <<>>
           rest == MatchArms(match(body.s, ","))
       IN IF match(body.s, ",").at = s.at THEN R(<<>>, body.s)
          ELSE R(<<Node("arm", binds, <<pattern.n, body.n>>)>> \o rest.n, rest.s)

Lambda(s) ==
  LET params == ListedUpTo("|", "name", s)
      body   == IF Is(params.s, "=>") THEN Rule("expr", advance(params.s)) ELSE parse_block(params.s)
  IN R(FnNode("__lambda__", "", params.n,
              IF body.n.k = "block" THEN BlockOf(<<body.n>>) ELSE ReturnOf(body.n)), body.s)

parse_primary(s) ==
  LET t == Current(s)
      next == advance(s)
      first == Listed("exprs", next)
      items == Unbraced(<<"]", "exprs">>, next)
      fields == Unbraced(<<"}", "object key">>, next)
      value == Rule("expr", next)
      arms == MatchArms(consume(value.s, "{"))
  IN CASE t.type \in {"false", "true"} -> R(Node("bool", <<t.type>>, <<>>), next)
       [] t.type = "null" -> R(NullLit, next)
       [] t.type = "INT" -> R(Node("int", <<t.text>>, <<>>), next)
       [] t.type = "FLOAT" -> R(Node("float", <<t.text>>, <<>>), next)
       [] t.type \in {"STRING", "REGEX"} -> R(Node("string", <<t.value>>, <<>>), next)
       [] t.type = "INTERP" -> R(Node("interp", <<>>, StringParts(t.value)), next)
       [] t.type = "comptime" -> parse_comptime(next)
       [] t.type = "ID" -> R(Ident(t.text), next)
       [] t.type = "match" -> R(Node("match", <<>>, <<value.n>> \o arms.n), consume(arms.s, "}"))
       [] t.type = "(" /\ Is(next, ")") -> R(Node("tuple", <<>>, <<>>), advance(next))
       [] t.type = "(" /\ ~Is(next, ")") ->
            R(IF Len(first.n) = 1 THEN first.n[1] ELSE Node("tuple", <<>>, first.n),
              consume(first.s, ")"))
       [] t.type = "[" -> R(Node("array", <<>>, items.n), items.s)
       [] t.type = "{" -> R(Node("struct_lit", <<"Object">> \o Names(fields.n),
                                 [i \in DOMAIN fields.n |-> fields.n[i].kids[1]]), fields.s)
       [] t.type = "|" -> Lambda(next)
       [] OTHER -> Nothing(s)

parse_unary(s) ==
  LET op == Current(s).type
      operand == Rule("unary", advance(s))
  IN CASE op \in {"-", "!", "~"} -> R(Node("unary", <<op>>, <<operand.n>>), operand.s)
       [] op = "await" -> R(Node("await", <<>>, <<operand.n>>), operand.s)
       [] op = "<-"    -> R(Node("receive", <<>>, <<operand.n>>), operand.s)
       [] OTHER -> Chain(parse_primary(s))

(* Every way back into the grammar.                                        *)
Rule(what, s) ==
  CASE what = "type"  -> parse_type(s)
    [] what = "stmt"  -> parse_stmt(s)
    [] what = "expr"  -> parse_expr(s)
    [] what = "unary" -> parse_unary(s)
    [] OTHER          -> Item(what, s)

-----------------------------------------------------------------------------
(* `use "name"` puts the statements of a package in its place; `use "name" *)
(* as alias` puts them in a function that returns what they declare, and   *)
(* calls it.  A package is included once in a whole program.               *)
RECURSIVE Mangled(_), parser_parse(_), TopLevel(_)
Mangled(name) ==
  IF name = "" THEN ""
  ELSE (IF At(name, 1) \in Letters \cup Digits THEN At(name, 1) ELSE "_")
       \o Mangled(SubSeq(name, 2, Len(name)))
InitName(package) == "__module_init_" \o Mangled(package)

BindAlias(alias, package) ==
  Node("const", <<alias>>, <<Node("call", <<>>, <<Ident(InitName(package))>>), NoNode>>)

(* The names a package exports: its functions and variables, but those     *)
(* that begin with an underscore.                                          *)
Exports(stmts) ==
  SelectSeq(FlattenSeq([i \in DOMAIN stmts |->
              CASE stmts[i].k = "fn" -> <<stmts[i].v[1]>>
                [] stmts[i].k \in {"let", "const"} -> stmts[i].v
                [] OTHER -> <<>>]),
            LAMBDA name : At(name, 1) # "_")

ModuleInit(package, stmts) ==
  LET names == Exports(stmts)
      object == Node("struct_lit", <<"Object">> \o names, [i \in DOMAIN names |-> Ident(names[i])])
  IN Node("fn", <<InitName(package), "module">>,
          <<Node("params", <<>>, <<>>), BlockOf(Append(stmts, Node("return", <<>>, <<object>>)))>>)

(* Mutant: an alias is always given a module of its own.                   *)
OfItsOwn(s, package) == package \in s.used /\ ~Is(s, "as") /\ Previous(s).type # "ID"
Included(s, package) == package \in s.used

(* What the package declared is in its place, or in a function behind.     *)
Spliced(package, named, alias, sub) ==
  LET before == Len(alias.fns)
      back   == [sub.s EXCEPT !.toks = alias.toks, !.at = alias.at,
                              !.fns = IF named THEN alias.fns ELSE @]
      clash  == /\ ~named
                /\ \E i \in before + 1 .. Len(sub.s.fns), j \in 1 .. before :
                     sub.s.fns[i].name = sub.s.fns[j].name
  IN R(IF named THEN <<ModuleInit(package, sub.n.kids), BindAlias(Previous(alias).text, package)>>
       ELSE sub.n.kids,
       IF clash THEN Fails(back) ELSE back)

UseAs(package, named, alias) ==
  LET using == [alias EXCEPT !.used = @ \cup {package}]
  IN CASE alias.err -> R(<<>>, alias)
       [] ~alias.err /\ Included(alias, package) ->
            R(IF named THEN <<BindAlias(Previous(alias).text, package)>> ELSE <<>>, alias)
       [] ~alias.err /\ ~Included(alias, package) /\ package \notin DOMAIN alias.files ->
            R(<<>>, Fails(using))
       [] OTHER -> Spliced(package, named, alias,
                           parser_parse([using EXCEPT !.toks = Lex(alias.files[package]), !.at = 1]))

Use(s) ==
  LET path == consume(advance(s), "STRING")
      package == SubSeq(Previous(path).text, 2, Len(Previous(path).text) - 1)
  IN UseAs(package, Is(path, "as"), IF Is(path, "as") THEN consume(advance(path), "ID") ELSE path)

TopLevel(s) ==
  LET Then(one) == LET rest == TopLevel(one.s) IN R(one.n \o rest.n, rest.s)
      Statement(a) == R(<<a.n>>, a.s)
  IN IF Is(s, "EOF") \/ s.err THEN R(<<>>, s)
     ELSE Then(IF Is(s, "use") THEN Use(s) ELSE Statement(Rule("stmt", s)))

parser_parse(s) == LET Program(body) == R(Node("program", <<>>, body.n), body.s) IN Program(TopLevel(s))

Parse(source, files) == parser_parse(parser_init(source, files))
=============================================================================

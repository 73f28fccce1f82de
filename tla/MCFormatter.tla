---------------------------- MODULE MCFormatter ----------------------------
(***************************************************************************)
(* Source texts for TLC, and what `vn fmt` promises of what it writes.     *)
(* A text is a line or two of Lines, at the top level or in the body of a  *)
(* function or of a loop, written with too few and too many blanks.        *)
(***************************************************************************)
EXTENDS Formatter

P == INSTANCE Parser

Lines == <<
  "let x=1+2*y", "let  z   =  -1 ;", "if x==1{y=2}else{y=3}", "for i in 0 .. 3 {\nf( i )}",
  "let m = match x {\n1=>\"a\",\n  _ => \"b\" }", "let g = |a, b| => a | b", "let h=| |{ return a }",
  "struct S{x,y}\nlet s = S{x:1, y : [1,2]}", "x = a?.b ?? c", "try{ f()? }catch e {\n throw(e) }",
  "// note  \nlet c = 1", "/* one */ let d = 2", "/* a  \n   b */\nlet e = 2\n\n\n\nlet k=e",
  "struct T<A> { @min(1) x:int , y : [string] }", "enum E {A( int ),B}",
  "fn m<T>(p:T,q)->int{\nreturn p+q }", "let r = /a b/i", "while ! done&&x<3{\n\n\n\nx= x -1\n}",
  "impl S { fn go ( self ) { return self . x } }", "@cache(9)\nfn k(n)=>n", "let v = await f( x )",
  "ch <- [ 1 ]", "print(\"a {x + 1} b\")", "let t = ( 1,2 )", "let o = {a:1,\n b:2}",
  "loop {\n\tbreak\n}", "actor A{\nn: int = 0, fn inc(self) { self.n += 1 } }", "assert a!=b||!c",
  "const w = a<b", "{{\nlet u=1}", "let l = [ [1 ,2], [ ] ]", "test \"t\" {\n f( )\n}",
  "q += a.b( c , \"}\" ) // end", "let p = [1, n]\nlet j = - n % 2" >>

Following(k) == (k % Len(Lines)) + 1
Plain    == {Lines[k] \o "\n" \o Lines[Following(k)] : k \in DOMAIN Lines}
Trailing == {k \in DOMAIN Lines : \E n \in 2 .. Len(Lines[k]) : n + 2 <= Len(Lines[k]) /\ SubSeq(Lines[k], n, n + 2) = " //"}
InFn     == {"fn w(){" \o Lines[k] \o "\n  " \o Lines[Following(k)] \o "  }" :
               k \in {n \in DOMAIN Lines : {n, Following(n)} \cap Trailing = {}}}
InLoops  == {"loop {\nif a{\n" \o Lines[k] \o " }\n}" : k \in DOMAIN Lines \ Trailing}
Inputs   == Plain \cup InFn \cup InLoops
Inline   == {"fn f(a, b) { return 1 }"}

-----------------------------------------------------------------------------
SameProgram(was, is) == ~was.s.err /\ ~is.s.err /\ is.n = was.n

(* The text that replaces the file is the same program for the parser,     *)
(* which reads it with another scanner than the formatter's: no blank that *)
(* separates two tokens is lost, and none is put inside one.  An error in  *)
(* any flag of fmt_format_source() joins or splits tokens.                 *)
KeepsProgram == Done => SameProgram(P!Parse(src[1], <<>>), P!Parse(out, <<>>))

(* Formatting what was formatted changes nothing (formatter_test.sh, and   *)
(* "for idempotency" in fmt.c): what `vn fmt` writes passes the check of   *)
(* `vn fmt --check`.  Not so behind a block comment, whose blanks grow     *)
(* with every run.                                                         *)
HasBlockComment(s) == \E n \in 1 .. Len(s) : At(s, n) = "/" /\ At(s, n + 1) = "*"
Idempotent == Done /\ Len(src) > 1 /\ ~HasBlockComment(src[1]) => out = src[Len(src)]

(* Every comment stays, between the same two tokens.                       *)
Comments(s) ==
  LET real == SelectSeq(FmtScan(s), LAMBDA t : t.type # "NL")
      places == {n \in DOMAIN real : real[n].type \in {"LINE", "BLOCK"}}
  IN {<<n, real[n].type>> : n \in places}
CommentsStay == Done => Comments(out) = Comments(src[1])

(* Every line of the text begins with four blanks for every brace that is  *)
(* open there, as the parser's lexer sees braces: not those of strings,    *)
(* comments and regular expressions.                                       *)
Depth(tokens, upto) ==
  LET N(b) == Cardinality({n \in 1 .. upto : tokens[n].type = b}) IN N("{") - N("}")
IndentFollowsBraces ==
  Done =>
    LET tokens == P!Lex(out)
        Begins(n) == n > 1 /\ tokens[n].type # "EOF"
                     /\ \E c \in tokens[n - 1].at .. tokens[n].from - 1 : At(out, c) = "\n"
        Blanks(n) == Cardinality({c \in tokens[n - 1].at .. tokens[n].from - 1 :
                                    \A k \in c .. tokens[n].from - 1 : At(out, k) = " "})
        Closing(n) == IF tokens[n].type = "}" THEN 1 ELSE 0
        Commented(n) == \E c \in tokens[n - 1].at .. tokens[n].from - 1 : At(out, c) = "/"
    IN \A n \in DOMAIN tokens :
         Begins(n) /\ ~Commented(n) => Blanks(n) = 4 * (Depth(tokens, n - 1) - Closing(n))

(* What the parser drops keeps its place as well: comments between tokens, *)
(* and lines at the depth of their braces.                                 *)
LayoutFollowsText == CommentsStay /\ IndentFollowsBraces
=============================================================================

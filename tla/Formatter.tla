----------------------------- MODULE Formatter -----------------------------
(***************************************************************************)
(* fmt.c: `vn fmt`, which writes a source text anew from a scan of its     *)
(* own, not from the tokens of the parser.                                 *)
(*                                                                         *)
(* Init scans one of Sources, and every step writes one scanned token.     *)
(* When all are written, out is the text that replaces the file, and vn    *)
(* fmt may be run on it again, up to Runs times in all.                    *)
(***************************************************************************)
EXTENDS Lexer

CONSTANTS
  Sources,    \* the texts to format
  Runs        \* how often vn fmt is run at most

VARIABLES
  src,      \* the texts that were formatted, the one that is now last
  toks,     \* what the formatter's scanner sees in it
  i,        \* the token to write next
  out,      \* the text written so far
  prev,     \* the token written last
  st        \* indent, need_indent, after_comma ... of fmt_format_source()

vars == <<src, toks, i, out, prev, st>>

-----------------------------------------------------------------------------
(* The scanner: a type and a text, and the line it believes it is on.      *)
FmtOperators ==
  (Operators \ {"<<", ">>", "/=", "(", ")", "{", "}", "[", "]", ";", ",", ".", ":"}) \cup {"\\"}
FmtPunctuation == {"(", ")", "{", "}", "[", "]", ";", ",", ".", ":"}
FmtExprWords == {"fn", "let", "const", "return", "if", "else", "while", "for", "loop", "match",
  "case", "try", "catch", "assert", "test", "struct", "enum", "actor", "type", "throw", "true",
  "false", "null", "pub", "mut", "async", "await", "break", "continue"}

FmtStartsExpr(t) ==
  \/ t.type \in {"(", "[", "{", ",", ":", ";", "OP", "NL", "EOF"}
  \/ t.type = "WORD" /\ t.text \in FmtExprWords

RECURSIVE FmtStringEnd(_, _), FmtRegexEnd(_, _), FmtScanFrom(_, _, _, _)
FmtStringEnd(s, k) ==
  CASE At(s, k) = Nul  -> k
    [] At(s, k) = "\"" -> k + 1
    [] At(s, k) = "\\" /\ At(s, k + 1) # Nul -> FmtStringEnd(s, k + 2)
    [] OTHER -> FmtStringEnd(s, k + 1)

FmtRegexEnd(s, k) ==
  CASE At(s, k) \in {Nul, "\n"} -> Past(s, k, Letters)
    [] At(s, k) = "/" -> Past(s, k + 1, Letters)
    [] At(s, k) = "\\" /\ At(s, k + 1) # Nul -> FmtRegexEnd(s, k + 2)
    [] OTHER -> FmtRegexEnd(s, k + 1)

FmtNumberEnd(s, k) ==
  LET whole == Past(s, k, Digits)
      part  == IF At(s, whole) = "." /\ At(s, whole + 1) \in Digits
               THEN Past(s, whole + 1, Digits) ELSE whole
  IN IF At(s, part) \notin {"e", "E"} THEN part
     ELSE Past(s, IF At(s, part + 1) \in {"+", "-"} THEN part + 2 ELSE part + 1, Digits)

FmtOperatorAt(s, k) ==
  LET fits == {n \in 1 .. 3 : /\ k + n <= Len(s) + 1
                              /\ SubSeq(s, k, k + n - 1) \in FmtOperators \cup FmtPunctuation}
  IN IF fits = {} THEN Nul ELSE SubSeq(s, k, k + Max(fits) - 1)

Newlines(s, k, e) == Cardinality({n \in k .. e - 1 : At(s, n) = "\n"})

(* fmt_scan_token(): newlines and comments are tokens here, a quote ' is   *)
(* an unknown character, which is skipped, and / is never part of /=.      *)
FmtTokenAt(s, k, line, expectExpr) ==
  LET Made(type, e, l) == [type |-> type, text |-> Text(s, k, e), line |-> line + l, at |-> e]
      op == FmtOperatorAt(s, k)
      str == FmtStringEnd(s, IF At(s, k) = "b" THEN k + 2 ELSE k + 1)
      comment == CommentEnd(s, k + 2, 0).at
  IN CASE At(s, k) = Nul -> Made("EOF", k, 0)
       [] At(s, k) = "\n" -> Made("NL", k + 1, 1)
       [] At(s, k) = "/" /\ At(s, k + 1) = "/" -> Made("LINE", LineEnd(s, k), 0)
       [] At(s, k) = "/" /\ At(s, k + 1) = "*" -> Made("BLOCK", comment, 2 * Newlines(s, k, comment))
       [] At(s, k) = "/" /\ expectExpr -> Made("REGEX", FmtRegexEnd(s, k + 1), 0)
       [] At(s, k) = "\"" \/ (At(s, k) = "b" /\ At(s, k + 1) = "\"") ->
            Made("STR", str, 2 * Newlines(s, k, str))
       [] At(s, k) \in Digits -> Made("NUM", FmtNumberEnd(s, k), 0)
       [] At(s, k) \in NameStart -> Made("WORD", Past(s, k, NameChars), 0)
       [] op \in FmtPunctuation -> Made(op, k + 1, 0)
       [] op # Nul -> Made("OP", k + Len(op), 0)
       [] OTHER -> Made("SKIP", k + 1, 0)

FmtScanFrom(s, k, line, expectExpr) ==
  LET t == FmtTokenAt(s, Past(s, k, {" ", "\t", "\r"}), line, expectExpr)
  IN CASE t.type = "EOF"  -> <<t>>
       [] t.type = "SKIP" -> FmtScanFrom(s, t.at, t.line, expectExpr)
       [] OTHER           -> <<t>> \o FmtScanFrom(s, t.at, t.line, FmtStartsExpr(t))

FmtScan(s) == FmtScanFrom(s, 1, 1, TRUE)

-----------------------------------------------------------------------------
FmtKeywords == (Keywords \ {"as"}) \cup {"throw", "schema", "ffi"}
DeclKeywords == {"fn", "let", "const", "if", "while", "for", "loop", "match", "struct", "enum",
  "actor", "impl", "trait", "comptime", "try", "test", "schema", "ffi"}
BraceKeywords == {"fn", "if", "else", "while", "for", "loop", "struct", "enum", "actor", "trait",
  "impl", "match", "try", "catch", "comptime", "schema"}

RECURSIVE Stripped(_)
Stripped(s) ==
  IF s # "" /\ At(s, Len(s)) \in {" ", "\t"} THEN Stripped(SubSeq(s, 1, Len(s) - 1)) ELSE s

RECURSIVE Spaces(_)
Spaces(n) == IF n = 0 THEN "" ELSE " " \o Spaces(n - 1)
Indent(n) == Spaces(4 * n)
If(b, s) == IF b THEN s ELSE ""

tok == toks[i]
prevNl == prev.type \in {"NL", "EOF"}
prevPunct == prev.type \in {"(", "[", ",", "OP", ";"}
After(types) == prev.type \in types
Op(s) == tok.type = "OP" /\ tok.text = s
NextReal == SelectInSubSeq(toks, i + 1, Len(toks), LAMBDA t : t.type # "NL")

Write(s) == out' = out \o s

(* Goes on to the next token, with the flags f and with this one as prev.  *)
Passed(n, f, as) ==
  /\ i' = i + n
  /\ prev' = as
  /\ st' = f
  /\ UNCHANGED <<src, toks>>
Wrote(f) == Passed(1, [f EXCEPT !.decl = FALSE, !.lines = 0], tok)
(* Mutant: the newline behind a comment is written a second time.          *)
WroteLineTwice(f) ==
  Passed(1, [f EXCEPT !.decl = FALSE, !.lines = 0], [tok EXCEPT !.type = "NL"])
(* A comment that ends its line takes the newline behind it along, and     *)
(* counts as a newline.                                                    *)
WroteLine(f) ==
  Passed(IF toks[i + 1].type = "NL" THEN 2 ELSE 1, [f EXCEPT !.decl = FALSE, !.lines = 0],
         [tok EXCEPT !.type = "NL"])

(* What is written in the place of a missing indentation, and the flags.   *)
Lead == If(st.need, Indent(st.indent))
Led == [st EXCEPT !.need = FALSE]

-----------------------------------------------------------------------------
(* At most two newlines in a row, the second for a blank line.             *)
Newline ==
  /\ tok.type = "NL"
  /\ IF st.lines < 2
     THEN /\ out' = Stripped(out) \o "\n"
          /\ Passed(1, [st EXCEPT !.brace = FALSE, !.comma = FALSE, !.need = TRUE,
                                  !.lines = @ + 1, !.decl = FALSE], tok)
     ELSE /\ UNCHANGED out
          /\ Passed(1, [st EXCEPT !.decl = FALSE], tok)

LineComment ==
  /\ tok.type = "LINE"
  /\ out' = Stripped((IF prevNl THEN out \o Lead ELSE Stripped(out) \o "\n") \o tok.text) \o "\n"
  /\ WroteLine([st EXCEPT !.need = TRUE, !.brace = FALSE, !.comma = FALSE])

(* Mutant: a comment within a line is dropped.                             *)
DropComment ==
  /\ tok.type = "BLOCK"
  /\ Write(" ")
  /\ Wrote(st)

BlockComment ==
  /\ tok.type = "BLOCK"
  /\ IF Newlines(tok.text, 1, Len(tok.text) + 1) > 0
     THEN LET opened == IF prevNl THEN out ELSE Stripped(out) \o "\n"
              lead   == If(st.need \/ ~prevNl, Indent(st.indent))
              lines  == FoldLeft(LAMBDA done, c : IF c = "\n" THEN Stripped(done) \o "\n " ELSE done \o c,
                                 opened \o lead, [n \in 1 .. Len(tok.text) |-> At(tok.text, n)])
          IN /\ out' = Stripped(lines) \o "\n"
             /\ WroteLine([st EXCEPT !.need = TRUE])
     ELSE /\ Write(If(~prevNl /\ ~After({"{", "(", ","}), " ") \o tok.text \o " ")
          /\ Wrote(st)

Semicolon ==
  /\ tok.type = ";"
  /\ Write(";")
  /\ Wrote([st EXCEPT !.brace = FALSE, !.comma = FALSE])

Comma ==
  /\ tok.type = ","
  /\ Write(", ")
  /\ Wrote([st EXCEPT !.comma = TRUE])

CloseBrace ==
  /\ tok.type = "}"
  /\ LET inner  == IF st.indent > 0 THEN st.indent - 1 ELSE 0
         inline == st.inline # <<>> /\ Last(st.inline)
         breaks == ~prevNl /\ prev.type # "{"
         broken == CASE breaks /\ inline  -> out \o " "
                     [] breaks /\ ~inline -> Stripped(out) \o "\n"
                     [] OTHER             -> out
         need   == st.need \/ (breaks /\ ~inline)
     IN /\ out' = broken \o If(need, Indent(inner)) \o "}"
        /\ Wrote([st EXCEPT !.indent = inner, !.need = FALSE, !.brace = FALSE, !.comma = FALSE,
                            !.inline = IF @ = <<>> THEN @ ELSE Front(@)])

CloseParen ==
  /\ tok.type \in {")", "]"}
  /\ Write(tok.text)
  /\ Wrote(st)

(* A brace is inline if something follows it on its line.                  *)
OpenBrace ==
  /\ tok.type = "{"
  /\ LET space == /\ ~After({"(", "["}) /\ ~prevNl /\ ~st.decl
                  /\ ~(prev.type = "OP" /\ prev.text = "|")
         n     == NextReal
         inline == n # 0 /\ toks[n].type \notin {"EOF", "}"} /\ toks[n].line = tok.line
     IN /\ Write(Lead \o If(space, " ") \o "{")
        /\ Wrote([Led EXCEPT !.indent = @ + 1, !.brace = TRUE, !.inline = Append(@, inline)])

OpenParen ==
  /\ tok.type = "("
  /\ Write(Lead \o If(prev.type = "WORD" /\ prev.text \in BraceKeywords /\ ~st.decl, " ") \o "(")
  /\ Wrote(Led)

Bracket ==
  /\ tok.type \in {"[", ".", ":"}
  /\ Write(Lead \o tok.text \o If(tok.type = ":", " "))
  /\ Wrote(Led)

-----------------------------------------------------------------------------
(* Operators that take no space, or one on one side only.                  *)
Not ==
  /\ Op("!")
  /\ Write(Lead \o If(~st.decl /\ ~prevNl /\ ~prevPunct, " ") \o "!")
  /\ Wrote(Led)

Tight ==
  /\ \E s \in {"..", "...", "::", "?."} : Op(s)
  /\ Write(Lead \o tok.text)
  /\ Wrote(Led)

Arrow ==
  /\ Op("->") \/ Op("=>")
  /\ Write(Lead \o " " \o tok.text \o " ")
  /\ Wrote(Led)

Minus ==
  /\ Op("-")
  /\ Write(Lead \o If(~prevNl /\ ~After({"(", "[", "OP", ","}), " ") \o "-")
  /\ Wrote(Led)

Question ==
  /\ Op("?")
  /\ Write(Lead \o (IF After({")", "]", "WORD", "NUM"}) THEN "?"
                    ELSE If(~prevNl /\ ~prevPunct, " ") \o "? "))
  /\ Wrote(Led)

(* < and > are the ends of a list of types when names and commas alone are *)
(* between them, or when > is followed by what cannot start an operand.    *)
RECURSIVE Closes(_, _)
Closes(k, scanned) ==
  CASE k > Len(toks) \/ scanned >= 20 -> FALSE
    [] toks[k].type = "NL" -> Closes(k + 1, scanned)
    [] toks[k].type = "OP" /\ toks[k].text = ">" -> TRUE
    [] toks[k].type \in {"WORD", ","} -> Closes(k + 1, scanned + 1)
    [] OTHER -> FALSE

IsGeneric ==
  \/ Op("<") /\ prev.type = "WORD" /\ Closes(i + 1, 0)
  \/ /\ Op(">") /\ prev.type = "WORD" /\ NextReal # 0
     /\ toks[NextReal].type \in {"{", "(", ",", ";", "OP", "}", "EOF"}

Angle ==
  /\ Op("<") \/ Op(">")
  /\ Write(Lead \o (IF IsGeneric THEN tok.text
                    ELSE If(~prevNl /\ ~prevPunct, " ") \o tok.text \o " "))
  /\ Wrote(Led)

(* Mutant: the bars of a closure without parameters are joined to "||".    *)
JoinBars ==
  /\ Op("|")
  /\ Write(Lead \o If(~prevNl /\ ~prevPunct, " ") \o "|")
  /\ Wrote(Led)

(* A bar that no operand precedes opens the parameters of a closure, whose *)
(* second bar may not be written next to it.                               *)
Bar ==
  /\ Op("|")
  /\ LET binary == /\ After({"WORD", "NUM", ")", "]"})
                   /\ prev.text \notin FmtKeywords
         n      == NextReal
     IN IF st.closure
        THEN /\ Write(Lead \o "| ")
             /\ Wrote([Led EXCEPT !.closure = FALSE])
        ELSE /\ Write(Lead \o If(~prevNl /\ ~prevPunct, " ") \o "|"
                      \o If(binary \/ (n # 0 /\ toks[n].text = "|"), " "))
             /\ Wrote([Led EXCEPT !.closure = ~binary])

OtherOperator ==
  /\ tok.type = "OP"
  /\ tok.text \notin {"!", "..", "...", "::", "?.", "->", "=>", "-", "?", "<", ">", "|"}
  /\ Write(Lead \o If(~prevNl /\ ~prevPunct, " ") \o tok.text \o If(tok.text # "@", " "))
  /\ Wrote(Led)

-----------------------------------------------------------------------------
Keyword ==
  /\ tok.type = "WORD" /\ tok.text \in FmtKeywords
  /\ LET decl == tok.text \in DeclKeywords
     IN /\ Write(Lead \o If(~prevNl /\ ~prevPunct /\ ~After({".", ",", ":"}), " ")
                 \o tok.text \o If(decl, " "))
        /\ Passed(1, [Led EXCEPT !.brace = FALSE, !.decl = decl, !.lines = 0], tok)

Name ==
  /\ tok.type = "WORD" /\ tok.text \notin FmtKeywords
  /\ Write(Lead \o If(~st.decl /\ ~prevNl /\ ~prevPunct /\ ~After({".", ",", "(", ":"}), " ")
           \o tok.text)
  /\ Wrote([Led EXCEPT !.brace = FALSE])

SpaceBeforeNumber == ~prevNl /\ ~prevPunct /\ ~st.comma /\ ~st.brace
Number ==
  /\ tok.type = "NUM"
  /\ Write(Lead \o If(SpaceBeforeNumber, " ") \o tok.text)
  /\ Wrote([Led EXCEPT !.brace = FALSE])

StringLit ==
  /\ tok.type = "STR"
  /\ Write(Lead \o If(~prevNl /\ ~prevPunct /\ ~st.comma /\ ~st.decl, " ") \o tok.text)
  /\ Wrote([Led EXCEPT !.brace = FALSE])

Regex ==
  /\ tok.type = "REGEX"
  /\ Write(Lead \o If(~prevNl /\ ~After({",", "(", "[", "{", "OP"}), " ") \o tok.text)
  /\ Wrote([Led EXCEPT !.brace = FALSE])

(* The blanks at the end go, and a newline is there.                       *)
Finish ==
  /\ tok.type = "EOF"
  /\ LET s == Stripped(out)
     IN out' = s \o If(s = "" \/ At(s, Len(s)) # "\n", "\n")
  /\ Passed(1, st, tok)

Done == i > Len(toks)

-----------------------------------------------------------------------------
NoToken == [type |-> "NL", text |-> "", line |-> 0, at |-> 0]
Flags == [indent |-> 0, need |-> TRUE, inline |-> <<>>, brace |-> FALSE, comma |-> FALSE,
          decl |-> FALSE, closure |-> FALSE, lines |-> 0]

Init ==
  /\ src \in {<<s>> : s \in Sources}
  /\ toks = FmtScan(src[1])
  /\ i = 1
  /\ out = ""
  /\ prev = NoToken
  /\ st = Flags

(* vn fmt is run on the file that it wrote.                                *)
Again ==
  /\ Done
  /\ Len(src) < Runs
  /\ src' = Append(src, out)
  /\ toks' = FmtScan(out)
  /\ i' = 1
  /\ out' = ""
  /\ prev' = NoToken
  /\ st' = Flags

WriteToken ==
  \/ Newline \/ LineComment \/ BlockComment \/ Semicolon \/ Comma
  \/ CloseBrace \/ CloseParen \/ OpenBrace \/ OpenParen \/ Bracket
  \/ Not \/ Tight \/ Arrow \/ Minus \/ Question \/ Angle \/ Bar \/ OtherOperator
  \/ Keyword \/ Name \/ Number \/ StringLit \/ Regex \/ Finish

Next == (~Done /\ WriteToken) \/ Again

Spec == Init /\ [][Next]_vars
=============================================================================

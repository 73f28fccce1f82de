------------------------------- MODULE Lexer -------------------------------
(***************************************************************************)
(* lexer.c: the tokens of a source text, a string that ends with the NUL   *)
(* that the code reads one past its last character.                        *)
(*                                                                         *)
(* A token has the line on which it ends, as the lexer counts lines, and,  *)
(* when it is a string, its value: for a string with expressions in it the *)
(* parts, text and expression source.  Columns, the escapes \0 and \x, and *)
(* byte strings, which no source reaches because an identifier may begin   *)
(* with b, are left out.                                                   *)
(***************************************************************************)
EXTENDS Integers, Sequences, FiniteSets, SequencesExt, TLC

Nul == ""
At(src, i) == IF i <= Len(src) THEN SubSeq(src, i, i) ELSE Nul
Text(src, i, j) == SubSeq(src, i, j - 1)
Chars(s) == {At(s, i) : i \in 1 .. Len(s)}

Digits == Chars("0123456789")
Letters == Chars("abcdefghijklmnopqrstuvwxyzABCDEFGHIJKLMNOPQRSTUVWXYZ")
NameStart == Letters \cup {"_"}
NameChars == NameStart \cup Digits
Quotes == {"\"", "'"}

Keywords == {"let", "const", "fn", "return", "if", "else", "while", "for", "in", "loop",
  "match", "case", "struct", "enum", "actor", "impl", "trait", "type", "use", "pub", "mut",
  "async", "await", "break", "continue", "try", "catch", "assert", "test", "comptime",
  "true", "false", "null", "as", "bool", "int", "float", "string", "byte", "void"}
Aliases == [x \in {"and", "or", "not"} |->
              CASE x = "and" -> "&&" [] x = "or" -> "||" [] x = "not" -> "!"]

Operators == {"(", ")", "{", "}", "[", "]", ";", ",", "~", "^", "%", "@", "#",
  "?", "??", "?.", ":", "::", "+", "+=", "-", "->", "-=", "*", "*=", "/", "/=", "!", "!=",
  "=", "==", "=>", "<", "<-", "<<", "<=", ">", ">>", ">=", ".", "..", "...", "&", "&&",
  "|", "||"}

(* What may not be followed by a division: a slash after it is a regex.    *)
StartsExpr ==
  (Operators \ {")", "}", "]", "%", "/", "::", ".", "..", "...", "<-"})
  \cup {"return", "if", "else", "while", "for", "loop", "match", "case", "let", "const",
        "fn", "try", "catch", "true", "false", "null", "EOF"}

check_keyword(word) ==
  CASE word \in Keywords        -> word
    [] word \in DOMAIN Aliases  -> Aliases[word]
    [] OTHER                    -> "ID"

-----------------------------------------------------------------------------
(* The place of the first character from i on that is not in S; of the end *)
(* of the line; and behind the end of a comment.                           *)
RECURSIVE Past(_, _, _), LineEnd(_, _), CommentEnd(_, _, _), skip_whitespace(_, _, _)
Past(src, i, S) == IF At(src, i) \in S THEN Past(src, i + 1, S) ELSE i
LineEnd(src, i) == IF At(src, i) \in {"\n", Nul} THEN i ELSE LineEnd(src, i + 1)

CommentEnd(src, i, line) ==
  CASE At(src, i) = Nul -> [at |-> i, line |-> line]
    [] At(src, i) = "*" /\ At(src, i + 1) = "/" -> [at |-> i + 2, line |-> line]
    [] OTHER -> CommentEnd(src, i + 1, IF At(src, i) = "\n" THEN line + 1 ELSE line)

skip_whitespace(src, i, line) ==
  CASE At(src, i) \in {" ", "\t", "\r"} -> skip_whitespace(src, i + 1, line)
    [] At(src, i) = "\n" -> skip_whitespace(src, i + 1, line + 1)
    [] At(src, i) = "/" /\ At(src, i + 1) = "/" -> skip_whitespace(src, LineEnd(src, i), line)
    [] At(src, i) = "/" /\ At(src, i + 1) = "*" ->
         LET e == CommentEnd(src, i + 2, line) IN skip_whitespace(src, e.at, e.line)
    [] OTHER -> [at |-> i, line |-> line]

(* The fraction makes it a float, and only a float has an exponent.        *)
NumberEnd(src, i) ==
  LET whole == Past(src, i, Digits)
      part  == Past(src, whole + 1, Digits)
      sign  == IF At(src, part + 1) \in {"+", "-"} THEN part + 2 ELSE part + 1
  IN CASE ~(At(src, whole) = "." /\ At(src, whole + 1) \in Digits) -> [at |-> whole, type |-> "INT"]
       [] At(src, part) \in {"e", "E"} -> [at |-> Past(src, sign, Digits), type |-> "FLOAT"]
       [] OTHER -> [at |-> part, type |-> "FLOAT"]

-----------------------------------------------------------------------------
(* Strings.  A brace opens an expression unless the string ends behind it. *)
RECURSIVE HasInterpolation(_, _, _), PlainString(_, _, _), Parts(_, _, _, _), RegexEnd(_, _)
HasInterpolation(src, i, quote) ==
  CASE At(src, i) \in {quote, "\n", Nul} -> FALSE
    [] At(src, i) = "\\" -> At(src, i + 1) # Nul /\ HasInterpolation(src, i + 2, quote)
    [] At(src, i) = "{" /\ At(src, i + 1) \notin {quote, Nul} -> TRUE
    [] OTHER -> HasInterpolation(src, i + 1, quote)

Escaped(c) ==
  CASE c = "n" -> "\n" [] c = "t" -> "\t" [] c = "r" -> "\r" [] OTHER -> c

(* A string ends with its quote, with the line or with the source.         *)
PlainString(src, i, quote) ==
  LET c == At(src, i) IN
  CASE c = Nul       -> [at |-> i, lines |-> 0, value |-> ""]
    [] c = quote     -> [at |-> i + 1, lines |-> 0, value |-> ""]
    [] c = "\n"      -> [at |-> i + 1, lines |-> 1, value |-> ""]
    [] c = "\\"      -> LET rest == PlainString(src, i + 2, quote)
                        IN [rest EXCEPT !.value = Escaped(At(src, i + 1)) \o rest.value]
    [] OTHER         -> LET rest == PlainString(src, i + 1, quote)
                        IN [rest EXCEPT !.value = c \o rest.value]

(* The parts of a string with expressions: depth counts the braces that    *)
(* are open.  Inside an expression neither a quote nor a newline ends it.  *)
Parts(src, i, quote, depth) ==
  LET c == At(src, i)
      Joined(rest, t) ==
        IF rest.value # <<>> /\ rest.value[1].expr = (depth > 0)
        THEN [rest EXCEPT !.value[1].text = t \o rest.value[1].text]
        ELSE [rest EXCEPT !.value = <<[expr |-> depth > 0, text |-> t, closed |-> FALSE]>> \o rest.value]
      Closed(rest) ==
        [rest EXCEPT !.value = <<[expr |-> TRUE, text |-> "", closed |-> TRUE]>> \o rest.value]
      Kept == IF At(src, i + 1) \in Chars("ntr\\\"{") THEN Escaped(At(src, i + 1))
              ELSE "\\" \o At(src, i + 1)
  IN CASE c = Nul -> [at |-> i, lines |-> 0, value |-> <<>>]
       [] c = quote /\ depth = 0 -> [at |-> i + 1, lines |-> 0, value |-> <<>>]
       [] c = "\n" /\ depth = 0  -> [at |-> i + 1, lines |-> 1, value |-> <<>>]
       [] c = "\\" -> Joined(Parts(src, i + 2, quote, depth), Kept)
       [] c = "{" /\ depth = 0 -> Parts(src, i + 1, quote, 1)
       [] c = "}" /\ depth = 1 -> Closed(Parts(src, i + 1, quote, 0))
       [] OTHER -> Joined(Parts(src, i + 1, quote,
                                CASE depth > 0 /\ c = "{" -> depth + 1
                                  [] depth > 0 /\ c = "}" -> depth - 1
                                  [] OTHER -> depth), c)

(* The value of a regex is its pattern, and its flags right behind it.     *)
RegexEnd(src, i) ==
  LET c == At(src, i)
      end == Past(src, i + 1, Letters)
      k == IF c = "\\" /\ At(src, i + 1) # Nul THEN 2 ELSE 1
      rest == RegexEnd(src, i + k)
  IN CASE c = Nul  -> [at |-> i, type |-> "REGEX", value |-> ""]
       [] c = "\n" -> [at |-> i + 1, type |-> "ERROR", value |-> ""]
       [] c = "/"  -> [at |-> end, type |-> "REGEX", value |-> Text(src, i + 1, end)]
       [] OTHER    -> [rest EXCEPT !.value = Text(src, i, i + k) \o rest.value]

-----------------------------------------------------------------------------
Token(src, type, i, j, line, value) ==
  [type |-> type, text |-> Text(src, i, j), line |-> line, value |-> value, from |-> i, at |-> j]

(* The longest operator that the source goes on with.                      *)
OperatorAt(src, i) ==
  LET fits == {n \in 1 .. 3 : /\ i + n <= Len(src) + 1
                              /\ SubSeq(src, i, i + n - 1) \in Operators}
  IN IF fits = {} THEN Nul ELSE SubSeq(src, i, i + Max(fits) - 1)

string_literal(src, i, line) ==
  LET quote == At(src, i)
      interp == HasInterpolation(src, i + 1, quote)
      s == IF interp THEN Parts(src, i + 1, quote, 0) ELSE PlainString(src, i + 1, quote)
  IN Token(src, IF interp THEN "INTERP" ELSE "STRING", i, s.at, line + s.lines, s.value)

(* The token behind the blanks, where a slash is a regex if exprStart      *)
(* holds.                                                                  *)
TokenAt(src, space, exprStart) ==
  LET i     == space.at
      line  == space.line
      c     == At(src, i)
      Plain(type, j) == Token(src, type, i, j, line, "")
      op    == OperatorAt(src, i)
      name  == Past(src, i, NameChars)
      num   == NumberEnd(src, i)
      regex == RegexEnd(src, i + 1)
  IN CASE c = Nul -> Plain("EOF", i)
       [] c \in NameStart -> Plain(check_keyword(Text(src, i, name)), name)
       [] c \in Digits -> Plain(num.type, num.at)
       [] c \in Quotes -> string_literal(src, i, line)
       [] c = "/" /\ op = "/" /\ exprStart -> Token(src, regex.type, i, regex.at, line, regex.value)
       [] op # Nul -> Plain(op, i + Len(op))
       [] OTHER -> Plain("ERROR", i + 1)

lexer_next(src, from, fromLine, exprStart) ==
  TokenAt(src, skip_whitespace(src, from, fromLine), exprStart)

(* make_error_token() leaves expr_start as it was, except in a regex.      *)
ExprStartAfter(t, before) ==
  IF t.type = "ERROR" THEN before /\ At(t.text, 1) # "/" ELSE t.type \in StartsExpr

RECURSIVE LexFrom(_, _, _, _)
LexFrom(src, i, line, exprStart) ==
  LET Then(t) == IF t.type = "EOF" THEN <<t>>
                 ELSE <<t>> \o LexFrom(src, t.at, t.line, ExprStartAfter(t, exprStart))
  IN Then(lexer_next(src, i, line, exprStart))

Lex(src) == LexFrom(src, 1, 1, TRUE)
=============================================================================

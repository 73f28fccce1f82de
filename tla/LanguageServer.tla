--------------------------- MODULE LanguageServer ---------------------------
(***************************************************************************)
(* lsp.c: what `vn lsp` finds in a text and makes of it, and the check of  *)
(* a file that `vn run` makes before it compiles (main.c).  What editor    *)
(* and server tell each other is in module LspSession, whose constant      *)
(* operators are given the definitions of this module: Diagnostics is      *)
(* Reported, MayRename is Allowed, Renamed is WithName, Words is           *)
(* Identifiers and RunOf is run_source.                                    *)
(***************************************************************************)
EXTENDS Semantic, LspSession

CONSTANT Packages     \* the packages that can be found, their texts

L == INSTANCE Lint
C == INSTANCE Compiler WITH MaxLocals <- 256, MaxUpvalues <- 64, MaxJumps <- 64, MaxLoops <- 64,
                            MaxReach <- 65535
T == INSTANCE Trees

-----------------------------------------------------------------------------
(* What is underlined: what lint finds in a program that has no syntax     *)
(* error, or that there is one, and what semantic_analyze finds in the     *)
(* tree, which a syntax error cuts short.                                  *)
Finds(parsed) ==
  (IF parsed.s.err THEN <<<<"syntax", "">>>> ELSE L!lint_buffer(parsed.n)) \o semantic_analyze(parsed.n)
Reported(text) == Finds(Parse(text, Packages))

(* run_source() up to the machine.                                         *)
CompiledNames(code, ops) ==
  {i.name : i \in UNION {{f.code[j] : j \in {k \in DOMAIN f.code : f.code[k].op \in ops}} :
                           f \in {code.fns[l] : l \in DOMAIN code.fns}}}

Running(code) == [status |-> IF code.err = "" THEN "runs" ELSE "compile error",
                  reads |-> CompiledNames(code, {"GET_GLOBAL", "SET_GLOBAL"}),
                  declares |-> CompiledNames(code, {"DEFINE_GLOBAL"})]
Checked(parsed) ==
  CASE parsed.s.err -> [status |-> "syntax error", reads |-> {}, declares |-> {}]
    [] ~parsed.s.err /\ semantic_analyze(parsed.n) # <<>> ->
         [status |-> "rejected", reads |-> {}, declares |-> {}]
    [] OTHER -> Running(C!CompileProgram(T!BuiltAll(parsed.n.kids)))
run_source(text) == Checked(Parse(text, Packages))
NothingRun == [status |-> "", reads |-> {}, declares |-> {}]

-----------------------------------------------------------------------------
(* Renaming: every identifier of the file that has the name, whatever it   *)
(* refers to.  The new name must be one, and no declaration of the program *)
(* or of a block right in it may have it.                                  *)
Reserved == (Keywords \cup {"schema", "self"}) \ {"as"}
is_valid_identifier(name) ==
  /\ At(name, 1) \in NameStart
  /\ \A i \in 1 .. Len(name) : At(name, i) \in NameChars
  /\ name \notin Reserved

NativeDocs == {"print", "throw", "channel", "len", "type_of", "str"}

RECURSIVE find_decl(_, _)
find_decl(n, name) ==
  \E i \in DOMAIN n.kids :
    LET s == n.kids[i]
    IN \/ s.k \in {"struct", "enum", "actor", "trait"} /\ s.v[1] = name
       \/ s.k = "fn" /\ (s.v[1] = name \/ (s.v[2] = "module" /\ find_decl(s.kids[2], name)))
       \/ s.k \in {"let", "const"} /\ \E j \in DOMAIN s.v : s.v[j] = name
       \/ n.k = "program" /\ s.k = "block" /\ find_decl(s, name)

(* Mutant: the first occurrence alone.                                     *)
RECURSIVE FirstReplaced(_, _, _, _, _)
FirstReplaced(text, tokens, old, new, from) ==
  LET t == Head(tokens)
  IN IF t.type = "EOF" THEN Text(text, from, Len(text) + 1)
     ELSE IF t.type = "ID" /\ t.text = old
          THEN Text(text, from, t.from) \o new \o Text(text, t.at, Len(text) + 1)
          ELSE Text(text, from, t.at) \o FirstReplaced(text, Tail(tokens), old, new, t.at)

RECURSIVE Replaced(_, _, _, _, _)
Replaced(text, tokens, old, new, from) ==
  LET t == Head(tokens)
      word == IF t.type = "ID" /\ t.text = old THEN Text(text, from, t.from) \o new
              ELSE Text(text, from, t.at)
  IN IF t.type = "EOF" THEN Text(text, from, Len(text) + 1)
     ELSE word \o Replaced(text, Tail(tokens), old, new, t.at)

WithName(text, name, new) == Replaced(text, Lex(text), name, new, 1)

Allowed(text, name, new) ==
  /\ is_valid_identifier(new) /\ name \notin Reserved \cup NativeDocs
  /\ new # name => ~find_decl(Parse(text, Packages).n, new)

(* A name that the cursor may be on.                                       *)
Identifiers(text) == LET ts == Lex(text) IN {ts[i].text : i \in {j \in DOMAIN ts : ts[j].type = "ID"}}
=============================================================================

----------------------------- MODULE MCPackages -----------------------------
(* Packages for TLC: a project requires a and b, b requires a too, and a   *)
(* new commit of b requires c, which requires b.  A world for each pair of *)
(* requirements on a.                                                      *)
EXTENDS Packages

MCVersions == (0 .. 2) \X (0 .. 2) \X (0 .. 2)
Latest == [op |-> "any"]
Req(op, v) == [op |-> op, v |-> v]
Main == [op |-> "git", tag |-> "main"]
Dependency(n, req) == [name |-> n, req |-> req]

Requirements ==
  {Latest, Req("exact", <<1, 0, 0>>), Req("exact", <<1, 2, 0>>), Req("caret", <<1, 0, 0>>), Req("caret", <<2, 0, 0>>),
   Req("caret", <<0, 1, 0>>), Req("tilde", <<1, 0, 1>>)}

VersionsOfA == <<<<0, 1, 0>>, <<0, 1, 1>>, <<1, 0, 0>>, <<1, 0, 2>>, <<1, 2, 0>>, <<2, 0, 0>>>>
TagsOfA == <<"v010", "v011", "v100", "v102", "v120", "v200">>
Leaf == [deps |-> <<>>, native |-> FALSE]

World(own, other, old) ==
  [manifest |-> IF old THEN None ELSE <<Dependency("b", Main), Dependency("a", own)>>,
   legacy   |-> IF old THEN <<Dependency("a", own), Dependency("b", Latest)>> ELSE None,
   lock     |-> None,
   index    |-> [n \in {"a", "b", "c"} |->
                   IF n = "a" THEN {[v |-> VersionsOfA[i], tag |-> TagsOfA[i]] : i \in DOMAIN VersionsOfA}
                   ELSE {[v |-> <<1, 0, 0>>, tag |-> "main"]}],
   contents |-> [n \in {"a", "b", "c"} |->
                   CASE n = "a" -> <<Leaf, Leaf, Leaf, Leaf, Leaf, Leaf>>
                     [] n = "b" -> <<[deps |-> <<Dependency("a", other)>>, native |-> TRUE],
                                     [deps |-> <<Dependency("a", other), Dependency("c", Main)>>, native |-> FALSE]>>
                     [] n = "c" -> <<[deps |-> <<Dependency("b", Main)>>, native |-> FALSE]>>],
   tags     |-> [n \in {"a", "b", "c"} |->
                   CASE n = "a" -> [t \in ToSet(TagsOfA) |-> SelectInSeq(TagsOfA, LAMBDA x : x = t)]
                     [] n = "b" -> [t \in {"main"} |-> 1]
                     [] n = "c" -> [t \in {"main"} |-> 0]],
   heads    |-> [n \in {"a", "b", "c"} |-> IF n = "a" THEN 6 ELSE 1]]

MCWorlds ==
  {World(own, other, FALSE) : own \in Requirements, other \in Requirements} \cup {World(Latest, Latest, TRUE)}

MCCommands ==
  {[op |-> o] : o \in {"install", "frozen", "update", "build"}} \cup
  {[op |-> "add", dep |-> Dependency("c", Main)], [op |-> "add", dep |-> Dependency("a", Req("caret", <<1, 0, 0>>))],
   [op |-> "remove", name |-> "b"]}
=============================================================================

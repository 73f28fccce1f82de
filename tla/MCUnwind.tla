------------------------------ MODULE MCUnwind ------------------------------
(* Unwind for TLC: argument lists of integers, and of strings. *)
EXTENDS Unwind

IntArg(bits) == [type |-> "int", bits |-> bits]
StrArg(bits) == [type |-> "string", bits |-> bits]

OneInt == {<<IntArg({})>>, <<IntArg({0})>>}
TwoInts == {<<IntArg({0}), IntArg({1})>>, <<IntArg({1}), IntArg({0})>>}
OneString == {<<StrArg({})>>, <<StrArg({0})>>}
=============================================================================

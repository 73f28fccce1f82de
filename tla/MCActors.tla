------------------------------ MODULE MCActors ------------------------------
(* Actors for TLC: programs whose methods return or do not exist, on one actor,
   and programs whose methods fail or pause, on two, so that one's error meets
   the other's message. *)
EXTENDS Actors

CONSTANTS a1, a2
Programs1 == {[actors |-> {a1}, kinds |-> {"ok", "missing"}],
              [actors |-> {a1, a2}, kinds |-> {"fail", "pause"}]}
=============================================================================

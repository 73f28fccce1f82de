----------------------------- MODULE Exceptions -----------------------------
(***************************************************************************)
(* What try, catch and throw promise: a value that is thrown goes up the   *)
(* stack of activations to the innermost try block that is open, whose     *)
(* catch goes on outside of that block; with none open the task dies.      *)
(***************************************************************************)
EXTENDS Integers, Sequences

VARIABLES stack,   \* stack[i]: how many try blocks activation i is in
          status   \* "running", "done" or "dead"

vars == <<stack, status>>

Running == status = "running"
Innermost == Len(stack)

Init == stack = <<0>> /\ status = "running"

Call == Running /\ stack' = Append(stack, 0) /\ UNCHANGED status

\* An activation may be left from within its try blocks.
Return == /\ Running
          /\ stack' = SubSeq(stack, 1, Innermost - 1)
          /\ status' = IF Innermost = 1 THEN "done" ELSE status

EnterTry == Running /\ stack' = [stack EXCEPT ![Innermost] = @ + 1] /\ UNCHANGED status

LeaveTry == /\ Running
            /\ stack[Innermost] > 0
            /\ stack' = [stack EXCEPT ![Innermost] = @ - 1]
            /\ UNCHANGED status

Throw == /\ Running
         /\ IF \E i \in 1 .. Innermost : stack[i] > 0
              THEN \E i \in 1 .. Innermost :
                     /\ stack[i] > 0
                     /\ \A j \in i + 1 .. Innermost : stack[j] = 0
                     /\ stack' = [SubSeq(stack, 1, i) EXCEPT ![i] = @ - 1]
                     /\ UNCHANGED status
              ELSE status' = "dead" /\ UNCHANGED stack

\* A function that is retried starts again.
Restart == Running /\ stack' = [stack EXCEPT ![Innermost] = 0] /\ UNCHANGED status

\* An error that cannot be caught.
Die == Running /\ status' = "dead" /\ UNCHANGED stack

Next == Call \/ Return \/ EnterTry \/ LeaveTry \/ Throw \/ Restart \/ Die

Spec == Init /\ [][Next]_vars
=============================================================================

------------------------------ MODULE SyncActor ------------------------------
(***************************************************************************)
(* What a call of an actor's method promises: it looks like a synchronous  *)
(* call.  Between the moment a task makes the call and the moment it has   *)
(* the result the method is applied once, as a whole, to the actor's       *)
(* fields, and the result is the one that application gave.                *)
(*                                                                         *)
(* The method of the model exchanges the actor's content with a name of    *)
(* the call: it returns the content it found and leaves its call behind,   *)
(* so that every difference in the order of two applications shows.        *)
(***************************************************************************)
CONSTANTS Callers,  \* tasks that call
          Actors,
          Calls,    \* names of calls
          None

VARIABLES content,  \* content[a]: the fields of actor a
          pending,  \* pending[c]: the call c has made and what came of it, or None
          got       \* got[c]: the result of c's last call

vars == <<content, pending, got>>

Results == Calls \cup {None}

Init == /\ content = [a \in Actors |-> None]
        /\ pending = [c \in Callers |-> None]
        /\ got = [c \in Callers |-> None]

Call(c, a, k) ==
  /\ pending[c] = None
  /\ pending' = [pending EXCEPT ![c] = [actor |-> a, call |-> k, applied |-> FALSE,
                                        result |-> None]]
  /\ UNCHANGED <<content, got>>

\* The pending call once it has been applied and has given v.
Applied(p, v) == [actor |-> p.actor, call |-> p.call, applied |-> TRUE, result |-> v]

Apply(c) ==
  /\ pending[c] # None
  /\ ~pending[c].applied
  /\ content' = [content EXCEPT ![pending[c].actor] = pending[c].call]
  /\ pending' = [pending EXCEPT ![c] = Applied(pending[c], content[pending[c].actor])]
  /\ UNCHANGED got

Return(c) ==
  /\ pending[c] # None
  /\ pending[c].applied
  /\ got' = [got EXCEPT ![c] = pending[c].result]
  /\ pending' = [pending EXCEPT ![c] = None]
  /\ UNCHANGED content

Next == \E c \in Callers : \/ \E a \in Actors, k \in Calls : Call(c, a, k)
                           \/ Apply(c)
                           \/ Return(c)

Spec == Init /\ [][Next]_vars
=============================================================================

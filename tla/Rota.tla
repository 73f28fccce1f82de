-------------------------------- MODULE Rota --------------------------------
(***************************************************************************)
(* What the scheduler promises to the tasks of a program: turns by rota.   *)
(* In a pass every task that runs is visited once, the earlier spawned     *)
(* first, and a task spawned meanwhile is visited in the same pass; one    *)
(* that sleeps is passed over.  So no task is given a second turn before   *)
(* every other was visited.  Module Scheduler implements it with an array  *)
(* of recycled structs.                                                    *)
(*                                                                         *)
(* A task is the number of its spawn, 0 the main script.                   *)
(***************************************************************************)
EXTENDS Integers

CONSTANT None

VARIABLES spawned, \* how many tasks were spawned
          running, \* the tasks that have not ended
          asleep,  \* those of them that sleep
          left,    \* those of them that the pass has not visited
          turn     \* the task whose turn it is, or None

vars == <<spawned, running, asleep, left, turn>>

Init == /\ spawned = 0
        /\ running = {0}
        /\ asleep = {}
        /\ left = {0}
        /\ turn = None

\* The task that is to be visited next.
IsNext(t) == turn = None /\ t \in left /\ \A u \in left : t <= u

PassOver(t) == /\ IsNext(t)
               /\ t \in asleep
               /\ left' = left \ {t}
               /\ UNCHANGED <<spawned, running, asleep, turn>>

Begin(t) == /\ IsNext(t)
            /\ t \notin asleep
            /\ left' = left \ {t}
            /\ turn' = t
            /\ UNCHANGED <<spawned, running, asleep>>

Spawn == /\ turn # None
         /\ spawned' = spawned + 1
         /\ running' = running \cup {spawned'}
         /\ left' = left \cup {spawned'}
         /\ UNCHANGED <<asleep, turn>>

\* The task gives way, and may sleep from now on.
GiveWay == /\ turn # None
           /\ turn' = None
           /\ asleep' \in {asleep, asleep \cup {turn}}
           /\ UNCHANGED <<spawned, running, left>>

End == /\ turn # None
       /\ turn' = None
       /\ running' = running \ {turn}
       /\ UNCHANGED <<spawned, asleep, left>>

Wake(tasks) == /\ asleep' = asleep \ tasks
               /\ UNCHANGED <<spawned, running, left, turn>>

NewPass == /\ turn = None
           /\ left = {}
           /\ left' = running
           /\ UNCHANGED <<spawned, running, asleep, turn>>

Next == \/ \E t \in left : PassOver(t) \/ Begin(t)
        \/ Spawn \/ GiveWay \/ End \/ NewPass
        \/ \E tasks \in SUBSET asleep : Wake(tasks)

Spec == Init /\ [][Next]_vars
=============================================================================

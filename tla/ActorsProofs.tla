---------------------------- MODULE ActorsProofs ----------------------------
(***************************************************************************)
(* Proofs about module Actors, for any tasks, actors and programs and any  *)
(* capacity of the inboxes: a call has one message or one reply, only its  *)
(* own end ends a task, the program does not stop before all messages are  *)
(* processed, and calls of methods that return implement SyncActor.        *)
(***************************************************************************)
EXTENDS Actors, SequenceTheorems, FiniteSetTheorems, TLAPS

-----------------------------------------------------------------------------
(* The inductive invariant. *)

\* The pass.  A task is registered once; those not yet visited are alive; a pass in
\* which no task of the program was visited has visited actors only.
Turns ==
  /\ \A i, j \in 1 .. Len(tasks) : tasks[i] = tasks[j] => i = j
  /\ phase = "turn" => index <= Len(tasks) /\ tasks[index] \in Callers /\ anyAlive
  /\ phase # "halted" => \A i \in 1 .. Len(tasks) : i >= index => tasks[i] \notin dead
  /\ phase = "scan" /\ ~anyAlive => \A i \in 1 .. Len(tasks) : i < index => tasks[i] \in Actors
  /\ phase = "halted" => \A i \in 1 .. Len(tasks) : tasks[i] \in Actors

\* A task that is at a call is registered and not dead.
Present == \A c \in Callers : atCall[c] # None =>
             c \notin dead /\ \E i \in 1 .. Len(tasks) : tasks[i] = c

TurnsInv == SchedulerOK /\ Turns /\ Present /\ OnlyOwnEnd

\* A call is named after the task that makes it, and that waits for no other.
Names == \A c \in Callers : /\ atCall[c] # None => atCall[c].call[1] = c
                            /\ waiting[c] # None => atCall[c] # None /\ waiting[c] = atCall[c].call

\* A message is that of the call its task waits for, in the right inbox and not
\* yet answered,
Asked == \A a \in Actors : \A i \in 1 .. Len(inbox[a]) :
           LET r == inbox[a][i] IN
           /\ r.actor = a /\ replies[r.call] = None
           /\ atCall[r.call[1]] = r /\ waiting[r.call[1]] = r.call

\* and there is one of it.
Once == \A a \in Actors : \A i, j \in 1 .. Len(inbox[a]) : inbox[a][i] = inbox[a][j] => i = j

\* A reply is waited for.
Answers == \A k \in Calls : replies[k] # None => waiting[k[1]] = k

\* A call that has no reply yet has its message.
Pending == \A c \in Callers :
             waiting[c] # None /\ replies[waiting[c]] = None /\ atCall[c].kind # "missing" =>
               LET q == inbox[atCall[c].actor] IN \E i \in 1 .. Len(q) : q[i] = atCall[c]

\* No error without methods that fail.
Calm == Synchronous => ~hadError

CallsInv == CallsOK /\ Names /\ Asked /\ Once /\ Answers /\ Pending /\ Calm

IInv == TurnsInv /\ CallsInv
-----------------------------------------------------------------------------
(* Who is left when the dead are reaped. *)

LEMMA RankFacts ==
  ASSUME SchedulerOK
  PROVE  /\ Alive \subseteq 1 .. Len(tasks) /\ IsFiniteSet(Alive) /\ Cardinality(Alive) \in Nat
         /\ \A i \in Alive : Rank(i) \in 1 .. Cardinality(Alive)
         /\ \A i, j \in Alive : Rank(i) = Rank(j) => i = j
         /\ \A k \in 1 .. Cardinality(Alive) : \E i \in Alive : Rank(i) = k
<1>. DEFINE n == Cardinality(Alive)
            Below(i) == {h \in Alive : h <= i}
<1>1. Len(tasks) \in Nat
  BY LenProperties DEF SchedulerOK
<1>2. Alive \subseteq 1 .. Len(tasks)
  BY DEF Alive
<1>3. IsFiniteSet(Alive) /\ n \in Nat
  <2>1. IsFiniteSet(1 .. Len(tasks))
    BY <1>1, FS_Interval
  <2>2. IsFiniteSet(Alive)
    BY <1>2, <2>1, FS_Subset
  <2>. QED BY <2>2, FS_CardinalityType
<1>4. ASSUME NEW i \in Alive
      PROVE  Rank(i) \in 1 .. n /\ IsFiniteSet(Below(i)) /\ Cardinality(Below(i)) = Rank(i)
  <2>1. Below(i) \in SUBSET Alive /\ Rank(i) = Cardinality(Below(i))
    BY DEF Rank
  <2>2. IsFiniteSet(Below(i)) /\ Rank(i) <= n /\ Rank(i) \in Nat
    BY <1>3, <2>1, FS_Subset, FS_CardinalityType
  <2>3. i \in Below(i)
    BY <1>1, <1>2
  <2>4. Rank(i) # 0
    <3>. HIDE DEF Below
    <3>. QED BY <2>1, <2>2, <2>3, FS_EmptySet
  <2>. QED BY <1>3, <2>1, <2>2, <2>4
<1>5. ASSUME NEW i \in Alive, NEW j \in Alive, i < j PROVE Rank(i) # Rank(j)
  <2>1. Below(i) \in SUBSET Below(j) /\ j \in Below(j) /\ j \notin Below(i)
    <3>1. \A h \in Alive : h \in Int
      BY <1>1, <1>2
    <3>2. \A h \in Alive : h <= i => h <= j
      BY <1>5, <3>1
    <3>3. ~(j <= i) /\ j <= j
      BY <1>5, <3>1
    <3>. QED BY <3>2, <3>3
  <2>. HIDE DEF Below
  <2>2. Below(i) # Below(j)
    BY <2>1
  <2>. QED BY <1>4, <2>1, <2>2, FS_Subset
<1>6. \A i, j \in Alive : Rank(i) = Rank(j) => i = j
  <2>. SUFFICES ASSUME NEW i \in Alive, NEW j \in Alive, i # j PROVE Rank(i) # Rank(j)
    OBVIOUS
  <2>1. i < j \/ j < i
    BY <1>1, <1>2
  <2>. QED BY <1>5, <2>1
<1>7. \A k \in 1 .. n : \E i \in Alive : Rank(i) = k
  <2>. DEFINE f == [i \in Alive |-> Rank(i)]
  <2>1. f \in Injection(Alive, 1 .. n)
    <3>1. f \in [Alive -> 1 .. n]
      BY <1>4
    <3>2. \A i, j \in Alive : f[i] = f[j] => i = j
      BY <1>6
    <3>. HIDE DEF f
    <3>. QED BY <3>1, <3>2 DEF Injection, IsInjective
  <2>2. IsFiniteSet(1 .. n) /\ Cardinality(1 .. n) = n
    BY <1>3, FS_Interval
  <2>. HIDE DEF f
  <2>3. f \in Surjection(Alive, 1 .. n)
    BY <2>1, <2>2, FS_Injection
  <2>. QED BY <2>3 DEF f, Surjection
<1>. QED BY <1>2, <1>3, <1>4, <1>6, <1>7

\* The tasks that are not dead, once each.
LEMMA ReapedFacts ==
  ASSUME SchedulerOK, \A i, j \in 1 .. Len(tasks) : tasks[i] = tasks[j] => i = j
  PROVE  /\ Reaped \in Seq(Callers \cup Actors)
         /\ \A k \in 1 .. Len(Reaped) : Reaped[k] \notin dead /\ \E i \in 1 .. Len(tasks) : Reaped[k] = tasks[i]
         /\ \A k, l \in 1 .. Len(Reaped) : Reaped[k] = Reaped[l] => k = l
         /\ \A i \in 1 .. Len(tasks) : tasks[i] \notin dead => \E k \in 1 .. Len(Reaped) : Reaped[k] = tasks[i]
<1>. DEFINE n == Cardinality(Alive)
            At(k) == CHOOSE i \in Alive : Rank(i) = k
<1>1. /\ Alive \subseteq 1 .. Len(tasks) /\ n \in Nat /\ \A i \in Alive : tasks[i] \notin dead
      /\ \A i \in 1 .. Len(tasks) : tasks[i] \notin dead => i \in Alive
      /\ \A i \in 1 .. Len(tasks) : tasks[i] \in Callers \cup Actors
  BY RankFacts, LenProperties DEF Alive, SchedulerOK
<1>2. \A k \in 1 .. n : At(k) \in Alive /\ Rank(At(k)) = k
  BY RankFacts
<1>3. \A i \in Alive : Rank(i) \in 1 .. n /\ At(Rank(i)) = i
  BY RankFacts
<1>. HIDE DEF At, n
<1>4. Reaped = [k \in 1 .. n |-> tasks[At(k)]]
  BY DEF Reaped, At, n
<1>5. Reaped \in Seq(Callers \cup Actors) /\ Len(Reaped) = n
  <2>1. \A k \in 1 .. n : tasks[At(k)] \in Callers \cup Actors
    BY <1>1, <1>2
  <2>2. Reaped \in [1 .. n -> Callers \cup Actors]
    BY <1>4, <2>1
  <2>. QED BY <1>1, <2>2
<1>6. \A k \in 1 .. Len(Reaped) : Reaped[k] \notin dead /\ \E i \in 1 .. Len(tasks) : Reaped[k] = tasks[i]
  BY <1>1, <1>2, <1>4, <1>5
<1>7. ASSUME NEW k \in 1 .. Len(Reaped), NEW l \in 1 .. Len(Reaped), Reaped[k] = Reaped[l] PROVE k = l
  <2>1. k \in 1 .. n /\ l \in 1 .. n /\ tasks[At(k)] = tasks[At(l)]
    BY <1>4, <1>5, <1>7
  <2>2. At(k) = At(l)
    BY <1>1, <1>2, <2>1
  <2>. QED BY <1>2, <2>1, <2>2
<1>8. ASSUME NEW i \in 1 .. Len(tasks), tasks[i] \notin dead
      PROVE  \E k \in 1 .. Len(Reaped) : Reaped[k] = tasks[i]
  <2>1. i \in Alive /\ Rank(i) \in 1 .. n /\ At(Rank(i)) = i
    BY <1>1, <1>3, <1>8
  <2>2. Reaped[Rank(i)] = tasks[i]
    BY <1>4, <2>1
  <2>. QED BY <1>5, <2>1, <2>2
<1>. QED BY <1>5, <1>6, <1>7, <1>8

-----------------------------------------------------------------------------
(* The pass. *)

\* What the steps say of the tasks and the calls.
TurnVars == <<tasks, index, phase, anyAlive, dead, ended>>

LEMMA AdvanceTurns ==
  ASSUME TurnsInv, Advance, dead' \subseteq dead \cup {tasks[index]}, dead \subseteq dead',
         ended' = ended \cup (dead' \ dead), dead' \subseteq Callers, anyAlive' \in BOOLEAN,
         asleep' \subseteq Callers,
         phase \in {"scan", "turn"}, index <= Len(tasks), ~anyAlive' => tasks[index] \in Actors /\ ~anyAlive,
         \A c \in Callers : atCall'[c] # None => c \notin dead' /\ (atCall[c] # None \/ c = tasks[index])
  PROVE  TurnsInv'
<1>1. /\ tasks' = tasks /\ phase' = "scan" /\ index' = index + 1
      /\ tasks \in Seq(Callers \cup Actors) /\ Len(tasks) \in Nat /\ index \in 1 .. Len(tasks)
  BY LenProperties DEF Advance, TurnsInv, SchedulerOK
<1>2. SchedulerOK'
  <2>1. ended' \subseteq Callers
    BY DEF TurnsInv, SchedulerOK
  <2>2. index' \in 1 .. Len(tasks') + 1
    BY <1>1
  <2>. QED BY <1>1, <2>1, <2>2 DEF TurnsInv, SchedulerOK
<1>3. Turns'
  <2>1. \A i, j \in 1 .. Len(tasks) : tasks[i] = tasks[j] => i = j
    BY DEF TurnsInv, Turns
  <2>2. \A i \in 1 .. Len(tasks) : i >= index => tasks[i] \notin dead
    BY DEF TurnsInv, Turns
  <2>3. \A i \in 1 .. Len(tasks') : i >= index' => tasks'[i] \notin dead'
    BY <1>1, <2>1, <2>2
  <2>4. ~anyAlive' => \A i \in 1 .. Len(tasks) : i < index => tasks[i] \in Actors
    <3>1. phase = "turn" => anyAlive
      BY DEF TurnsInv, Turns
    <3>. QED BY <3>1 DEF TurnsInv, Turns
  <2>5. ~anyAlive' => \A i \in 1 .. Len(tasks') : i < index' => tasks'[i] \in Actors
    BY <1>1, <2>4
  <2>. QED BY <1>1, <2>1, <2>3, <2>5 DEF Turns
<1>4. Present'
  <2>. SUFFICES ASSUME NEW c \in Callers, atCall'[c] # None
                PROVE  c \notin dead' /\ \E i \in 1 .. Len(tasks) : tasks[i] = c
    BY <1>1 DEF Present
  <2>. QED BY <1>1 DEF TurnsInv, Present
<1>5. OnlyOwnEnd'
  BY DEF TurnsInv, OnlyOwnEnd
<1>. QED BY <1>2, <1>3, <1>4, <1>5 DEF TurnsInv

\* The steps that change nothing of this.
LEMMA SameTurns ==
  ASSUME TurnsInv, UNCHANGED TurnVars, UNCHANGED atCall, asleep' \subseteq Callers
  PROVE  TurnsInv'
<1>1. UNCHANGED <<tasks, index, phase, anyAlive, dead, ended, atCall>>
  BY DEF TurnVars
<1>2. SchedulerOK' /\ Turns' /\ Present' /\ OnlyOwnEnd'
  BY <1>1 DEF TurnsInv, SchedulerOK, Turns, Present, OnlyOwnEnd
<1>. QED BY <1>2 DEF TurnsInv

LEMMA EndPassTurns == ASSUME TurnsInv, EndPass PROVE TurnsInv'
<1>1. /\ phase = "scan" /\ index > Len(tasks) /\ tasks' = Reaped /\ index' = 1 /\ anyAlive' = FALSE
      /\ phase' = (IF anyAlive THEN "scan" ELSE "halted")
      /\ UNCHANGED <<dead, asleep, ended, atCall>>
  BY DEF EndPass, calls
<1>2. /\ tasks \in Seq(Callers \cup Actors) /\ Len(tasks) \in Nat
      /\ \A i, j \in 1 .. Len(tasks) : tasks[i] = tasks[j] => i = j
  BY LenProperties DEF TurnsInv, SchedulerOK, Turns
<1>3. /\ tasks' \in Seq(Callers \cup Actors) /\ Len(tasks') \in Nat
      /\ \A k \in 1 .. Len(tasks') : tasks'[k] \notin dead /\ \E i \in 1 .. Len(tasks) : tasks'[k] = tasks[i]
      /\ \A k, l \in 1 .. Len(tasks') : tasks'[k] = tasks'[l] => k = l
      /\ \A i \in 1 .. Len(tasks) : tasks[i] \notin dead => \E k \in 1 .. Len(tasks') : tasks'[k] = tasks[i]
  <2>1. SchedulerOK
    BY DEF TurnsInv
  <2>2. /\ Reaped \in Seq(Callers \cup Actors)
        /\ \A k \in 1 .. Len(Reaped) : Reaped[k] \notin dead /\ \E i \in 1 .. Len(tasks) : Reaped[k] = tasks[i]
        /\ \A k, l \in 1 .. Len(Reaped) : Reaped[k] = Reaped[l] => k = l
        /\ \A i \in 1 .. Len(tasks) : tasks[i] \notin dead => \E k \in 1 .. Len(Reaped) : Reaped[k] = tasks[i]
    BY ONLY <1>2, <2>1, ReapedFacts
  <2>3. Len(Reaped) \in Nat
    BY <2>2, LenProperties
  <2>. QED BY ONLY <1>1, <2>2, <2>3
<1>4. SchedulerOK'
  <2>1. index' \in 1 .. Len(tasks') + 1
    BY <1>1, <1>3
  <2>2. phase' \in {"scan", "turn", "halted"} /\ anyAlive' \in BOOLEAN
    BY <1>1
  <2>3. dead' \subseteq Callers /\ asleep' \subseteq Callers /\ ended' \subseteq Callers
    BY <1>1 DEF TurnsInv, SchedulerOK
  <2>. QED BY <1>3, <2>1, <2>2, <2>3 DEF SchedulerOK
<1>5. Turns'
  <2>1. ~anyAlive => \A i \in 1 .. Len(tasks) : tasks[i] \in Actors
    <3>1. index \in Int
      BY DEF TurnsInv, SchedulerOK
    <3>. QED BY <1>1, <1>2, <3>1 DEF TurnsInv, Turns
  <2>2. phase' = "halted" => \A k \in 1 .. Len(tasks') : tasks'[k] \in Actors
    BY <1>1, <1>3, <2>1
  <2>. QED BY <1>1, <1>3, <2>2 DEF Turns
<1>6. Present'
  <2>. SUFFICES ASSUME NEW c \in Callers, atCall[c] # None
                PROVE  c \notin dead /\ \E i \in 1 .. Len(tasks') : tasks'[i] = c
    BY <1>1 DEF Present
  <2>1. c \notin dead /\ \E i \in 1 .. Len(tasks) : tasks[i] = c
    BY DEF TurnsInv, Present
  <2>. QED BY <1>3, <2>1
<1>7. OnlyOwnEnd'
  BY <1>1 DEF TurnsInv, OnlyOwnEnd
<1>. QED BY <1>4, <1>5, <1>6, <1>7 DEF TurnsInv

LEMMA SpawnTurns == ASSUME IInv, Spawn PROVE TurnsInv'
<1>1. PICK t \in Callers \cup program.actors :
        /\ phase = "turn" /\ t \notin dead /\ \A i \in 1 .. Len(tasks) : tasks[i] # t
        /\ tasks' = Append(tasks, t)
        /\ UNCHANGED <<index, phase, anyAlive, dead, asleep, ended, atCall>>
  BY DEF Spawn, Ready, Running, calls
<1>2. t \in Callers \cup Actors
  BY ActorsAssumption DEF IInv, CallsInv, CallsOK
<1>3. tasks \in Seq(Callers \cup Actors) /\ Len(tasks) \in Nat
  BY LenProperties DEF IInv, TurnsInv, SchedulerOK
<1>4. /\ tasks' \in Seq(Callers \cup Actors) /\ Len(tasks') = Len(tasks) + 1
      /\ \A i \in 1 .. Len(tasks') : tasks'[i] = IF i = Len(tasks) + 1 THEN t ELSE tasks[i]
  <2>1. /\ tasks' \in Seq(Callers \cup Actors) /\ Len(tasks') = Len(tasks) + 1
        /\ \A i \in 1 .. Len(tasks) : tasks'[i] = tasks[i]
        /\ tasks'[Len(tasks) + 1] = t
    BY <1>1, <1>2, <1>3, AppendProperties
  <2>. QED BY <1>3, <2>1
<1>5. SchedulerOK'
  BY <1>1, <1>3, <1>4 DEF IInv, TurnsInv, SchedulerOK
<1>6. Turns'
  <2>1. \A i, j \in 1 .. Len(tasks') : tasks'[i] = tasks'[j] => i = j
    BY <1>1, <1>3, <1>4 DEF IInv, TurnsInv, Turns
  <2>2. \A i \in 1 .. Len(tasks') : i >= index => tasks'[i] \notin dead
    BY <1>1, <1>3, <1>4 DEF IInv, TurnsInv, Turns
  <2>3. index <= Len(tasks) /\ index \in Nat /\ tasks[index] \in Callers /\ anyAlive
    BY <1>1 DEF IInv, TurnsInv, Turns, SchedulerOK
  <2>4. index <= Len(tasks') /\ tasks'[index] \in Callers
    <3>1. index \in 1 .. Len(tasks') /\ index # Len(tasks) + 1
      BY <1>3, <1>4, <2>3 DEF IInv, TurnsInv, SchedulerOK
    <3>. QED BY <1>4, <2>3, <3>1
  <2>. QED BY <1>1, <2>1, <2>2, <2>3, <2>4 DEF Turns
<1>7. Present'
  <2>. SUFFICES ASSUME NEW c \in Callers, atCall[c] # None
                PROVE  c \notin dead /\ \E i \in 1 .. Len(tasks') : tasks'[i] = c
    BY <1>1 DEF Present
  <2>1. c \notin dead /\ \E i \in 1 .. Len(tasks) : tasks[i] = c
    BY DEF IInv, TurnsInv, Present
  <2>. QED BY <1>3, <1>4, <2>1
<1>8. OnlyOwnEnd'
  BY <1>1 DEF IInv, TurnsInv, OnlyOwnEnd
<1>. QED BY <1>5, <1>6, <1>7, <1>8 DEF TurnsInv

\* A caller that is visited is at an index of the tasks and alive.
LEMMA TurnFacts ==
  ASSUME TurnsInv, NEW c, phase = "turn" /\ c = Visited
  PROVE  /\ index \in 1 .. Len(tasks) /\ c = tasks[index] /\ c \in Callers /\ c \notin dead /\ anyAlive
<1>1. index <= Len(tasks) /\ c = tasks[index] /\ c \in Callers /\ anyAlive
  BY DEF TurnsInv, Turns, Visited
<1>2. index \in 1 .. Len(tasks)
  BY <1>1, LenProperties DEF TurnsInv, SchedulerOK
<1>. QED BY <1>1, <1>2 DEF TurnsInv, Turns, SchedulerOK

LEMMA NextTurns == ASSUME IInv, [Next]_vars PROVE TurnsInv'
<1>. TurnsInv
  BY DEF IInv
<1>. /\ dead \subseteq Callers /\ asleep \subseteq Callers /\ anyAlive \in BOOLEAN
     /\ index \in Int /\ Len(tasks) \in Nat
  BY LenProperties DEF TurnsInv, SchedulerOK
<1>0. \A c \in Callers : atCall[c] # None => c \notin dead
  BY DEF TurnsInv, Present
<1>1. CASE UNCHANGED vars
  BY <1>1, SameTurns DEF vars, scheduler, calls, TurnVars
<1>2. CASE Skip
  BY <1>0, <1>2, AdvanceTurns DEF Skip, Visiting, Visited, calls
<1>3. CASE BeginTurn
  <2>1. PICK c \in Callers : /\ phase = "scan" /\ index <= Len(tasks) /\ c = tasks[index]
                             /\ anyAlive' = TRUE /\ phase' = "turn"
                             /\ UNCHANGED <<tasks, index, dead, asleep, ended, atCall>>
    BY <1>3 DEF BeginTurn, Visiting, Visited, calls
  <2>2. SchedulerOK' /\ Turns' /\ Present' /\ OnlyOwnEnd'
    BY <2>1 DEF TurnsInv, SchedulerOK, Turns, Present, OnlyOwnEnd
  <2>. QED BY <2>2 DEF TurnsInv
<1>4. CASE EndPass
  BY <1>4, EndPassTurns
<1>5. CASE Wake
  BY <1>5, SameTurns DEF Wake, scheduler, calls, TurnVars
<1>6. CASE Spawn
  BY <1>6, SpawnTurns
<1>7. CASE Yield
  <2>1. PICK c \in Callers : /\ Running(c) /\ asleep' \in {asleep, asleep \cup {c}}
                             /\ Advance /\ UNCHANGED <<anyAlive, dead, ended, atCall>>
    BY <1>7 DEF Yield, Ready, calls
  <2>2. asleep' \subseteq Callers
    BY <2>1
  <2>. QED BY <1>0, <2>1, <2>2, TurnFacts, AdvanceTurns DEF Running
<1>8. CASE End
  <2>1. PICK c \in Callers : /\ Running(c) /\ atCall[c] = None
                             /\ dead' = dead \cup {c} /\ ended' = ended \cup {c}
                             /\ Advance /\ UNCHANGED <<anyAlive, asleep, atCall>>
    BY <1>8 DEF End, Ready, calls
  <2>2. c = tasks[index] /\ index <= Len(tasks) /\ c \notin dead /\ anyAlive /\ phase = "turn"
    BY <2>1, TurnFacts DEF Running
  <2>3. /\ dead' \subseteq dead \cup {tasks[index]} /\ dead \subseteq dead'
        /\ ended' = ended \cup (dead' \ dead) /\ dead' \subseteq Callers
    BY <2>1, <2>2
  <2>4. \A d \in Callers : atCall'[d] # None => d \notin dead' /\ atCall[d] # None
    BY <1>0, <2>1
  <2>. QED BY <2>1, <2>2, <2>3, <2>4, AdvanceTurns
<1>9. CASE Dispatch
  <2>1. PICK c \in Callers, a \in Actors, m \in program.kinds :
                     /\ Running(c)
                     /\ atCall' = [atCall EXCEPT ![c] = [actor |-> a, kind |-> m, call |-> <<c, nth[c]>>]]
                     /\ Advance /\ UNCHANGED <<anyAlive, dead, asleep, ended>>
    BY <1>9 DEF Dispatch, Ready
  <2>2. c = tasks[index] /\ index <= Len(tasks) /\ c \notin dead /\ anyAlive /\ phase = "turn"
    BY <2>1, TurnFacts DEF Running
  <2>3. \A d \in Callers : d # c => atCall'[d] = atCall[d]
    BY <2>1 DEF IInv, CallsInv, CallsOK
  <2>4. \A d \in Callers : atCall'[d] # None => d \notin dead' /\ (atCall[d] # None \/ d = tasks[index])
    BY <1>0, <2>1, <2>2, <2>3
  <2>. QED BY <2>1, <2>2, <2>4, AdvanceTurns
<1>10. CASE Redispatch
  <2>1. PICK c \in Callers : Running(c) /\ Advance /\ UNCHANGED <<anyAlive, dead, asleep, ended, atCall>>
    BY <1>10 DEF Redispatch
  <2>. QED BY <1>0, <2>1, TurnFacts, AdvanceTurns DEF Running
<1>11. CASE Receive
  <2>1. PICK c \in Callers : /\ Running(c) /\ Advance
                             /\ atCall' = [atCall EXCEPT ![c] = None] \/ atCall' = atCall
                             /\ UNCHANGED <<anyAlive, dead, asleep, ended>>
    BY <1>11 DEF Receive
  <2>2. c = tasks[index] /\ index <= Len(tasks) /\ c \notin dead /\ anyAlive /\ phase = "turn"
    BY <2>1, TurnFacts DEF Running
  <2>3. \A d \in Callers : d # c => atCall'[d] = atCall[d]
    BY <2>1 DEF IInv, CallsInv, CallsOK
  <2>4. \A d \in Callers : atCall'[d] # None => d \notin dead' /\ (atCall[d] # None \/ d = tasks[index])
    BY <1>0, <2>1, <2>2, <2>3
  <2>. QED BY <2>1, <2>2, <2>4, AdvanceTurns
<1>12. CASE Idle \/ Discard \/ Process
  <2>1. PICK a \in Actors : Visiting(a) /\ Advance /\ UNCHANGED <<anyAlive, dead, asleep, ended, atCall>>
    BY <1>12 DEF Idle, Discard, Process, Take, calls
  <2>2. phase = "scan" /\ index <= Len(tasks) /\ tasks[index] \in Actors
    BY <2>1 DEF Visiting, Visited
  <2>. QED BY <1>0, <2>1, <2>2, AdvanceTurns
<1>. QED BY <1>1, <1>2, <1>3, <1>4, <1>5, <1>6, <1>7, <1>8, <1>9, <1>10, <1>11, <1>12
         DEF Next, LoopStep, TurnStep

-----------------------------------------------------------------------------
(* The calls. *)

CallVars == <<program, hadError, inbox, content, calls, unreaped>>

LEMMA SameCalls ==
  ASSUME CallsInv, UNCHANGED <<program, inbox, content, calls, unreaped>>, hadError' \in BOOLEAN,
         hadError' => hadError
  PROVE  CallsInv'
<1>1. UNCHANGED <<program, inbox, content, atCall, nth, waiting, replies, got, unreaped>>
  BY DEF calls
<1>2. Requests' = Requests
  BY <1>1 DEF Requests, Messages
<1>3. CallsOK'
  BY <1>1, <1>2 DEF CallsInv, CallsOK
<1>4. Names' /\ Asked' /\ Once' /\ Answers' /\ Pending'
  BY <1>1 DEF CallsInv, Names, Asked, Once, Answers, Pending
<1>5. Calm'
  BY <1>1 DEF CallsInv, Calm, Synchronous
<1>. QED BY <1>3, <1>4, <1>5 DEF CallsInv

\* A request is a record, and its call names its task.
LEMMA RequestFacts ==
  ASSUME CallsOK, NEW r \in Requests
  PROVE  /\ r.actor \in Actors /\ r.call \in Calls /\ r.call[1] \in Callers /\ r # None
         /\ r.kind \in program.kinds
<1>1. r \in Messages({"ok", "fail", "pause", "missing"})
  BY ActorsAssumption DEF CallsOK, Requests, Messages
<1>. QED BY <1>1, NoneAssumption DEF Requests, Messages, Calls

\* A call that is not waited for has no message.
LEMMA NoMessage ==
  ASSUME CallsInv, NEW c \in Callers, waiting[c] = None, NEW a \in Actors, NEW i \in 1 .. Len(inbox[a])
  PROVE  inbox[a][i] \in Requests /\ inbox[a][i].call[1] # c
<1>1. inbox[a][i] \in Requests
  BY LenProperties DEF CallsInv, CallsOK
<1>. QED BY <1>1, RequestFacts, NoneAssumption DEF CallsInv, Asked

\* Send, whether or not the message finds room: c comes to be, or is, at call r.
LEMMA SendCalls ==
  ASSUME CallsInv, NEW c \in Callers, NEW r \in Requests, waiting[c] = None, r.call[1] = c,
         Send(c, r), atCall' = [atCall EXCEPT ![c] = r],
         nth' \in [Callers -> {0, 1}],
         UNCHANGED <<program, hadError, content, got, unreaped>>
  PROVE  CallsInv'
<1>1. /\ r.actor \in Actors /\ r.call \in Calls /\ r # None /\ CallsOK
  BY RequestFacts DEF CallsInv
<1>2. Requests' = Requests
  BY DEF Requests, Messages
<1>3. /\ atCall' \in [Callers -> Requests \cup {None}]
      /\ \A d \in Callers : atCall'[d] = IF d = c THEN r ELSE atCall[d]
  BY DEF CallsInv, CallsOK
<1>4. Calm'
  BY DEF CallsInv, Calm, Synchronous
<1>5. CASE Len(inbox[r.actor]) >= InboxCap
  <2>1. UNCHANGED <<inbox, waiting, replies>>
    <3>1. Len(inbox[r.actor]) \in Nat
      BY <1>1, LenProperties DEF CallsOK
    <3>. QED BY <1>5, <3>1, ActorsAssumption DEF Send
  <2>2. CallsOK'
    BY <1>1, <1>2, <1>3, <2>1 DEF CallsOK
  <2>3. Names'
    BY <1>1, <1>3, <2>1 DEF CallsInv, Names
  <2>4. Asked'
    <3>. SUFFICES ASSUME NEW a \in Actors, NEW i \in 1 .. Len(inbox[a])
                  PROVE  LET q == inbox[a][i] IN
                         /\ q.actor = a /\ replies[q.call] = None
                         /\ atCall'[q.call[1]] = q /\ waiting[q.call[1]] = q.call
      BY <2>1 DEF Asked
    <3>1. inbox[a][i] \in Requests /\ inbox[a][i].call[1] # c /\ inbox[a][i].call[1] \in Callers
      BY <1>1, NoMessage, RequestFacts
    <3>. QED BY <1>3, <3>1 DEF CallsInv, Asked
  <2>5. Once' /\ Answers'
    BY <2>1 DEF CallsInv, Once, Answers
  <2>6. Pending'
    BY <1>3, <2>1 DEF CallsInv, Pending
  <2>. QED BY <1>4, <2>2, <2>3, <2>4, <2>5, <2>6 DEF CallsInv
<1>6. CASE Len(inbox[r.actor]) < InboxCap
  <2>1. /\ inbox' = [inbox EXCEPT ![r.actor] = Append(@, r)]
        /\ waiting' = [waiting EXCEPT ![c] = r.call]
        /\ replies' = [replies EXCEPT ![r.call] = None]
    BY <1>6 DEF Send
  <2>2. inbox[r.actor] \in Seq(Requests) /\ Len(inbox[r.actor]) \in Nat
    BY <1>1, LenProperties DEF CallsOK
  <2>. DEFINE new == Append(inbox[r.actor], r)
  <2>3. /\ new \in Seq(Requests) /\ Len(new) = Len(inbox[r.actor]) + 1
        /\ \A i \in 1 .. Len(inbox[r.actor]) : new[i] = inbox[r.actor][i]
        /\ new[Len(inbox[r.actor]) + 1] = r
    BY <2>2, AppendProperties
  <2>4. \A a \in Actors : inbox'[a] = IF a = r.actor THEN new ELSE inbox[a]
    BY <1>1, <2>1 DEF CallsOK
  <2>5. \A d \in Callers : waiting'[d] = IF d = c THEN r.call ELSE waiting[d]
    BY <1>1, <2>1 DEF CallsOK
  <2>6. \A k \in Calls : replies'[k] = IF k = r.call THEN None ELSE replies[k]
    BY <1>1, <2>1 DEF CallsOK
  <2>0. inbox' = [inbox EXCEPT ![r.actor] = new]
    BY <2>1
  <2>. HIDE DEF new
  <2>7. ASSUME NEW a \in Actors, NEW i \in 1 .. Len(inbox'[a])
        PROVE  \/ a = r.actor /\ i = Len(inbox[a]) + 1 /\ inbox'[a][i] = r
               \/ i \in 1 .. Len(inbox[a]) /\ inbox'[a][i] = inbox[a][i]
    <3>1. CASE a # r.actor
      BY <2>4, <3>1
    <3>2. CASE a = r.actor /\ i = Len(inbox[a]) + 1
      BY <2>3, <2>4, <3>2
    <3>3. CASE a = r.actor /\ i # Len(inbox[a]) + 1
      BY <2>2, <2>3, <2>4, <3>3
    <3>. QED BY <3>1, <3>2, <3>3
  <2>8. \A a \in Actors : \A i \in 1 .. Len(inbox[a]) :
          i \in 1 .. Len(inbox'[a]) /\ inbox'[a][i] = inbox[a][i]
    BY <2>2, <2>3, <2>4
  <2>9. CallsOK'
    <3>1. inbox' \in [Actors -> Seq(Requests)]
      BY <1>1, <2>0, <2>3 DEF CallsOK
    <3>2. \A a \in Actors : Len(inbox'[a]) <= InboxCap
      <4>1. Len(new) <= InboxCap
        BY <1>6, <2>2, <2>3, ActorsAssumption
      <4>. QED BY <1>1, <2>4, <4>1 DEF CallsOK
    <3>3. /\ waiting' \in [Callers -> Calls \cup {None}]
          /\ replies' \in [Calls -> [value : Values] \cup {None}]
      BY <1>1, <2>1 DEF CallsOK
    <3>. QED BY <1>1, <1>2, <1>3, <3>1, <3>2, <3>3 DEF CallsOK
  <2>10. Names'
    BY <1>1, <1>3, <2>5 DEF CallsInv, Names
  <2>11. ASSUME NEW a \in Actors, NEW i \in 1 .. Len(inbox[a])
         PROVE  LET q == inbox[a][i] IN
                /\ q \in Requests /\ q.call[1] # c /\ q.call[1] \in Callers /\ q.call # r.call /\ q.call \in Calls
                /\ q # r
    BY <1>1, NoMessage, RequestFacts
  <2>12. Asked'
    <3>. SUFFICES ASSUME NEW a \in Actors, NEW i \in 1 .. Len(inbox'[a])
                  PROVE  LET q == inbox'[a][i] IN
                         /\ q.actor = a /\ replies'[q.call] = None
                         /\ atCall'[q.call[1]] = q /\ waiting'[q.call[1]] = q.call
      BY DEF Asked
    <3>1. CASE a = r.actor /\ inbox'[a][i] = r
      BY <1>1, <1>3, <2>5, <2>6, <3>1
    <3>2. CASE i \in 1 .. Len(inbox[a]) /\ inbox'[a][i] = inbox[a][i]
      BY <1>3, <2>5, <2>6, <2>11, <3>2 DEF CallsInv, Asked
    <3>. QED BY <2>7, <3>1, <3>2
  <2>13. Once'
    <3>. SUFFICES ASSUME NEW a \in Actors, NEW i \in 1 .. Len(inbox'[a]), NEW j \in 1 .. Len(inbox'[a]),
                         inbox'[a][i] = inbox'[a][j]
                  PROVE  i = j
      BY DEF Once
    <3>. QED BY <2>7, <2>11 DEF CallsInv, Once
  <2>14. Answers'
    <3>1. \A k \in Calls : k[1] \in Callers
      BY DEF Calls
    <3>. QED BY <2>5, <2>6, <3>1, NoneAssumption DEF CallsInv, Answers
  <2>15. Pending'
    <3>. SUFFICES ASSUME NEW d \in Callers, waiting'[d] # None, replies'[waiting'[d]] = None,
                         atCall'[d].kind # "missing"
                  PROVE  \E i \in 1 .. Len(inbox'[atCall'[d].actor]) :
                           inbox'[atCall'[d].actor][i] = atCall'[d]
      BY DEF Pending
    <3>1. CASE d = c
      <4>1. Len(inbox[r.actor]) + 1 \in 1 .. Len(inbox'[r.actor])
        BY <1>1, <2>2, <2>3, <2>4
      <4>2. inbox'[r.actor][Len(inbox[r.actor]) + 1] = r
        BY <1>1, <2>3, <2>4
      <4>. QED BY <1>3, <3>1, <4>1, <4>2
    <3>2. CASE d # c
      <4>1. atCall'[d] = atCall[d] /\ waiting[d] # None /\ waiting[d] \in Calls /\ waiting'[d] = waiting[d]
        BY <1>1, <1>3, <2>5, <3>2 DEF CallsOK
      <4>2. atCall[d] \in Requests /\ waiting[d] = atCall[d].call /\ waiting[d][1] = d
        BY <1>1, <4>1 DEF CallsInv, Names, CallsOK
      <4>3. replies[waiting[d]] = None
        BY <2>6, <3>2, <4>1, <4>2
      <4>4. atCall[d].actor \in Actors
        BY <1>1, <4>2, RequestFacts
      <4>5. PICK i \in 1 .. Len(inbox[atCall[d].actor]) : inbox[atCall[d].actor][i] = atCall[d]
        BY <4>1, <4>3 DEF CallsInv, Pending
      <4>. QED BY <2>8, <4>1, <4>4, <4>5
    <3>. QED BY <3>1, <3>2
  <2>. QED BY <1>4, <2>9, <2>10, <2>12, <2>13, <2>14, <2>15 DEF CallsInv
<1>7. Len(inbox[r.actor]) \in Nat
  BY <1>1, LenProperties DEF CallsOK
<1>. QED BY <1>5, <1>6, <1>7, ActorsAssumption

LEMMA ReceiveCalls == ASSUME CallsInv, Receive PROVE CallsInv'
<1>1. PICK c \in Callers :
        /\ waiting[c] # None
        /\ IF replies[waiting[c]] # None
             THEN /\ got' = [got EXCEPT ![c] = replies[waiting[c]].value]
                  /\ replies' = [replies EXCEPT ![waiting[c]] = None]
                  /\ waiting' = [waiting EXCEPT ![c] = None]
                  /\ atCall' = [atCall EXCEPT ![c] = None]
             ELSE UNCHANGED <<got, replies, waiting, atCall>>
        /\ UNCHANGED <<program, hadError, inbox, content, nth, unreaped>>
  BY DEF Receive
<1>2. CASE replies[waiting[c]] = None
  BY <1>1, <1>2, SameCalls DEF CallsInv, CallsOK, calls
<1>3. CASE replies[waiting[c]] # None
  <2>. DEFINE k == waiting[c]
  <2>1. /\ got' = [got EXCEPT ![c] = replies[k].value] /\ replies' = [replies EXCEPT ![k] = None]
        /\ waiting' = [waiting EXCEPT ![c] = None] /\ atCall' = [atCall EXCEPT ![c] = None]
        /\ UNCHANGED <<program, hadError, inbox, content, nth, unreaped>>
    BY <1>1, <1>3
  <2>2. k \in Calls /\ waiting[c] = k /\ k[1] = c /\ replies[k] \in [value : Values]
    BY <1>1, <1>3 DEF CallsInv, CallsOK, Names
  <2>. HIDE DEF k
  <2>3. /\ \A d \in Callers : atCall'[d] = IF d = c THEN None ELSE atCall[d]
        /\ \A d \in Callers : waiting'[d] = IF d = c THEN None ELSE waiting[d]
        /\ \A l \in Calls : replies'[l] = IF l = k THEN None ELSE replies[l]
    BY <2>1, <2>2 DEF CallsInv, CallsOK
  <2>4. Requests' = Requests
    BY <2>1 DEF Requests, Messages
  <2>5. CallsOK'
    <3>1. replies[k].value \in Values
      BY <2>2
    <3>2. /\ got' \in [Callers -> Values] /\ waiting' \in [Callers -> Calls \cup {None}]
          /\ replies' \in [Calls -> [value : Values] \cup {None}]
          /\ atCall' \in [Callers -> Requests \cup {None}]
      BY <2>1, <3>1 DEF CallsInv, CallsOK
    <3>. QED BY <2>1, <2>4, <3>2 DEF CallsInv, CallsOK
  <2>6. Names'
    BY <2>3 DEF CallsInv, Names
  <2>7. Asked'
    <3>. SUFFICES ASSUME NEW a \in Actors, NEW i \in 1 .. Len(inbox[a])
                  PROVE  LET q == inbox[a][i] IN
                         /\ q.actor = a /\ replies'[q.call] = None
                         /\ atCall'[q.call[1]] = q /\ waiting'[q.call[1]] = q.call
      BY <2>1 DEF Asked
    <3>. DEFINE q == inbox[a][i]
    <3>1. q \in Requests /\ CallsOK
      BY LenProperties DEF CallsInv, CallsOK
    <3>2. /\ q.actor = a /\ replies[q.call] = None
          /\ atCall[q.call[1]] = q /\ waiting[q.call[1]] = q.call
      BY DEF CallsInv, Asked
    <3>. HIDE DEF q
    <3>3. q.call \in Calls /\ q.call[1] \in Callers
      BY <3>1, RequestFacts
    <3>4. q.call # k /\ q.call[1] # c
      BY <1>3, <2>2, <3>2 DEF k
    <3>. QED BY <2>3, <3>2, <3>3, <3>4 DEF q
  <2>8. Once'
    BY <2>1 DEF CallsInv, Once
  <2>9. Answers'
    <3>1. \A l \in Calls : l[1] \in Callers
      BY DEF Calls
    <3>. QED BY <2>2, <2>3, <3>1 DEF CallsInv, Answers
  <2>10. Pending'
    <3>. SUFFICES ASSUME NEW d \in Callers, waiting'[d] # None, replies'[waiting'[d]] = None,
                         atCall'[d].kind # "missing"
                  PROVE  \E i \in 1 .. Len(inbox[atCall'[d].actor]) :
                           inbox[atCall'[d].actor][i] = atCall'[d]
      BY <2>1 DEF Pending
    <3>1. d # c /\ waiting'[d] = waiting[d] /\ atCall'[d] = atCall[d]
      BY <2>3
    <3>2. waiting[d] \in Calls /\ waiting[d][1] = d
      BY <3>1 DEF CallsInv, CallsOK, Names
    <3>3. replies[waiting[d]] = None
      BY <2>2, <2>3, <3>1, <3>2
    <3>. QED BY <3>1, <3>3 DEF CallsInv, Pending
  <2>11. Calm'
    BY <2>1 DEF CallsInv, Calm, Synchronous
  <2>. QED BY <2>5, <2>6, <2>7, <2>8, <2>9, <2>10, <2>11 DEF CallsInv
<1>. QED BY <1>2, <1>3

\* The message that an actor takes is that of a call that waits for its reply.
LEMMA TakeFacts ==
  ASSUME CallsInv, NEW a \in Actors, NEW r, Take(a, r)
  PROVE  /\ r \in Requests /\ r = inbox[a][1] /\ Len(inbox[a]) \in Nat \ {0}
         /\ r.actor = a /\ r.call \in Calls /\ r.call[1] \in Callers /\ replies[r.call] = None
         /\ atCall[r.call[1]] = r /\ waiting[r.call[1]] = r.call
         /\ Tail(inbox[a]) \in Seq(Requests) /\ Len(Tail(inbox[a])) = Len(inbox[a]) - 1
         /\ \A i \in 1 .. Len(inbox[a]) - 1 : Tail(inbox[a])[i] = inbox[a][i + 1]
<1>1. inbox[a] # << >> /\ r = Head(inbox[a]) /\ inbox[a] \in Seq(Requests) /\ CallsOK
  BY DEF Take, CallsInv, CallsOK
<1>2. Len(inbox[a]) \in Nat \ {0} /\ r = inbox[a][1] /\ r \in Requests
  BY <1>1, EmptySeq, LenProperties, HeadTailProperties
<1>3. /\ Tail(inbox[a]) \in Seq(Requests) /\ Len(Tail(inbox[a])) = Len(inbox[a]) - 1
      /\ \A i \in 1 .. Len(inbox[a]) - 1 : Tail(inbox[a])[i] = inbox[a][i + 1]
  BY <1>1, HeadTailProperties
<1>4. /\ r.actor = a /\ replies[r.call] = None
      /\ atCall[r.call[1]] = r /\ waiting[r.call[1]] = r.call
  BY <1>2 DEF CallsInv, Asked
<1>. QED BY <1>1, <1>2, <1>3, <1>4, RequestFacts

LEMMA TakeCalls ==
  ASSUME CallsInv, NEW a \in Actors, NEW r, Take(a, r),
         content' \in [Actors -> Calls \cup {None}], hadError' \in BOOLEAN, unreaped' \in BOOLEAN,
         Synchronous /\ ~hadError => ~hadError',
         \/ r.kind = "missing" /\ replies' = replies
         \/ \E v \in Values : replies' = [replies EXCEPT ![r.call] = Reply(v)]
  PROVE  CallsInv'
<1>. DEFINE rest == Tail(inbox[a])
            c == r.call[1]
            k == r.call
<1>1. inbox' = [inbox EXCEPT ![a] = rest] /\ UNCHANGED <<program, atCall, nth, waiting, got>>
  BY DEF Take
<1>2. /\ r \in Requests /\ r = inbox[a][1] /\ Len(inbox[a]) \in Nat \ {0}
      /\ r.actor = a /\ k \in Calls /\ c \in Callers /\ replies[k] = None
      /\ atCall[c] = r /\ waiting[c] = k /\ k = r.call /\ k[1] = c
      /\ rest \in Seq(Requests) /\ Len(rest) = Len(inbox[a]) - 1
      /\ \A i \in 1 .. Len(inbox[a]) - 1 : rest[i] = inbox[a][i + 1]
  BY TakeFacts
<1>. HIDE DEF rest, c, k
<1>3. \A b \in Actors : inbox'[b] = IF b = a THEN rest ELSE inbox[b]
  BY <1>1 DEF CallsInv, CallsOK
<1>4. Requests' = Requests
  BY <1>1 DEF Requests, Messages
<1>5. /\ replies' \in [Calls -> [value : Values] \cup {None}]
      /\ \A l \in Calls : l # k => replies'[l] = replies[l]
      /\ (r.kind = "missing" /\ replies' = replies) \/ replies'[k] # None
  <2>1. CASE r.kind = "missing" /\ replies' = replies
    BY <2>1 DEF CallsInv, CallsOK
  <2>2. ASSUME NEW v \in Values, replies' = [replies EXCEPT ![r.call] = Reply(v)]
        PROVE  /\ replies' \in [Calls -> [value : Values] \cup {None}]
               /\ \A l \in Calls : l # k => replies'[l] = replies[l]
               /\ replies'[k] # None
    <3>1. Reply(v) \in [value : Values] /\ Reply(v) # None
      BY NoneAssumption DEF Reply
    <3>. HIDE DEF Reply
    <3>. QED BY <1>2, <2>2, <3>1 DEF CallsInv, CallsOK
  <2>. QED BY <2>1, <2>2
<1>6. CallsOK'
  <2>1. inbox' \in [Actors -> Seq(Requests)]
    BY <1>1, <1>2 DEF CallsInv, CallsOK
  <2>2. \A b \in Actors : Len(inbox'[b]) <= InboxCap
    <3>1. Len(inbox[a]) <= InboxCap
      BY DEF CallsInv, CallsOK
    <3>2. Len(rest) <= InboxCap
      BY <1>2, <3>1, ActorsAssumption
    <3>. QED BY <1>3, <3>2 DEF CallsInv, CallsOK
  <2>. QED BY <1>1, <1>4, <1>5, <2>1, <2>2 DEF CallsInv, CallsOK
<1>7. ASSUME NEW b \in Actors, NEW i \in 1 .. Len(inbox'[b])
      PROVE  \/ b # a /\ i \in 1 .. Len(inbox[b]) /\ inbox'[b][i] = inbox[b][i]
             \/ b = a /\ i + 1 \in 2 .. Len(inbox[b]) /\ inbox'[b][i] = inbox[b][i + 1]
  <2>1. CASE b # a
    BY <1>3, <2>1
  <2>2. CASE b = a
    BY <1>2, <1>3, <2>2
  <2>. QED BY <2>1, <2>2
<1>8. Names'
  BY <1>1 DEF CallsInv, Names
<1>9. ASSUME NEW b \in Actors, NEW i \in 1 .. Len(inbox[b]), inbox[b][i].call = k
      PROVE  b = a /\ i = 1
  <2>1. inbox[b][i] = r
    BY <1>2, <1>9 DEF CallsInv, Asked, k
  <2>2. b = a
    BY <1>2, <2>1 DEF CallsInv, Asked
  <2>3. 1 \in 1 .. Len(inbox[a])
    BY <1>2
  <2>. QED BY <1>2, <2>1, <2>2, <2>3 DEF CallsInv, Once
<1>10. Asked'
  <2>1. ASSUME NEW b \in Actors, NEW j \in 1 .. Len(inbox[b]), b # a \/ j # 1
        PROVE  LET q == inbox[b][j] IN
               /\ q.actor = b /\ replies'[q.call] = None
               /\ atCall[q.call[1]] = q /\ waiting[q.call[1]] = q.call
    <3>1. inbox[b][j].call # k
      BY <1>9, <2>1
    <3>2. inbox[b][j] \in Requests /\ CallsOK
      BY LenProperties DEF CallsInv, CallsOK
    <3>3. inbox[b][j].call \in Calls
      BY <3>2, RequestFacts
    <3>. QED BY <1>5, <3>1, <3>3 DEF CallsInv, Asked
  <2>. SUFFICES ASSUME NEW b \in Actors, NEW i \in 1 .. Len(inbox'[b])
                PROVE  LET q == inbox'[b][i] IN
                       /\ q.actor = b /\ replies'[q.call] = None
                       /\ atCall[q.call[1]] = q /\ waiting[q.call[1]] = q.call
    BY <1>1 DEF Asked
  <2>2. CASE b # a
    BY <1>7, <2>1, <2>2
  <2>3. CASE b = a
    <3>1. i + 1 \in 1 .. Len(inbox[b]) /\ i + 1 # 1 /\ inbox'[b][i] = inbox[b][i + 1]
      BY <1>2, <1>7, <2>3
    <3>. QED BY <2>1, <3>1
  <2>. QED BY <2>2, <2>3
<1>11. Once'
  <2>. SUFFICES ASSUME NEW b \in Actors, NEW i \in 1 .. Len(inbox'[b]), NEW j \in 1 .. Len(inbox'[b]),
                       inbox'[b][i] = inbox'[b][j]
                PROVE  i = j
    BY DEF Once
  <2>1. CASE b # a
    BY <1>7, <2>1 DEF CallsInv, Once
  <2>2. CASE b = a
    <3>1. /\ i + 1 \in 1 .. Len(inbox[b]) /\ j + 1 \in 1 .. Len(inbox[b])
          /\ inbox[b][i + 1] = inbox[b][j + 1]
      BY <1>2, <1>7, <2>2
    <3>2. i + 1 = j + 1
      BY <3>1 DEF CallsInv, Once
    <3>3. i \in Int /\ j \in Int
      OBVIOUS
    <3>. QED BY <3>2, <3>3
  <2>. QED BY <2>1, <2>2
<1>12. Answers'
  BY <1>1, <1>2, <1>5 DEF CallsInv, Answers
<1>13. Pending'
  <2>. SUFFICES ASSUME NEW d \in Callers, waiting[d] # None, replies'[waiting[d]] = None,
                       atCall[d].kind # "missing"
                PROVE  \E i \in 1 .. Len(inbox'[atCall[d].actor]) :
                         inbox'[atCall[d].actor][i] = atCall[d]
    BY <1>1 DEF Pending
  <2>1. /\ atCall[d] \in Requests /\ waiting[d] \in Calls /\ waiting[d] = atCall[d].call
        /\ waiting[d][1] = d /\ CallsOK
    BY DEF CallsInv, CallsOK, Names
  <2>2. d # c
    BY <1>2, <1>5
  <2>3. waiting[d] # k /\ replies[waiting[d]] = None
    BY <1>2, <1>5, <2>1, <2>2
  <2>. DEFINE b == atCall[d].actor
  <2>4. b \in Actors
    BY <2>1, RequestFacts
  <2>5. PICK i \in 1 .. Len(inbox[b]) : inbox[b][i] = atCall[d]
    BY <2>3 DEF CallsInv, Pending
  <2>. HIDE DEF b
  <2>6. CASE b # a
    BY <1>3, <2>4, <2>5, <2>6 DEF b
  <2>7. CASE b = a
    <3>1. i # 1
      BY <1>2, <2>1, <2>3, <2>5, <2>7
    <3>2. i - 1 \in 1 .. Len(rest) /\ rest[i - 1] = inbox[a][i]
      BY <1>2, <2>5, <2>7, <3>1
    <3>. QED BY <1>3, <2>4, <2>5, <2>7, <3>2 DEF b
  <2>. QED BY <2>6, <2>7
<1>14. Calm'
  BY <1>1 DEF CallsInv, Calm, Synchronous
<1>. QED BY <1>6, <1>8, <1>10, <1>11, <1>12, <1>13, <1>14 DEF CallsInv

LEMMA DispatchCalls == ASSUME CallsInv, Dispatch \/ Redispatch PROVE CallsInv'
<1>1. CASE Dispatch
  <2>1. PICK c \in Callers, a \in Actors, m \in program.kinds :
          /\ atCall[c] = None /\ Send(c, [actor |-> a, kind |-> m, call |-> <<c, nth[c]>>])
          /\ atCall' = [atCall EXCEPT ![c] = [actor |-> a, kind |-> m, call |-> <<c, nth[c]>>]]
          /\ nth' = [nth EXCEPT ![c] = 1 - @]
          /\ UNCHANGED <<program, hadError, content, got, unreaped>>
    BY <1>1 DEF Dispatch, Ready
  <2>. DEFINE r == [actor |-> a, kind |-> m, call |-> <<c, nth[c]>>]
  <2>2. waiting[c] = None
    BY <2>1 DEF CallsInv, Names
  <2>3. nth \in [Callers -> {0, 1}]
    BY DEF CallsInv, CallsOK
  <2>4. r \in Requests /\ r.call[1] = c
    BY <2>3 DEF Requests, Messages, Calls
  <2>5. nth' \in [Callers -> {0, 1}]
    BY <2>1, <2>3
  <2>6. Send(c, r) /\ atCall' = [atCall EXCEPT ![c] = r]
    BY <2>1
  <2>. HIDE DEF r
  <2>. QED BY <2>1, <2>2, <2>4, <2>5, <2>6, SendCalls
<1>2. CASE Redispatch
  <2>1. PICK c \in Callers : /\ atCall[c] # None /\ waiting[c] = None /\ Send(c, atCall[c])
                             /\ UNCHANGED <<program, hadError, content, atCall, nth, got, unreaped>>
    BY <1>2 DEF Redispatch
  <2>2. atCall[c] \in Requests /\ atCall[c].call[1] = c
    BY <2>1 DEF CallsInv, CallsOK, Names
  <2>3. atCall' = [atCall EXCEPT ![c] = atCall[c]] /\ nth' \in [Callers -> {0, 1}]
    BY <2>1 DEF CallsInv, CallsOK
  <2>. QED BY <2>1, <2>2, <2>3, SendCalls
<1>. QED BY <1>1, <1>2

LEMMA ProcessCalls == ASSUME CallsInv, Discard \/ Process PROVE CallsInv'
<1>1. /\ content \in [Actors -> Calls \cup {None}] /\ hadError \in BOOLEAN /\ unreaped \in BOOLEAN
      /\ Junk \in Values /\ \A a \in Actors : content[a] \in Values
  BY DEF CallsInv, CallsOK, Values
<1>2. CASE Discard
  <2>1. PICK a \in Actors, r \in {Head(inbox[b]) : b \in {b \in Actors : inbox[b] # << >>}} :
          Take(a, r) /\ r.kind = "missing" /\ UNCHANGED <<hadError, content, replies, unreaped>>
    BY <1>2 DEF Discard
  <2>. QED BY <1>1, <2>1, TakeCalls
<1>3. CASE Process
  <2>1. PICK a \in Actors, r \in {Head(inbox[b]) : b \in {b \in Actors : inbox[b] # << >>}} :
          /\ Take(a, r)
          /\ IF hadError THEN Unrun(r) ELSE Method(a, r) \/ Failing(a, r) \/ Cut(a, r)
    BY <1>3 DEF Process
  <2>2. r \in Requests /\ r.call \in Calls /\ r.kind \in program.kinds
    <3>1. CallsOK /\ r \in Requests
      BY <2>1, TakeFacts DEF CallsInv
    <3>. QED BY <3>1, RequestFacts
  <2>3. [content EXCEPT ![a] = r.call] \in [Actors -> Calls \cup {None}]
    BY <1>1, <2>2
  <2>4. CASE Unrun(r)
    <3>1. /\ replies' = [replies EXCEPT ![r.call] = Reply(Junk)] /\ unreaped' = TRUE
          /\ UNCHANGED <<content, hadError>>
      BY <2>4 DEF Unrun, Answer
    <3>. QED BY <1>1, <2>1, <3>1, TakeCalls
  <2>5. CASE Method(a, r)
    <3>1. /\ replies' = [replies EXCEPT ![r.call] = Reply(content[a])] /\ unreaped' = TRUE
          /\ content' = [content EXCEPT ![a] = r.call] /\ UNCHANGED hadError
      BY <2>5 DEF Method, Answer
    <3>. QED BY <1>1, <2>1, <2>3, <3>1, TakeCalls
  <2>6. CASE Failing(a, r)
    <3>1. /\ replies' = [replies EXCEPT ![r.call] = Reply(Junk)] /\ unreaped' = TRUE
          /\ content' \in {content, [content EXCEPT ![a] = r.call]} /\ hadError' = TRUE
          /\ r.kind = "fail"
      BY <2>6 DEF Failing, Answer
    <3>2. ~Synchronous
      BY <2>2, <3>1 DEF Synchronous
    <3>. QED BY <1>1, <2>1, <2>3, <3>1, <3>2, TakeCalls
  <2>7. CASE Cut(a, r)
    <3>1. /\ replies' = [replies EXCEPT ![r.call] = Reply(Junk)] /\ unreaped' = TRUE
          /\ content' \in {content, [content EXCEPT ![a] = r.call]} /\ UNCHANGED hadError
      BY <2>7 DEF Cut, Answer
    <3>. QED BY <1>1, <2>1, <2>3, <3>1, TakeCalls
  <2>. QED BY <2>1, <2>4, <2>5, <2>6, <2>7
<1>. QED BY <1>2, <1>3

LEMMA NextCalls == ASSUME CallsInv, [Next]_vars PROVE CallsInv'
<1>. hadError \in BOOLEAN
  BY DEF CallsInv, CallsOK
<1>1. CASE UNCHANGED vars \/ Skip \/ EndPass \/ Wake \/ Spawn \/ Yield \/ End \/ Idle
  <2>1. UNCHANGED <<program, hadError, inbox, content, calls, unreaped>>
    BY <1>1 DEF vars, Skip, EndPass, Wake, Spawn, Yield, End, Idle
  <2>. QED BY <2>1, SameCalls
<1>2. CASE BeginTurn
  BY <1>2, SameCalls DEF BeginTurn
<1>. QED BY <1>1, <1>2, DispatchCalls, ReceiveCalls, ProcessCalls DEF Next, LoopStep, TurnStep

-----------------------------------------------------------------------------
(* The specification. *)

LEMMA InitInv == ASSUME Init PROVE IInv
<1>1. tasks = <<Main>> /\ Len(tasks) = 1 /\ tasks[1] = Main /\ Main \in Callers
  BY ActorsAssumption DEF Init
<1>2. \A a \in Actors : inbox[a] = << >> /\ Len(inbox[a]) = 0
  BY DEF Init
<1>3. SchedulerOK
  <2>1. tasks \in Seq(Callers \cup Actors)
    BY <1>1
  <2>2. index \in 1 .. Len(tasks) + 1
    BY <1>1 DEF Init
  <2>3. /\ phase \in {"scan", "turn", "halted"} /\ anyAlive \in BOOLEAN
        /\ dead = {} /\ asleep = {} /\ ended = {}
    BY DEF Init
  <2>. QED BY <2>1, <2>2, <2>3 DEF SchedulerOK
<1>4. Turns /\ Present /\ OnlyOwnEnd
  <2>1. \A i \in 1 .. Len(tasks) : i = 1
    BY <1>1
  <2>. QED BY <1>1, <2>1 DEF Init, Turns, Present, OnlyOwnEnd
<1>5. CallsOK
  <2>1. inbox \in [Actors -> Seq(Requests)]
    BY DEF Init
  <2>2. InboxCap \in Nat \ {0}
    BY ActorsAssumption
  <2>3. \A a \in Actors : Len(inbox[a]) <= InboxCap
    BY <1>2, <2>2
  <2>4. /\ content \in [Actors -> Calls \cup {None}] /\ atCall \in [Callers -> Requests \cup {None}]
        /\ nth \in [Callers -> {0, 1}]
    BY DEF Init
  <2>5. /\ waiting \in [Callers -> Calls \cup {None}] /\ got \in [Callers -> Values]
        /\ replies \in [Calls -> [value : Values] \cup {None}]
    BY DEF Init, Values
  <2>6. program \in Programs /\ hadError \in BOOLEAN /\ unreaped \in BOOLEAN
    BY DEF Init
  <2>. QED BY <2>1, <2>3, <2>4, <2>5, <2>6 DEF CallsOK
<1>6. Names /\ Asked /\ Once /\ Answers /\ Pending /\ Calm
  <2>1. Asked /\ Once
    BY <1>2 DEF Asked, Once
  <2>. QED BY <2>1 DEF Init, Names, Answers, Pending, Calm
<1>. QED BY <1>3, <1>4, <1>5, <1>6 DEF IInv, TurnsInv, CallsInv

LEMMA NextInv == ASSUME IInv, [Next]_vars PROVE IInv'
  BY NextTurns, NextCalls DEF IInv

LEMMA SpecInv == Spec => []IInv
<1>1. Init => IInv
  BY InitInv
<1>2. IInv /\ [Next]_vars => IInv'
  BY NextInv
<1>. QED BY <1>1, <1>2, PTL DEF Spec

\* A call's places in the inboxes: one, or none.
LEMMA OneMessage == ASSUME IInv PROVE OneMessagePerCall
<1>. SUFFICES ASSUME NEW k \in Calls
              PROVE  LET c == k[1] IN
                     IF waiting[c] = k
                       THEN /\ \A p \in Places(k) : p[1] = atCall[c].actor
                            /\ Cardinality(Places(k)) <= 1
                            /\ Places(k) # {} => replies[k] = None
                            /\ Places(k) = {} /\ replies[k] = None => atCall[c].kind = "missing"
                       ELSE Places(k) = {} /\ replies[k] = None
  BY DEF OneMessagePerCall
<1>. DEFINE c == k[1]
<1>1. c \in Callers /\ CallsInv /\ CallsOK /\ k # None
  BY NoneAssumption DEF Calls, IInv, CallsInv
<1>2. ASSUME NEW p \in Places(k)
      PROVE  /\ p[1] \in Actors /\ p[2] \in 1 .. Len(inbox[p[1]]) /\ p = <<p[1], p[2]>>
             /\ p[1] = atCall[c].actor /\ inbox[p[1]][p[2]] = atCall[c]
             /\ waiting[c] = k /\ replies[k] = None
  <2>1. /\ p \in Actors \X (1 .. InboxCap) /\ p[2] <= Len(inbox[p[1]])
        /\ inbox[p[1]][p[2]].call = k
    BY DEF Places
  <2>2. p[1] \in Actors /\ p[2] \in 1 .. Len(inbox[p[1]]) /\ p = <<p[1], p[2]>>
    <3>1. p[1] \in Actors /\ p[2] \in 1 .. InboxCap /\ p = <<p[1], p[2]>>
      BY <2>1
    <3>2. Len(inbox[p[1]]) \in Nat
      BY <1>1, <3>1, LenProperties DEF CallsOK
    <3>. QED BY <2>1, <3>1, <3>2, ActorsAssumption
  <2>. QED BY <1>1, <2>1, <2>2 DEF CallsInv, Asked
<1>3. ASSUME NEW p \in Places(k), NEW q \in Places(k) PROVE p = q
  <2>1. p[1] = q[1] /\ inbox[p[1]][p[2]] = inbox[p[1]][q[2]]
    BY <1>2
  <2>2. p[2] = q[2]
    BY <1>1, <1>2, <2>1 DEF CallsInv, Once
  <2>. QED BY <1>2, <2>1, <2>2
<1>4. Cardinality(Places(k)) <= 1
  <2>1. CASE Places(k) = {}
    BY <2>1, FS_EmptySet
  <2>2. CASE Places(k) # {}
    <3>1. PICK p : p \in Places(k)
      BY <2>2
    <3>2. Places(k) = {p}
      BY <1>3, <3>1
    <3>3. Cardinality({p}) = 1
      BY FS_Singleton
    <3>. QED BY <3>2, <3>3
  <2>. QED BY <2>1, <2>2
<1>5. CASE waiting[c] # k
  <2>1. Places(k) = {}
    BY <1>2, <1>5
  <2>2. replies[k] = None
    BY <1>1, <1>5 DEF CallsInv, Answers
  <2>. QED BY <1>5, <2>1, <2>2
<1>6. CASE waiting[c] = k
  <2>1. ASSUME replies[k] = None, atCall[c].kind # "missing" PROVE Places(k) # {}
    <3>1. atCall[c] \in Requests /\ atCall[c].call = k
      BY <1>1, <1>6 DEF CallsInv, Names, CallsOK
    <3>2. atCall[c].actor \in Actors
      BY <1>1, <3>1, RequestFacts
    <3>. DEFINE a == atCall[c].actor
    <3>3. PICK i \in 1 .. Len(inbox[a]) : inbox[a][i] = atCall[c]
      BY <1>1, <1>6, <2>1 DEF CallsInv, Pending
    <3>4. Len(inbox[a]) \in Nat /\ Len(inbox[a]) <= InboxCap
      BY <1>1, <3>2, LenProperties DEF CallsOK
    <3>5. i \in 1 .. InboxCap /\ i <= Len(inbox[a])
      BY <3>3, <3>4, ActorsAssumption
    <3>6. <<a, i>> \in Places(k)
      BY <3>1, <3>2, <3>3, <3>5 DEF Places
    <3>. QED BY <3>6
  <2>. QED BY <1>2, <1>4, <1>6, <2>1
<1>. QED BY <1>5, <1>6

LEMMA Halted == ASSUME IInv PROVE HaltedMeansAnswered
<1>. SUFFICES ASSUME phase = "halted"
              PROVE  /\ \A a \in Actors : inbox[a] = << >>
                     /\ \A i \in 1 .. Len(tasks) : tasks[i] \in Actors
  BY DEF HaltedMeansAnswered
<1>1. \A i \in 1 .. Len(tasks) : tasks[i] \in Actors
  BY DEF IInv, TurnsInv, Turns
<1>2. \A c \in Callers : atCall[c] = None
  BY <1>1, NoneAssumption DEF IInv, TurnsInv, Present
<1>3. ASSUME NEW a \in Actors, inbox[a] # << >> PROVE FALSE
  <2>1. inbox[a] \in Seq(Requests) /\ CallsOK
    BY DEF IInv, CallsInv, CallsOK
  <2>2. 1 \in 1 .. Len(inbox[a]) /\ inbox[a][1] \in Requests
    BY <1>3, <2>1, EmptySeq, LenProperties
  <2>3. inbox[a][1].call[1] \in Callers /\ inbox[a][1] # None
    BY <2>1, <2>2, RequestFacts
  <2>4. atCall[inbox[a][1].call[1]] = inbox[a][1]
    BY <2>2 DEF IInv, CallsInv, Asked
  <2>. QED BY <1>2, <2>3, <2>4
<1>. QED BY <1>1, <1>3

\* However its turns interleave with those of others, a call has one message or one
\* reply; no method ends another task; and the program halts with no message left.
THEOREM CallsAreSound == Spec => []ActorsInv
<1>1. IInv => ActorsInv
  BY OneMessage, Halted DEF ActorsInv, TypeOK, IInv, TurnsInv, CallsInv
<1>. QED BY <1>1, SpecInv, PTL

-----------------------------------------------------------------------------
(* Calls look like synchronous calls. *)

\* What came of c's call depends on its place in the program, on its reply channel
\* and on the reply in it.
LEMMA OutcomeFacts ==
  ASSUME CallsInv, NEW c \in Callers
  PROVE  /\ atCall[c] = None => Outcome(c) = None
         /\ atCall[c] # None => Outcome(c) # None
         /\ atCall[c] # None /\ (waiting[c] = None \/ replies[waiting[c]] = None) =>
              Outcome(c) = [actor |-> atCall[c].actor, call |-> atCall[c].call,
                            applied |-> FALSE, result |-> None]
         /\ waiting[c] # None /\ replies[waiting[c]] # None =>
              Outcome(c) = [actor |-> atCall[c].actor, call |-> atCall[c].call,
                            applied |-> TRUE, result |-> replies[waiting[c]].value]
<1>1. CallsOK
  BY DEF CallsInv
<1>2. atCall[c] = None => Outcome(c) = None
  BY DEF Outcome
<1>3. ASSUME atCall[c] # None, waiting[c] = None \/ replies[waiting[c]] = None
      PROVE  Outcome(c) = [actor |-> atCall[c].actor, call |-> atCall[c].call,
                           applied |-> FALSE, result |-> None]
  <2>1. (IF waiting[c] = None THEN None ELSE replies[waiting[c]]) = None
    BY <1>3
  <2>. QED BY <1>3, <2>1 DEF Outcome
<1>4. ASSUME waiting[c] # None, replies[waiting[c]] # None
      PROVE  atCall[c] # None /\
             Outcome(c) = [actor |-> atCall[c].actor, call |-> atCall[c].call,
                           applied |-> TRUE, result |-> replies[waiting[c]].value]
  <2>1. (IF waiting[c] = None THEN None ELSE replies[waiting[c]]) = replies[waiting[c]]
    BY <1>4
  <2>2. atCall[c] # None
    BY <1>4 DEF CallsInv, Names
  <2>. QED BY <1>4, <2>1, <2>2 DEF Outcome
<1>5. atCall[c] # None => Outcome(c) # None
  <2>. SUFFICES ASSUME atCall[c] # None PROVE Outcome(c) # None
    OBVIOUS
  <2>0. atCall[c] # None
    OBVIOUS
  <2>1. atCall[c] \in Requests
    BY <1>1 DEF CallsOK
  <2>2. atCall[c].actor \in Actors /\ atCall[c].call \in Calls
    BY <1>1, <2>1, RequestFacts
  <2>3. waiting[c] # None /\ replies[waiting[c]] # None => replies[waiting[c]].value \in Values
    BY <1>1 DEF CallsOK
  <2>4. Outcome(c) \in [actor : Actors, call : Calls, applied : BOOLEAN, result : Values]
    <3>1. None \in Values
      BY DEF Values
    <3>2. \A x \in BOOLEAN, v \in Values :
            [actor |-> atCall[c].actor, call |-> atCall[c].call, applied |-> x, result |-> v]
              \in [actor : Actors, call : Calls, applied : BOOLEAN, result : Values]
      BY <2>2
    <3>3. CASE waiting[c] # None /\ replies[waiting[c]] # None
      <4>1. replies[waiting[c]].value \in Values
        BY <2>3, <3>3
      <4>2. Outcome(c) = [actor |-> atCall[c].actor, call |-> atCall[c].call,
                          applied |-> TRUE, result |-> replies[waiting[c]].value]
        BY <1>4, <3>3
      <4>. QED BY <3>2, <4>1, <4>2
    <3>4. CASE waiting[c] = None \/ replies[waiting[c]] = None
      <4>1. Outcome(c) = [actor |-> atCall[c].actor, call |-> atCall[c].call,
                          applied |-> FALSE, result |-> None]
        BY <1>3, <2>0, <3>4
      <4>. QED BY <3>1, <3>2, <4>1
    <3>. QED BY <3>3, <3>4
  <2>. QED BY <2>4, NoneAssumption
<1>. QED BY <1>2, <1>3, <1>4, <1>5

\* A call whose task, channel and reply stay as they are has come to nothing new.
LEMMA SameOutcome ==
  ASSUME NEW c \in Callers, atCall'[c] = atCall[c], waiting'[c] = waiting[c],
         waiting[c] # None => replies'[waiting[c]] = replies[waiting[c]]
  PROVE  Outcome(c)' = Outcome(c)
<1>1. (IF waiting'[c] = None THEN None ELSE replies'[waiting'[c]])
        = (IF waiting[c] = None THEN None ELSE replies[waiting[c]])
  OBVIOUS
<1>. QED BY <1>1 DEF Outcome

\* Steps after which the actors' fields, the results and what came of calls are the same.
LEMMA SameOutcomes ==
  ASSUME UNCHANGED <<content, got>>, \A c \in Callers : Outcome(c)' = Outcome(c)
  PROVE  UNCHANGED Abstract!vars
<1>1. outcomes' = outcomes
  BY DEF outcomes
<1>. QED BY <1>1 DEF Abstract!vars

LEMMA SendOutcome ==
  ASSUME CallsInv, CallsInv', NEW c \in Callers, NEW r \in Requests, waiting[c] = None, r.call[1] = c,
         Send(c, r), atCall' = [atCall EXCEPT ![c] = r]
  PROVE  /\ \A d \in Callers : d # c => Outcome(d)' = Outcome(d)
         /\ Outcome(c)' = [actor |-> r.actor, call |-> r.call, applied |-> FALSE, result |-> None]
<1>1. r.call \in Calls /\ r # None /\ CallsOK
  BY RequestFacts DEF CallsInv
<1>2. \A d \in Callers : atCall'[d] = IF d = c THEN r ELSE atCall[d]
  BY <1>1 DEF CallsOK
<1>3. /\ \A d \in Callers : d # c => waiting'[d] = waiting[d]
      /\ waiting'[c] = r.call \/ waiting'[c] = None
      /\ \A k \in Calls : k # r.call => replies'[k] = replies[k]
      /\ waiting'[c] # None => replies'[r.call] = None
  <2>1. CASE UNCHANGED <<waiting, replies>>
    BY <2>1
  <2>2. CASE /\ waiting' = [waiting EXCEPT ![c] = r.call]
             /\ replies' = [replies EXCEPT ![r.call] = None]
    BY <1>1, <2>2 DEF CallsOK
  <2>. QED BY <2>1, <2>2 DEF Send
<1>4. ASSUME NEW d \in Callers, d # c PROVE Outcome(d)' = Outcome(d)
  <2>0. waiting[d] # None => waiting[d][1] = d
    BY <1>4 DEF CallsInv, Names
  <2>1. waiting[d] # None => waiting[d] \in Calls /\ waiting[d] # r.call
    BY <1>1, <1>4, <2>0 DEF CallsOK
  <2>2. atCall'[d] = atCall[d] /\ waiting'[d] = waiting[d]
    BY <1>2, <1>3, <1>4
  <2>3. waiting[d] # None => replies'[waiting[d]] = replies[waiting[d]]
    BY <1>3, <2>1
  <2>. QED BY ONLY d \in Callers, <2>2, <2>3, SameOutcome
<1>5. Outcome(c)' = [actor |-> r.actor, call |-> r.call, applied |-> FALSE, result |-> None]
  <2>1. (IF waiting'[c] = None THEN None ELSE replies'[waiting'[c]]) = None
    BY <1>3
  <2>2. atCall'[c] = r /\ r # None
    BY <1>1, <1>2
  <2>. QED BY <2>1, <2>2 DEF Outcome
<1>. QED BY <1>4, <1>5

LEMMA DispatchOutcome == ASSUME CallsInv, CallsInv', Dispatch PROVE Abstract!Next
<1>1. PICK c \in Callers, a \in Actors, m \in program.kinds :
        /\ atCall[c] = None /\ Send(c, [actor |-> a, kind |-> m, call |-> <<c, nth[c]>>])
        /\ atCall' = [atCall EXCEPT ![c] = [actor |-> a, kind |-> m, call |-> <<c, nth[c]>>]]
        /\ UNCHANGED <<content, got>>
  BY DEF Dispatch, Ready
<1>. DEFINE r == [actor |-> a, kind |-> m, call |-> <<c, nth[c]>>]
<1>2. waiting[c] = None
  BY <1>1 DEF CallsInv, Names
<1>3. r \in Requests /\ r.call[1] = c /\ r.actor = a /\ r.call \in Calls
  BY DEF CallsInv, CallsOK, Requests, Messages, Calls
<1>4. Send(c, r) /\ atCall' = [atCall EXCEPT ![c] = r]
  BY <1>1
<1>. HIDE DEF r
<1>5. /\ \A d \in Callers : d # c => Outcome(d)' = Outcome(d)
      /\ Outcome(c)' = [actor |-> a, call |-> r.call, applied |-> FALSE, result |-> None]
  BY <1>2, <1>3, <1>4, SendOutcome
<1>6. outcomes' = [outcomes EXCEPT ![c] = [actor |-> a, call |-> r.call, applied |-> FALSE,
                                           result |-> None]]
  BY <1>5 DEF outcomes
<1>7. outcomes[c] = None
  BY <1>1, OutcomeFacts DEF outcomes
<1>8. Abstract!Call(c, a, r.call)
  BY <1>1, <1>6, <1>7 DEF Abstract!Call
<1>. QED BY <1>3, <1>8 DEF Abstract!Next

LEMMA RedispatchOutcome == ASSUME CallsInv, CallsInv', Redispatch PROVE UNCHANGED Abstract!vars
<1>1. PICK c \in Callers : /\ atCall[c] # None /\ waiting[c] = None /\ Send(c, atCall[c])
                           /\ UNCHANGED <<content, atCall, got>>
  BY DEF Redispatch
<1>2. atCall[c] \in Requests /\ atCall[c].call[1] = c
  BY <1>1 DEF CallsInv, CallsOK, Names
<1>3. atCall' = [atCall EXCEPT ![c] = atCall[c]]
  BY <1>1 DEF CallsInv, CallsOK
<1>4. /\ \A d \in Callers : d # c => Outcome(d)' = Outcome(d)
      /\ Outcome(c)' = [actor |-> atCall[c].actor, call |-> atCall[c].call, applied |-> FALSE, result |-> None]
  BY <1>1, <1>2, <1>3, SendOutcome
<1>5. Outcome(c) = [actor |-> atCall[c].actor, call |-> atCall[c].call, applied |-> FALSE, result |-> None]
  BY <1>1, OutcomeFacts
<1>. QED BY <1>1, <1>4, <1>5, SameOutcomes

LEMMA ReceiveOutcome == ASSUME CallsInv, CallsInv', Receive PROVE Abstract!Next \/ UNCHANGED Abstract!vars
<1>1. PICK c \in Callers :
        /\ waiting[c] # None
        /\ IF replies[waiting[c]] # None
             THEN /\ got' = [got EXCEPT ![c] = replies[waiting[c]].value]
                  /\ replies' = [replies EXCEPT ![waiting[c]] = None]
                  /\ waiting' = [waiting EXCEPT ![c] = None]
                  /\ atCall' = [atCall EXCEPT ![c] = None]
             ELSE UNCHANGED <<got, replies, waiting, atCall>>
        /\ UNCHANGED content
  BY DEF Receive
<1>2. CASE replies[waiting[c]] = None
  <2>1. \A d \in Callers : Outcome(d)' = Outcome(d)
    BY <1>1, <1>2, SameOutcome
  <2>. QED BY <1>1, <1>2, <2>1, SameOutcomes
<1>3. CASE replies[waiting[c]] # None
  <2>1. waiting[c] \in Calls /\ waiting[c][1] = c /\ CallsOK
    BY <1>1 DEF CallsInv, CallsOK, Names
  <2>2. /\ \A d \in Callers : d # c => atCall'[d] = atCall[d] /\ waiting'[d] = waiting[d]
        /\ \A k \in Calls : k # waiting[c] => replies'[k] = replies[k]
        /\ atCall'[c] = None
    BY <1>1, <1>3, <2>1 DEF CallsOK
  <2>3. ASSUME NEW d \in Callers, d # c PROVE Outcome(d)' = Outcome(d)
    <3>1. waiting[d] # None => waiting[d] \in Calls /\ waiting[d] # waiting[c]
      BY <2>1, <2>3 DEF CallsInv, CallsOK, Names
    <3>. QED BY <2>2, <2>3, <3>1, SameOutcome
  <2>4. Outcome(c)' = None
    BY <2>2 DEF Outcome
  <2>5. Outcome(c) = [actor |-> atCall[c].actor, call |-> atCall[c].call,
                      applied |-> TRUE, result |-> replies[waiting[c]].value]
        /\ Outcome(c) # None
    BY <1>1, <1>3, OutcomeFacts DEF CallsInv, Names
  <2>6. outcomes' = [outcomes EXCEPT ![c] = None]
    BY <2>3, <2>4 DEF outcomes
  <2>7. /\ outcomes[c] # None /\ outcomes[c].applied /\ outcomes[c].result = replies[waiting[c]].value
    BY <2>5 DEF outcomes
  <2>8. Abstract!Return(c)
    BY <1>1, <1>3, <2>6, <2>7 DEF Abstract!Return
  <2>. QED BY <2>8 DEF Abstract!Next
<1>. QED BY <1>2, <1>3

\* A message without a method: nothing came of its call.
LEMMA DiscardOutcome == ASSUME CallsInv, Discard PROVE UNCHANGED Abstract!vars
<1>1. UNCHANGED <<content, got, atCall, waiting, replies>>
  BY DEF Discard, Take
<1>. QED BY <1>1, SameOutcome, SameOutcomes

\* The method that runs and returns is the one point at which its call takes effect.
LEMMA ProcessOutcome == ASSUME CallsInv, CallsInv', Synchronous, Process PROVE Abstract!Next
<1>1. PICK a \in Actors, r \in {Head(inbox[b]) : b \in {b \in Actors : inbox[b] # << >>}} :
        /\ Take(a, r) /\ r.kind # "missing"
        /\ IF hadError THEN Unrun(r) ELSE Method(a, r) \/ Failing(a, r) \/ Cut(a, r)
  BY DEF Process
<1>. DEFINE c == r.call[1]
            k == r.call
<1>2. /\ r \in Requests /\ r.actor = a /\ k \in Calls /\ c \in Callers /\ replies[k] = None
      /\ atCall[c] = r /\ waiting[c] = k /\ CallsOK /\ k[1] = c
  BY <1>1, TakeFacts DEF CallsInv
<1>3. r.kind = "ok" /\ ~hadError
  <2>1. r.kind \in program.kinds
    BY <1>2, RequestFacts
  <2>. QED BY <1>1, <2>1 DEF Synchronous, CallsInv, Calm
<1>4. /\ content' = [content EXCEPT ![a] = k] /\ replies' = [replies EXCEPT ![k] = Reply(content[a])]
      /\ UNCHANGED <<atCall, waiting, got>>
  BY <1>1, <1>3 DEF Method, Failing, Cut, Answer, Take
<1>. HIDE DEF c, k
<1>5. /\ \A l \in Calls : l # k => replies'[l] = replies[l]
      /\ replies'[k] = Reply(content[a]) /\ replies'[k] # None
  <2>1. Reply(content[a]) \in [value : Values]
    BY <1>2 DEF CallsOK, Reply, Values
  <2>2. Reply(content[a]) # None
    BY <2>1, NoneAssumption
  <2>. QED BY <1>2, <1>4, <2>2 DEF CallsOK
<1>6. ASSUME NEW d \in Callers, d # c PROVE Outcome(d)' = Outcome(d)
  <2>0. waiting[d] # None => waiting[d][1] = d
    BY <1>6 DEF CallsInv, Names
  <2>1. waiting[d] # None => waiting[d] \in Calls /\ waiting[d] # k
    BY <1>2, <1>6, <2>0 DEF CallsOK
  <2>2. atCall'[d] = atCall[d] /\ waiting'[d] = waiting[d]
    BY <1>4
  <2>3. waiting[d] # None => replies'[waiting[d]] = replies[waiting[d]]
    BY <1>5, <2>1
  <2>. QED BY ONLY d \in Callers, <2>2, <2>3, SameOutcome
<1>7. atCall[c] # None /\ r # None /\ k # None
  BY <1>2, NoneAssumption, RequestFacts
<1>8. Outcome(c) = [actor |-> a, call |-> k, applied |-> FALSE, result |-> None] /\ Outcome(c) # None
  <2>1. Outcome(c) = [actor |-> atCall[c].actor, call |-> atCall[c].call, applied |-> FALSE, result |-> None]
        /\ Outcome(c) # None
    BY <1>2, <1>7, OutcomeFacts
  <2>2. atCall[c].actor = a /\ atCall[c].call = k
    BY <1>2 DEF k
  <2>. QED BY <2>1, <2>2
<1>9. Outcome(c)' = [actor |-> a, call |-> k, applied |-> TRUE, result |-> content[a]]
  <2>1. (IF waiting'[c] = None THEN None ELSE replies'[waiting'[c]]) = Reply(content[a])
    BY <1>2, <1>4, <1>5, <1>7
  <2>2. Reply(content[a]) # None /\ Reply(content[a]).value = content[a]
    BY <1>5 DEF Reply
  <2>3. atCall'[c] = r /\ r.actor = a /\ r.call = k
    BY <1>2, <1>4 DEF k
  <2>. HIDE DEF Reply
  <2>. QED BY <1>7, <2>1, <2>2, <2>3 DEF Outcome
<1>10. outcomes[c] = [actor |-> a, call |-> k, applied |-> FALSE, result |-> None] /\ outcomes[c] # None
  BY <1>2, <1>8 DEF outcomes
<1>11. outcomes' = [outcomes EXCEPT ![c] = [actor |-> a, call |-> k, applied |-> TRUE, result |-> content[a]]]
  BY <1>6, <1>9 DEF outcomes
<1>12. Abstract!Applied(outcomes[c], content[a])
         = [actor |-> a, call |-> k, applied |-> TRUE, result |-> content[a]]
  BY <1>10 DEF Abstract!Applied
<1>13. outcomes[c].actor = a /\ outcomes[c].call = k /\ ~outcomes[c].applied
  BY <1>10
<1>14. Abstract!Apply(c)
  BY <1>4, <1>10, <1>11, <1>12, <1>13 DEF Abstract!Apply
<1>. QED BY <1>2, <1>14 DEF Abstract!Next

\* In a program whose methods return or do not exist every call takes effect once, as
\* a whole, between its call and its return, and returns what it gave.
THEOREM SyncImplemented == Spec => CallsAreSynchronous
<1>1. ASSUME Init PROVE Synchronous => Abstract!Init
  <2>1. outcomes = [c \in Callers |-> None]
    BY <1>1 DEF Init, outcomes, Outcome
  <2>. QED BY <1>1, <2>1 DEF Init, Abstract!Init
<1>2. ASSUME IInv, IInv', [Next]_vars PROVE [Synchronous => Abstract!Next]_(Abstract!vars)
  <2>. CallsInv /\ CallsInv'
    BY <1>2 DEF IInv
  <2>1. CASE UNCHANGED vars \/ Skip \/ BeginTurn \/ EndPass \/ Wake \/ Spawn \/ Yield \/ End \/ Idle
    <3>1. UNCHANGED <<content, calls>>
      BY <2>1 DEF vars, Skip, BeginTurn, EndPass, Wake, Spawn, Yield, End, Idle
    <3>2. UNCHANGED <<content, got, atCall, waiting, replies>>
      BY <3>1 DEF calls
    <3>. QED BY <3>2, SameOutcome, SameOutcomes
  <2>2. CASE Dispatch
    BY <2>2, DispatchOutcome
  <2>3. CASE Redispatch \/ Receive \/ Discard
    BY <2>3, RedispatchOutcome, ReceiveOutcome, DiscardOutcome
  <2>4. CASE Process
    BY <2>4, ProcessOutcome
  <2>. QED BY <1>2, <2>1, <2>2, <2>3, <2>4 DEF Next, LoopStep, TurnStep
<1>3. Init => (Synchronous => Abstract!Init)
  BY <1>1
<1>4. IInv /\ IInv' /\ [Next]_vars => [Synchronous => Abstract!Next]_(Abstract!vars)
  BY <1>2
<1>. QED BY <1>3, <1>4, SpecInv, PTL DEF Spec, CallsAreSynchronous
=============================================================================

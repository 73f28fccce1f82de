-------------------------- MODULE SchedulerProofs --------------------------
(***************************************************************************)
(* The scheduler of module Scheduler, for every number of Task structs and *)
(* of spawns: SchedulerInv is inductive, and with it the pool of structs   *)
(* is sound, a running task stays in its struct, the program does not end  *)
(* while a task runs, the main script's await gives what it awaited, and   *)
(* tasks get their turns as module Rota says.                              *)
(***************************************************************************)
EXTENDS Scheduler, SequenceTheorems, TLAPS

USE SpawnsAssumption, SleepAssumption, NoneAssumption DEF Handles

LEMMA InitInv == Init => SchedulerInv
<1>. SUFFICES ASSUME Init PROVE SchedulerInv
  OBVIOUS
<1>. PICK m \in Slots :
       /\ tasks = <<m>> /\ freeTasks = << >> /\ heap = {m}
       /\ dead = [s \in Slots |-> FALSE]
       /\ frames = [s \in Slots |-> IF s = m THEN 1 ELSE 0]
       /\ due = [s \in Slots |-> 0]
       /\ result = [s \in Slots |-> Nil]
       /\ awaiting = [s \in Slots |-> None]
       /\ phase = "scan" /\ index = 1 /\ kept = 0 /\ anyAlive = FALSE
       /\ slotOf = [h \in Handles |-> IF h = 0 THEN m ELSE None]
       /\ occupant = [s \in Slots |-> IF s = m THEN 0 ELSE None]
       /\ spawned = 0 /\ ended = {}
       /\ outcome = [h \in Handles |-> Nil]
       /\ fresh = [s \in Slots |-> FALSE]
       /\ lastAwait = None
  BY DEF Init
<1>1. TypeOK
  <2>1. tasks \in Seq(Slots) /\ freeTasks \in Seq(Slots)
    OBVIOUS
  <2>2. /\ dead \in [Slots -> BOOLEAN] /\ frames \in [Slots -> {0, 1}]
        /\ due \in [Slots -> 0 .. MaxSleep] /\ result \in [Slots -> Handles \cup {Nil}]
        /\ awaiting \in [Slots -> Handles \cup {None}] /\ fresh \in [Slots -> BOOLEAN]
    OBVIOUS
  <2>3. /\ slotOf \in [Handles -> Slots \cup {None}]
        /\ occupant \in [Slots -> Handles \cup {None}]
        /\ outcome \in [Handles -> Handles \cup {Nil}]
    OBVIOUS
  <2>4. heap \subseteq Slots /\ spawned \in Handles /\ index \in Nat \ {0} /\ kept \in Nat
    OBVIOUS
  <2>. QED BY <2>1, <2>2, <2>3, <2>4 DEF TypeOK
<1>2. Places = {1} /\ Registered = {m} /\ Free = {} /\ tasks[1] = m /\ Len(tasks) = 1
  <2>1. tasks[1] = m /\ Len(tasks) = 1 /\ Len(freeTasks) = 0
    OBVIOUS
  <2>2. Places = {1}
    BY <2>1 DEF Places
  <2>. QED BY <2>1, <2>2 DEF Registered, Free
<1>3. PoolPartition
  BY <1>2 DEF PoolPartition
<1>4. RunningInPlace
  BY <1>2 DEF RunningInPlace, Running
<1>5. LoopInv
  BY <1>2 DEF LoopInv
<1>6. StructInv
  BY <1>2 DEF StructInv
<1>7. MainInv
  BY <1>2 DEF MainInv, IsMain, Waits
<1>. QED BY <1>1, <1>3, <1>4, <1>5, <1>6, <1>7 DEF SchedulerInv, LastInv

-----------------------------------------------------------------------------
(* The pass: what its steps have in common, then each of them. *)

\* The array and the places that count decide who is registered.
LEMMA SamePlaces ==
  ASSUME tasks' = tasks, freeTasks' = freeTasks, heap' = heap, Places' = Places
  PROVE  /\ Registered' = Registered /\ Free' = Free
         /\ PoolPartition => PoolPartition'
<1>1. Registered' = Registered /\ Free' = Free
  BY DEF Registered, Free
<1>. QED BY <1>1 DEF PoolPartition

\* Outside the reaping loop every place counts.
LEMMA AllPlaces ==
  ASSUME tasks' = tasks, phase # "reap", phase' # "reap"
  PROVE  Places' = Places
BY DEF Places

\* A step of the pass that touches no task keeps what is said of the tasks.
LEMMA LoopMove ==
  ASSUME SchedulerInv, UNCHANGED <<pool, structs, history>>, Places' = Places,
         phase' \in {"scan", "turn", "reap", "halted", "crashed"},
         index' \in Nat \ {0}, kept' \in Nat, anyAlive' \in BOOLEAN
  PROVE  /\ TypeOK' /\ PoolPartition' /\ RunningInPlace' /\ StructInv' /\ LastInv'
         /\ Registered' = Registered
<1>1. /\ tasks' = tasks /\ freeTasks' = freeTasks /\ heap' = heap
      /\ dead' = dead /\ frames' = frames /\ due' = due /\ result' = result
      /\ awaiting' = awaiting
      /\ slotOf' = slotOf /\ occupant' = occupant /\ spawned' = spawned
      /\ ended' = ended /\ outcome' = outcome /\ fresh' = fresh /\ lastAwait' = lastAwait
  BY DEF pool, structs, history
<1>2. Registered' = Registered /\ Free' = Free /\ PoolPartition'
  BY <1>1, SamePlaces DEF SchedulerInv
<1>3. TypeOK'
  BY <1>1 DEF SchedulerInv, TypeOK
<1>4. RunningInPlace'
  BY <1>1, <1>2 DEF SchedulerInv, RunningInPlace, Running
<1>5. StructInv'
  BY <1>1, <1>2 DEF SchedulerInv, StructInv
<1>6. LastInv'
  BY <1>1 DEF SchedulerInv, LastInv
<1>. QED BY <1>2, <1>3, <1>4, <1>5, <1>6

\* What the main script waits for is kept by a step that touches no task, as
\* long as the pass does not come back to the main script.
LEMMA LoopMoveMain ==
  ASSUME SchedulerInv, UNCHANGED <<pool, structs, history>>, Places' = Places,
         Registered' = Registered,
         phase' = "reap" \/ index' = 1 \/
           (phase # "reap" /\ (index = 1 => \A s \in Slots : IsMain(s) /\ Waits(s) => FALSE))
  PROVE  MainInv'
<1>1. /\ tasks' = tasks /\ dead' = dead /\ due' = due /\ awaiting' = awaiting
      /\ slotOf' = slotOf /\ occupant' = occupant /\ fresh' = fresh
  BY DEF pool, structs, history
<1>. SUFFICES ASSUME NEW s \in Slots, IsMain(s)
              PROVE  /\ 1 \in Places /\ tasks[1] = s
                     /\ Waits(s) => /\ due[s] = 0
                                    /\ occupant[slotOf[awaiting[s]]] = awaiting[s]
                                    /\ \/ slotOf[awaiting[s]] \in Registered
                                       \/ phase' = "reap" \/ index' = 1
  BY <1>1 DEF MainInv, IsMain, Waits
<1>. QED BY <1>1 DEF SchedulerInv, MainInv

LEMMA SkipInv == SchedulerInv /\ Skip => SchedulerInv'
<1>. SUFFICES ASSUME SchedulerInv, Skip PROVE SchedulerInv'
  OBVIOUS
<1>1. /\ UNCHANGED <<pool, structs, history>>
      /\ tasks' = tasks /\ dead' = dead /\ phase = "scan" /\ phase' = "scan"
      /\ index' = index + 1 /\ index <= Len(tasks) /\ kept' = kept
      /\ dead[tasks[index]] \/ due[tasks[index]] > 0
      /\ anyAlive' = (anyAlive \/ ~dead[tasks[index]])
  BY DEF Skip, Advance, Visited, pool, structs
<1>t. TypeOK
  BY DEF SchedulerInv
<1>2. Places' = Places
  BY <1>1, AllPlaces
<1>3. /\ TypeOK' /\ PoolPartition' /\ RunningInPlace' /\ StructInv' /\ LastInv'
      /\ Registered' = Registered
  <2>1. index' \in Nat \ {0} /\ kept' \in Nat /\ anyAlive' \in BOOLEAN
    BY <1>1, <1>t DEF TypeOK
  <2>. QED BY <2>1, <1>1, <1>2, LoopMove
<1>4. LoopInv'
  <2>1. ASSUME ~anyAlive', NEW i \in 1 .. index' - 1
        PROVE  dead'[tasks'[i]]
    <3>1. ~anyAlive /\ dead[tasks[index]]
      BY <1>1, <2>1
    <3>2. i \in 1 .. index - 1 \/ i = index
      BY <1>1, <1>t DEF TypeOK
    <3>. QED BY <3>1, <3>2, <1>1 DEF SchedulerInv, LoopInv
  <2>. QED BY <1>1, <2>1, <1>t DEF TypeOK, LoopInv
<1>5. MainInv'
  <2>1. index = 1 => \A s \in Slots : IsMain(s) /\ Waits(s) => FALSE
    BY <1>1 DEF SchedulerInv, MainInv, IsMain
  <2>. QED BY <2>1, <1>1, <1>2, <1>3, LoopMoveMain
<1>. QED BY <1>3, <1>4, <1>5 DEF SchedulerInv

LEMMA BeginTurnInv == SchedulerInv /\ BeginTurn => SchedulerInv'
<1>. SUFFICES ASSUME SchedulerInv, BeginTurn PROVE SchedulerInv'
  OBVIOUS
<1>1. /\ UNCHANGED <<pool, structs, history>>
      /\ tasks' = tasks /\ dead' = dead /\ frames' = frames
      /\ phase = "scan" /\ phase' = "turn" /\ anyAlive' = TRUE
      /\ index' = index /\ index <= Len(tasks) /\ kept' = kept
      /\ ~dead[tasks[index]] /\ frames[tasks[index]] > 0
      /\ due' = due /\ due[tasks[index]] = 0
  BY DEF BeginTurn, Visited, pool, structs
<1>t. TypeOK
  BY DEF SchedulerInv
<1>2. Places' = Places
  BY <1>1, AllPlaces
<1>3. /\ TypeOK' /\ PoolPartition' /\ RunningInPlace' /\ StructInv' /\ LastInv'
      /\ Registered' = Registered
  <2>1. index' \in Nat \ {0} /\ kept' \in Nat /\ anyAlive' \in BOOLEAN
    BY <1>1, <1>t DEF TypeOK
  <2>. QED BY <2>1, <1>1, <1>2, LoopMove
<1>4. LoopInv'
  <2>1. tasks[index] \in Slots
    BY <1>1, <1>t, ElementOfSeq DEF TypeOK
  <2>2. frames[tasks[index]] = 1
    BY <2>1, <1>1, <1>t DEF TypeOK
  <2>. QED BY <2>2, <1>1 DEF LoopInv, Visited
<1>5. MainInv'
  <2>1. index = 1 => index' = 1
    BY <1>1
  <2>. QED BY <2>1, <1>1, <1>2, <1>3, LoopMoveMain
<1>. QED BY <1>3, <1>4, <1>5 DEF SchedulerInv

LEMMA CrashInv == SchedulerInv /\ Crash => SchedulerInv'
<1>. SUFFICES ASSUME SchedulerInv, Crash PROVE SchedulerInv'
  OBVIOUS
<1>1. /\ UNCHANGED <<pool, structs, history>>
      /\ tasks' = tasks /\ phase = "scan" /\ phase' = "crashed" /\ anyAlive' = anyAlive
      /\ index' = index /\ kept' = kept
  BY DEF Crash, pool
<1>2. Places' = Places
  BY <1>1, AllPlaces
<1>3. /\ TypeOK' /\ PoolPartition' /\ RunningInPlace' /\ StructInv' /\ LastInv'
      /\ Registered' = Registered
  <2>1. index' \in Nat \ {0} /\ kept' \in Nat /\ anyAlive' \in BOOLEAN
    BY <1>1 DEF SchedulerInv, TypeOK
  <2>. QED BY <2>1, <1>1, <1>2, LoopMove
<1>4. LoopInv'
  BY <1>1 DEF LoopInv
<1>5. MainInv'
  <2>1. index = 1 => index' = 1
    BY <1>1
  <2>. QED BY <2>1, <1>1, <1>2, <1>3, LoopMoveMain
<1>. QED BY <1>3, <1>4, <1>5 DEF SchedulerInv

LEMMA EndPassInv == SchedulerInv /\ EndPass => SchedulerInv'
<1>. SUFFICES ASSUME SchedulerInv, EndPass PROVE SchedulerInv'
  OBVIOUS
<1>1. /\ UNCHANGED <<pool, structs, history>>
      /\ tasks' = tasks /\ dead' = dead /\ phase = "scan" /\ phase' = "reap"
      /\ anyAlive' = anyAlive /\ index > Len(tasks) /\ index' = 1 /\ kept' = 0
  BY DEF EndPass, pool, structs
<1>t. TypeOK
  BY DEF SchedulerInv
<1>2. Places' = Places
  <2>1. Places = 1 .. Len(tasks)
    BY <1>1 DEF Places
  <2>2. Places' = (1 .. 0) \cup (1 .. Len(tasks))
    BY <1>1 DEF Places
  <2>. QED BY <2>1, <2>2
<1>3. /\ TypeOK' /\ PoolPartition' /\ RunningInPlace' /\ StructInv' /\ LastInv'
      /\ Registered' = Registered
  <2>1. index' \in Nat \ {0} /\ kept' \in Nat /\ anyAlive' \in BOOLEAN
    BY <1>1, <1>t DEF TypeOK
  <2>. QED BY <2>1, <1>1, <1>2, LoopMove
<1>4. LoopInv'
  <2>1. ASSUME ~anyAlive', NEW i \in Places'
        PROVE  dead'[tasks'[i]]
    <3>1. i \in 1 .. index - 1
      BY <1>1, <1>2, <1>t DEF Places, TypeOK
    <3>. QED BY <3>1, <2>1, <1>1 DEF SchedulerInv, LoopInv
  <2>2. Len(tasks) \in Nat
    BY <1>t DEF TypeOK
  <2>. QED BY <1>1, <2>1, <2>2 DEF LoopInv
<1>5. MainInv'
  BY <1>1, <1>2, <1>3, LoopMoveMain
<1>. QED BY <1>3, <1>4, <1>5 DEF SchedulerInv

\* Reaping a dead task moves its struct from the registered to the free ones.
LEMMA ReapDeadInv ==
  ASSUME SchedulerInv, Reap, dead[Visited]
  PROVE  SchedulerInv'
<1>. DEFINE v == tasks[index]
<1>1. /\ tasks' = tasks /\ heap' = heap /\ freeTasks' = <<v>> \o freeTasks
      /\ dead' = dead /\ frames' = frames /\ due' = due /\ result' = result
      /\ awaiting' = awaiting /\ kept' = kept /\ anyAlive' = anyAlive
      /\ slotOf' = slotOf /\ occupant' = occupant /\ spawned' = spawned
      /\ ended' = ended /\ outcome' = outcome /\ fresh' = fresh /\ lastAwait' = lastAwait
      /\ phase = "reap" /\ phase' = "reap"
      /\ index' = index + 1 /\ index <= Len(tasks) /\ dead[v]
  BY DEF Reap, Visited, structs, history
<1>t. TypeOK
  BY DEF SchedulerInv
<1>l. /\ kept < index /\ kept \in Nat /\ index \in Nat /\ index > 0 /\ Len(tasks) \in Nat
      /\ \A i \in 1 .. kept : ~dead[tasks[i]]
      /\ ~anyAlive => \A i \in Places : dead[tasks[i]]
  BY <1>1, <1>t DEF TypeOK, SchedulerInv, LoopInv
<1>v. v \in Slots
  BY <1>1, <1>t, <1>l, ElementOfSeq DEF TypeOK
<1>2. /\ Places = (1 .. kept) \cup (index .. Len(tasks))
      /\ Places' = (1 .. kept) \cup (index + 1 .. Len(tasks))
      /\ index \in Places
  BY <1>1, <1>l DEF Places
<1>3. Places' = Places \ {index}
  BY <1>2, <1>l
<1>4. Registered' = Registered \ {v}
  <2>1. \A i \in Places : i # index => tasks[i] # v
    BY <1>2 DEF SchedulerInv, PoolPartition
  <2>. QED BY <2>1, <1>1, <1>2, <1>3 DEF Registered
<1>5. /\ Len(freeTasks') = Len(freeTasks) + 1 /\ Len(freeTasks) \in Nat
      /\ freeTasks'[1] = v
      /\ \A i \in 1 .. Len(freeTasks) : freeTasks'[i + 1] = freeTasks[i]
      /\ freeTasks' \in Seq(Slots)
  BY <1>1, <1>t, <1>v DEF TypeOK
<1>6. Free' = Free \cup {v}
  <2>1. ASSUME NEW i \in 1 .. Len(freeTasks')
        PROVE  freeTasks'[i] \in Free \cup {v}
    <3>1. i = 1 \/ (i - 1 \in 1 .. Len(freeTasks) /\ i = (i - 1) + 1)
      BY <1>5
    <3>2. CASE i = 1
      BY <3>2, <1>5
    <3>3. CASE i # 1
      <4>1. freeTasks'[i] = freeTasks[i - 1]
        BY <3>1, <3>3, <1>5
      <4>. QED BY <3>1, <3>3, <4>1 DEF Free
    <3>. QED BY <3>2, <3>3
  <2>2. ASSUME NEW i \in 1 .. Len(freeTasks)
        PROVE  freeTasks[i] \in Free'
    <3>1. i + 1 \in 1 .. Len(freeTasks')
      BY <1>5
    <3>. QED BY <3>1, <1>5 DEF Free
  <2>3. v \in Free'
    <3>1. 1 \in 1 .. Len(freeTasks')
      BY <1>5
    <3>. QED BY <3>1, <1>5 DEF Free
  <2>. QED BY <2>1, <2>2, <2>3 DEF Free
<1>7. v \in Registered /\ v \notin Free
  BY <1>2 DEF Registered, SchedulerInv, PoolPartition
<1>8. PoolPartition'
  <2>1. \A i, j \in Places' : tasks'[i] = tasks'[j] => i = j
    BY <1>1, <1>3 DEF SchedulerInv, PoolPartition
  <2>2. ASSUME NEW i \in 1 .. Len(freeTasks'), NEW j \in 1 .. Len(freeTasks'),
               freeTasks'[i] = freeTasks'[j]
        PROVE  i = j
    <3>1. i = 1 \/ (i - 1 \in 1 .. Len(freeTasks) /\ freeTasks'[i] = freeTasks[i - 1])
      BY <1>5
    <3>2. j = 1 \/ (j - 1 \in 1 .. Len(freeTasks) /\ freeTasks'[j] = freeTasks[j - 1])
      BY <1>5
    <3>3. \A k \in 1 .. Len(freeTasks) : freeTasks[k] # v
      BY <1>7 DEF Free
    <3>4. CASE i = 1 \/ j = 1
      BY <3>1, <3>2, <3>3, <3>4, <2>2, <1>5
    <3>5. CASE i # 1 /\ j # 1
      <4>1. i - 1 = j - 1
        BY <3>1, <3>2, <3>5, <2>2 DEF SchedulerInv, PoolPartition
      <4>. QED BY <4>1
    <3>. QED BY <3>4, <3>5
  <2>3. Registered' \cap Free' = {} /\ Registered' \cup Free' = heap'
    BY <1>1, <1>4, <1>6, <1>7 DEF SchedulerInv, PoolPartition
  <2>. QED BY <2>1, <2>2, <2>3 DEF PoolPartition
<1>9. TypeOK'
  <2>1. index' \in Nat \ {0}
    BY <1>1, <1>l
  <2>. QED BY <2>1, <1>1, <1>5, <1>t DEF TypeOK
<1>10. RunningInPlace'
  BY <1>1, <1>4 DEF SchedulerInv, RunningInPlace, Running
<1>11. LoopInv'
  <2>1. index' <= Len(tasks') + 1 /\ kept' < index'
    BY <1>1, <1>l
  <2>. QED BY <2>1, <1>1, <1>3, <1>l DEF LoopInv
<1>12. StructInv'
  BY <1>1, <1>6 DEF SchedulerInv, StructInv
<1>13. MainInv'
  <2>. SUFFICES ASSUME NEW s \in Slots, IsMain(s)'
                PROVE  /\ 1 \in Places' /\ tasks'[1] = s
                       /\ Waits(s)' => /\ due'[s] = 0
                                       /\ occupant'[slotOf'[awaiting'[s]]] = awaiting'[s]
    BY <1>1 DEF MainInv, Waits
  <2>1. IsMain(s)
    BY <1>1, <1>4 DEF IsMain
  <2>2. 1 \in Places /\ tasks[1] = s /\ s # v
    BY <2>1, <1>1 DEF SchedulerInv, MainInv, IsMain
  <2>3. 1 \in Places'
    BY <2>2, <1>3
  <2>. QED BY <2>1, <2>2, <2>3, <1>1 DEF SchedulerInv, MainInv, Waits
<1>14. LastInv'
  BY <1>1 DEF SchedulerInv, LastInv
<1>. QED BY <1>8, <1>9, <1>10, <1>11, <1>12, <1>13, <1>14 DEF SchedulerInv

\* Reaping passes over a live task: it moves down to the first place not kept.
LEMMA ReapLiveInv ==
  ASSUME SchedulerInv, Reap, ~dead[Visited]
  PROVE  SchedulerInv'
<1>. DEFINE v == tasks[index]
<1>1. /\ tasks' = [tasks EXCEPT ![kept + 1] = v] /\ heap' = heap /\ freeTasks' = freeTasks
      /\ dead' = dead /\ frames' = frames /\ due' = due /\ result' = result
      /\ awaiting' = awaiting /\ kept' = kept + 1 /\ anyAlive' = anyAlive
      /\ slotOf' = slotOf /\ occupant' = occupant /\ spawned' = spawned
      /\ ended' = ended /\ outcome' = outcome /\ fresh' = fresh /\ lastAwait' = lastAwait
      /\ phase = "reap" /\ phase' = "reap"
      /\ index' = index + 1 /\ index <= Len(tasks) /\ ~dead[v]
  BY DEF Reap, Visited, structs, history
<1>t. TypeOK
  BY DEF SchedulerInv
<1>l. /\ kept < index /\ kept \in Nat /\ index \in Nat /\ index > 0 /\ Len(tasks) \in Nat
      /\ \A i \in 1 .. kept : ~dead[tasks[i]]
      /\ ~anyAlive => \A i \in Places : dead[tasks[i]]
  BY <1>1, <1>t DEF TypeOK, SchedulerInv, LoopInv
<1>v. v \in Slots
  BY <1>1, <1>t, <1>l, ElementOfSeq DEF TypeOK
<1>p. kept + 1 \in 1 .. Len(tasks)
  BY <1>1, <1>l
<1>2. /\ tasks' \in Seq(Slots) /\ Len(tasks') = Len(tasks)
      /\ tasks'[kept + 1] = v
      /\ \A i \in 1 .. Len(tasks) : i # kept + 1 => tasks'[i] = tasks[i]
  BY <1>1, <1>t, <1>v, <1>p, ExceptSeq DEF TypeOK
<1>3. /\ Places = (1 .. kept) \cup (index .. Len(tasks))
      /\ Places' = (1 .. kept + 1) \cup (index + 1 .. Len(tasks))
      /\ index \in Places
  BY <1>1, <1>2, <1>l DEF Places
<1>4. \A i \in Places' : /\ i = kept + 1 => tasks'[i] = tasks[index]
                         /\ i # kept + 1 => /\ tasks'[i] = tasks[i]
                                            /\ i \in Places /\ i # index
  BY <1>2, <1>3, <1>l, <1>1
<1>5. Registered' = Registered
  <2>1. Registered' \subseteq Registered
    BY <1>4, <1>3 DEF Registered
  <2>2. ASSUME NEW i \in Places
        PROVE  tasks[i] \in Registered'
    <3>1. CASE i = index
      <4>1. kept + 1 \in Places'
        BY <1>3, <1>l
      <4>. QED BY <4>1, <3>1, <1>2 DEF Registered
    <3>2. CASE i # index
      <4>1. i \in Places' /\ i # kept + 1 /\ i \in 1 .. Len(tasks)
        BY <3>2, <1>3, <1>l, <1>1
      <4>. QED BY <4>1, <1>2 DEF Registered
    <3>. QED BY <3>1, <3>2
  <2>. QED BY <2>1, <2>2 DEF Registered
<1>6. Free' = Free
  BY <1>1 DEF Free
<1>7. PoolPartition'
  <2>1. \A i, j \in Places' : tasks'[i] = tasks'[j] => i = j
    BY <1>4, <1>3 DEF SchedulerInv, PoolPartition
  <2>. QED BY <2>1, <1>1, <1>5, <1>6 DEF SchedulerInv, PoolPartition
<1>8. TypeOK'
  <2>1. index' \in Nat \ {0} /\ kept' \in Nat
    BY <1>1, <1>l
  <2>. QED BY <2>1, <1>1, <1>2, <1>t DEF TypeOK
<1>9. RunningInPlace'
  BY <1>1, <1>5 DEF SchedulerInv, RunningInPlace, Running
<1>10. LoopInv'
  <2>1. index' <= Len(tasks') + 1 /\ kept' < index'
    BY <1>1, <1>2, <1>l
  <2>2. anyAlive
    BY <1>l, <1>3, <1>1
  <2>3. \A i \in 1 .. kept' : ~dead'[tasks'[i]]
    <3>. SUFFICES ASSUME NEW i \in 1 .. kept + 1 PROVE ~dead[tasks'[i]]
      BY <1>1
    <3>1. CASE i = kept + 1
      BY <3>1, <1>1, <1>2
    <3>2. CASE i # kept + 1
      <4>1. i \in 1 .. kept /\ i \in 1 .. Len(tasks)
        BY <3>2, <1>l, <1>p
      <4>. QED BY <4>1, <3>2, <1>2, <1>l
    <3>. QED BY <3>1, <3>2
  <2>. QED BY <2>1, <2>2, <2>3, <1>1 DEF LoopInv
<1>11. StructInv'
  BY <1>1, <1>6 DEF SchedulerInv, StructInv
<1>12. MainInv'
  <2>. SUFFICES ASSUME NEW s \in Slots, IsMain(s)
                PROVE  /\ 1 \in Places' /\ tasks'[1] = s
                       /\ Waits(s) => /\ due[s] = 0
                                      /\ occupant[slotOf[awaiting[s]]] = awaiting[s]
    BY <1>1, <1>5 DEF MainInv, Waits, IsMain
  <2>1. 1 \in Places /\ tasks[1] = s
    BY DEF SchedulerInv, MainInv
  <2>2. 1 \in Places'
    BY <1>3, <1>l
  <2>3. tasks'[1] = s
    <3>1. CASE kept = 0
      <4>1. index = 1
        BY <3>1, <2>1, <1>3, <1>l
      <4>. QED BY <4>1, <3>1, <2>1, <1>2
    <3>2. CASE kept # 0
      <4>1. 1 # kept + 1 /\ 1 \in 1 .. Len(tasks)
        BY <3>2, <1>l, <1>p
      <4>. QED BY <4>1, <2>1, <1>2
    <3>. QED BY <3>1, <3>2
  <2>. QED BY <2>2, <2>3 DEF SchedulerInv, MainInv
<1>13. LastInv'
  BY <1>1 DEF SchedulerInv, LastInv
<1>. QED BY <1>7, <1>8, <1>9, <1>10, <1>11, <1>12, <1>13 DEF SchedulerInv

LEMMA EndReapInv == SchedulerInv /\ EndReap => SchedulerInv'
<1>. SUFFICES ASSUME SchedulerInv, EndReap PROVE SchedulerInv'
  OBVIOUS
<1>1. /\ tasks' = SubSeq(tasks, 1, kept) /\ heap' = heap /\ freeTasks' = freeTasks
      /\ dead' = dead /\ frames' = frames /\ due' = due /\ result' = result
      /\ awaiting' = awaiting /\ kept' = 0 /\ anyAlive' = FALSE
      /\ slotOf' = slotOf /\ occupant' = occupant /\ spawned' = spawned
      /\ ended' = ended /\ outcome' = outcome /\ fresh' = fresh /\ lastAwait' = lastAwait
      /\ phase = "reap" /\ phase' = (IF anyAlive THEN "scan" ELSE "halted")
      /\ index' = 1 /\ index > Len(tasks)
  BY DEF EndReap, structs, history
<1>t. TypeOK
  BY DEF SchedulerInv
<1>l. /\ kept < index /\ kept \in Nat /\ index \in Nat /\ Len(tasks) \in Nat
      /\ index <= Len(tasks) + 1 /\ kept <= Len(tasks)
      /\ \A i \in 1 .. kept : ~dead[tasks[i]]
      /\ ~anyAlive => \A i \in Places : dead[tasks[i]]
  BY <1>1, <1>t DEF TypeOK, SchedulerInv, LoopInv
<1>2. /\ tasks' \in Seq(Slots) /\ Len(tasks') = kept
      /\ \A i \in 1 .. kept : tasks'[i] = tasks[i]
  BY <1>1, <1>t, <1>l DEF TypeOK
<1>3. Places = 1 .. kept
  BY <1>1, <1>l DEF Places
<1>4. Places' = 1 .. kept
  BY <1>1, <1>2 DEF Places
<1>5. Registered' = Registered /\ Free' = Free
  BY <1>1, <1>2, <1>3, <1>4 DEF Registered, Free
<1>6. PoolPartition'
  BY <1>1, <1>2, <1>3, <1>4, <1>5 DEF SchedulerInv, PoolPartition
<1>7. TypeOK'
  <2>1. phase' \in {"scan", "turn", "reap", "halted", "crashed"}
    BY <1>1, Zenon
  <2>2. tasks' \in Seq(Slots)
    BY <1>2
  <2>3. index' \in Nat \ {0} /\ kept' \in Nat
    BY <1>1
  <2>4. anyAlive' \in BOOLEAN
    BY <1>1
  <2>. QED BY <2>1, <2>2, <2>3, <2>4, <1>1, <1>t DEF TypeOK
<1>8. RunningInPlace'
  BY <1>1, <1>5 DEF SchedulerInv, RunningInPlace, Running
<1>9. LoopInv'
  <2>1. CASE anyAlive
    BY <2>1, <1>1, <1>2, <1>l DEF LoopInv
  <2>2. CASE ~anyAlive
    <3>1. kept = 0
      <4>. SUFFICES ASSUME kept # 0 PROVE FALSE
        OBVIOUS
      <4>1. 1 \in 1 .. kept
        BY <1>l
      <4>. QED BY <4>1, <2>2, <1>3, <1>l
    <3>2. tasks' = << >>
      BY <3>1, <1>2, EmptySeq
    <3>. QED BY <3>2, <2>2, <1>1 DEF LoopInv
  <2>. QED BY <2>1, <2>2
<1>10. StructInv'
  BY <1>1, <1>5 DEF SchedulerInv, StructInv
<1>11. MainInv'
  BY <1>1, <1>2, <1>3, <1>4, <1>5 DEF SchedulerInv, MainInv, Waits, IsMain
<1>12. LastInv'
  BY <1>1 DEF SchedulerInv, LastInv
<1>. QED BY <1>6, <1>7, <1>8, <1>9, <1>10, <1>11, <1>12 DEF SchedulerInv

-----------------------------------------------------------------------------
(* The turn of a task, and the clock. *)

\* The clock only brings the wakeup times nearer.
LEMMA TickInv == SchedulerInv /\ Tick => SchedulerInv'
<1>. SUFFICES ASSUME SchedulerInv, Tick PROVE SchedulerInv'
  OBVIOUS
<1>1. /\ tasks' = tasks /\ freeTasks' = freeTasks /\ heap' = heap
      /\ dead' = dead /\ frames' = frames /\ result' = result /\ awaiting' = awaiting
      /\ phase' = phase /\ index' = index /\ kept' = kept /\ anyAlive' = anyAlive
      /\ slotOf' = slotOf /\ occupant' = occupant /\ spawned' = spawned
      /\ ended' = ended /\ outcome' = outcome /\ fresh' = fresh /\ lastAwait' = lastAwait
      /\ due' = [s \in Slots |-> IF due[s] > 0 THEN due[s] - 1 ELSE 0]
  BY DEF Tick, pool, loop, history
<1>t. TypeOK
  BY DEF SchedulerInv
<1>2. Places' = Places
  BY <1>1 DEF Places
<1>3. Registered' = Registered /\ Free' = Free /\ PoolPartition'
  BY <1>1, <1>2, SamePlaces DEF SchedulerInv
<1>4. due' \in [Slots -> 0 .. MaxSleep] /\ \A s \in Slots : due[s] = 0 => due'[s] = 0
  BY <1>1, <1>t DEF TypeOK
<1>5. TypeOK'
  BY <1>1, <1>4, <1>t DEF TypeOK
<1>6. RunningInPlace'
  BY <1>1, <1>3 DEF SchedulerInv, RunningInPlace, Running
<1>7. LoopInv'
  <2>1. phase = "turn" => tasks[index] \in Slots
    BY <1>t, ElementOfSeq DEF TypeOK, SchedulerInv, LoopInv
  <2>. QED BY <2>1, <1>1, <1>2, <1>4 DEF SchedulerInv, LoopInv, Visited
<1>8. StructInv'
  BY <1>1, <1>3 DEF SchedulerInv, StructInv
<1>9. MainInv'
  BY <1>1, <1>2, <1>3, <1>4 DEF SchedulerInv, MainInv, IsMain, Waits
<1>10. LastInv'
  BY <1>1 DEF SchedulerInv, LastInv
<1>. QED BY <1>3, <1>5, <1>6, <1>7, <1>8, <1>9, <1>10 DEF SchedulerInv

\* What is known of the task whose turn it is.
LEMMA TurnFacts ==
  ASSUME SchedulerInv, phase = "turn"
  PROVE  /\ Visited \in Slots /\ Visited \in heap /\ Visited \in Registered
         /\ index \in Places /\ index <= Len(tasks) /\ index \in Nat /\ index > 0
         /\ Len(tasks) \in Nat /\ Places = 1 .. Len(tasks) /\ Visited = tasks[index]
         /\ ~dead[Visited] /\ frames[Visited] = 1 /\ due[Visited] = 0 /\ anyAlive
         /\ result[Visited] = Nil
         /\ occupant[Visited] \in Handles /\ occupant[Visited] <= spawned
         /\ occupant[Visited] \notin ended
         /\ slotOf[occupant[Visited]] = Visited /\ outcome[occupant[Visited]] = Nil
<1>t. TypeOK
  BY DEF SchedulerInv
<1>1. /\ index <= Len(tasks) /\ index \in Nat /\ index > 0 /\ Len(tasks) \in Nat
      /\ ~dead[Visited] /\ frames[Visited] = 1 /\ due[Visited] = 0 /\ anyAlive
  BY <1>t DEF SchedulerInv, LoopInv, TypeOK
<1>2. Places = 1 .. Len(tasks) /\ Visited = tasks[index] /\ index \in Places
  BY <1>1 DEF Places, Visited
<1>3. Visited \in Slots
  BY <1>1, <1>2, <1>t, ElementOfSeq DEF TypeOK
<1>4. Visited \in Registered /\ Visited \in heap
  BY <1>2 DEF Registered, SchedulerInv, PoolPartition
<1>5. occupant[Visited] \in 0 .. spawned /\ spawned \in Nat /\ spawned <= MaxSpawns
  BY <1>4, <1>t DEF SchedulerInv, StructInv, TypeOK
<1>6. /\ result[Visited] = Nil /\ occupant[Visited] \notin ended
      /\ slotOf[occupant[Visited]] = Visited /\ outcome[occupant[Visited]] = Nil
  BY <1>1, <1>4 DEF SchedulerInv, StructInv
<1>. QED BY <1>1, <1>2, <1>3, <1>4, <1>5, <1>6

\* When a turn that is not the main script's ends, the main script's wait is as
\* it was: the main script is not first in the rest of the pass.
LEMMA MainElsewhere ==
  ASSUME SchedulerInv, phase = "turn", NEW m \in Slots, IsMain(m), m # Visited
  PROVE  /\ tasks[1] = m /\ 1 \in Places /\ index # 1
         /\ Waits(m) => /\ due[m] = 0
                        /\ occupant[slotOf[awaiting[m]]] = awaiting[m]
                        /\ slotOf[awaiting[m]] \in Registered
<1>1. tasks[1] = m /\ 1 \in Places
  BY DEF SchedulerInv, MainInv
<1>2. index # 1
  BY <1>1 DEF Visited
<1>. QED BY <1>1, <1>2 DEF SchedulerInv, MainInv

LEMMA SleepInv == SchedulerInv /\ Sleep => SchedulerInv'
<1>. SUFFICES ASSUME SchedulerInv, Sleep PROVE SchedulerInv'
  OBVIOUS
<1>. DEFINE s == Visited
<1>0. PICK d \in 0 .. MaxSleep : due' = [due EXCEPT ![s] = d]
  BY DEF Sleep, Ready
<1>1. /\ tasks' = tasks /\ freeTasks' = freeTasks /\ heap' = heap
      /\ dead' = dead /\ frames' = frames /\ result' = result /\ awaiting' = awaiting
      /\ kept' = kept /\ anyAlive' = anyAlive
      /\ slotOf' = slotOf /\ occupant' = occupant /\ spawned' = spawned
      /\ ended' = ended /\ outcome' = outcome /\ fresh' = fresh /\ lastAwait' = lastAwait
      /\ phase = "turn" /\ phase' = "scan" /\ index' = index + 1 /\ awaiting[s] = None
  BY DEF Sleep, Ready, Advance, pool, history
<1>t. TypeOK
  BY DEF SchedulerInv
<1>2. Registered' = Registered /\ Free' = Free /\ PoolPartition' /\ Places' = Places
  BY <1>1, AllPlaces, SamePlaces DEF SchedulerInv
<1>3. /\ s \in Slots /\ index <= Len(tasks) /\ index \in Nat /\ Len(tasks) \in Nat
      /\ anyAlive
  BY <1>1, TurnFacts
<1>4. due' \in [Slots -> 0 .. MaxSleep] /\ \A r \in Slots : r # s => due'[r] = due[r]
  BY <1>0, <1>3, <1>t DEF TypeOK
<1>5. TypeOK'
  <2>1. index' \in Nat \ {0}
    BY <1>1, <1>3
  <2>. QED BY <2>1, <1>1, <1>4, <1>t DEF TypeOK
<1>6. RunningInPlace'
  BY <1>1, <1>2 DEF SchedulerInv, RunningInPlace, Running
<1>7. LoopInv'
  BY <1>1, <1>3 DEF LoopInv
<1>8. StructInv'
  BY <1>1, <1>2 DEF SchedulerInv, StructInv
<1>9. MainInv'
  <2>. SUFFICES ASSUME NEW m \in Slots, IsMain(m)
                PROVE  /\ 1 \in Places /\ tasks[1] = m
                       /\ Waits(m) => /\ due'[m] = 0
                                      /\ occupant[slotOf[awaiting[m]]] = awaiting[m]
                                      /\ slotOf[awaiting[m]] \in Registered
    BY <1>1, <1>2 DEF MainInv, IsMain, Waits
  <2>1. CASE m = s
    BY <2>1, <1>1 DEF SchedulerInv, MainInv, Waits
  <2>2. CASE m # s
    BY <2>2, <1>1, <1>4, MainElsewhere
  <2>. QED BY <2>1, <2>2
<1>10. LastInv'
  BY <1>1 DEF SchedulerInv, LastInv
<1>. QED BY <1>2, <1>5, <1>6, <1>7, <1>8, <1>9, <1>10 DEF SchedulerInv

\* The end of a task: what its struct and its handle say agrees.
LEMMA DieInv ==
  ASSUME SchedulerInv, phase = "turn", NEW r \in Handles \cup {Nil},
         Die(Visited, r, r),
         frames' = frames \/ frames' = [frames EXCEPT ![Visited] = 0]
  PROVE  SchedulerInv'
<1>. DEFINE s == Visited
            h == occupant[s]
<1>1. /\ tasks' = tasks /\ freeTasks' = freeTasks /\ heap' = heap
      /\ dead' = [dead EXCEPT ![s] = TRUE] /\ result' = [result EXCEPT ![s] = r]
      /\ ended' = ended \cup {h} /\ outcome' = [outcome EXCEPT ![h] = r]
      /\ due' = due /\ awaiting' = awaiting
      /\ kept' = kept /\ anyAlive' = anyAlive
      /\ slotOf' = slotOf /\ occupant' = occupant /\ spawned' = spawned
      /\ fresh' = fresh /\ lastAwait' = lastAwait
      /\ phase' = "scan" /\ index' = index + 1
  BY DEF Die, Advance, pool
<1>t. TypeOK
  BY DEF SchedulerInv
<1>2. Registered' = Registered /\ Free' = Free /\ PoolPartition' /\ Places' = Places
  BY <1>1, AllPlaces, SamePlaces DEF SchedulerInv
<1>3. /\ s \in Slots /\ s \in heap /\ index <= Len(tasks) /\ index \in Nat
      /\ Len(tasks) \in Nat /\ anyAlive /\ h \in Handles /\ h <= spawned /\ h \notin ended
      /\ slotOf[h] = s
  BY TurnFacts
<1>4. /\ dead' \in [Slots -> BOOLEAN] /\ dead'[s] /\ \A p \in Slots : p # s => dead'[p] = dead[p]
      /\ result' \in [Slots -> Handles \cup {Nil}] /\ result'[s] = r
      /\ \A p \in Slots : p # s => result'[p] = result[p]
      /\ outcome' \in [Handles -> Handles \cup {Nil}] /\ outcome'[h] = r
      /\ \A g \in Handles : g # h => outcome'[g] = outcome[g]
  BY <1>1, <1>3, <1>t DEF TypeOK
<1>5. frames' \in [Slots -> {0, 1}] /\ \A p \in Slots : p # s => frames'[p] = frames[p]
  BY <1>3, <1>t DEF TypeOK
<1>6. TypeOK'
  <2>1. index' \in Nat \ {0}
    BY <1>1, <1>3
  <2>2. ended' \subseteq Handles
    <3>1. ended \subseteq Handles
      BY <1>t DEF TypeOK
    <3>. HIDE DEF Handles
    <3>. QED BY <3>1, <1>1, <1>3
  <2>. QED BY <2>1, <2>2, <1>1, <1>4, <1>5, <1>t DEF TypeOK
<1>7. RunningInPlace'
  <2>. SUFFICES ASSUME NEW g \in Handles, Running(g)'
                PROVE  /\ slotOf[g] \in Registered /\ occupant[slotOf[g]] = g
                       /\ ~dead'[slotOf[g]] /\ frames'[slotOf[g]] = 1
    BY <1>1, <1>2 DEF RunningInPlace
  <2>1. Running(g) /\ g # h
    BY <1>1 DEF Running
  <2>2. /\ slotOf[g] \in Registered /\ occupant[slotOf[g]] = g
        /\ ~dead[slotOf[g]] /\ frames[slotOf[g]] = 1
    BY <2>1 DEF SchedulerInv, RunningInPlace
  <2>3. slotOf[g] # s /\ slotOf[g] \in Slots
    BY <2>1, <2>2, <1>t DEF SchedulerInv, PoolPartition, TypeOK
  <2>. QED BY <2>2, <2>3, <1>4, <1>5
<1>8. LoopInv'
  BY <1>1, <1>3 DEF LoopInv
<1>9. StructInv'
  <2>1. ASSUME NEW p \in heap
        PROVE  /\ occupant[p] \in 0 .. spawned /\ slotOf[occupant[p]] = p
               /\ dead'[p] => occupant[p] \in ended' /\ result'[p] = outcome'[occupant[p]]
               /\ ~dead'[p] => /\ result'[p] = Nil /\ outcome'[occupant[p]] = Nil
                               /\ frames'[p] = 1 => occupant[p] \notin ended'
    <3>1. occupant[p] \in 0 .. spawned /\ slotOf[occupant[p]] = p
      BY DEF SchedulerInv, StructInv
    <3>2. CASE p = s
      BY <3>1, <3>2, <1>1, <1>4
    <3>3. CASE p # s
      <4>1. occupant[p] # h /\ p \in Slots /\ occupant[p] \in Handles
        BY <3>1, <3>3, <1>3, <1>t DEF TypeOK
      <4>2. /\ dead'[p] = dead[p] /\ result'[p] = result[p] /\ frames'[p] = frames[p]
            /\ outcome'[occupant[p]] = outcome[occupant[p]]
            /\ occupant[p] \in ended' <=> occupant[p] \in ended
        BY <4>1, <3>3, <1>1, <1>4, <1>5
      <4>. QED BY <3>1, <4>2 DEF SchedulerInv, StructInv
    <3>. QED BY <3>2, <3>3
  <2>2. \A g \in Handles : g > spawned => outcome'[g] = Nil
    <3>1. spawned \in Nat /\ \A g \in Handles : g \in Nat
      BY <1>t DEF TypeOK
    <3>. QED BY <3>1, <1>3, <1>4 DEF SchedulerInv, StructInv
  <2>3. \A p \in Free : dead'[p]
    BY <1>4 DEF SchedulerInv, StructInv, PoolPartition, TypeOK
  <2>4. ended' \subseteq 0 .. spawned
    <3>1. h \in 0 .. spawned
      BY <1>3, <1>t DEF TypeOK
    <3>. QED BY <3>1, <1>1 DEF SchedulerInv, StructInv
  <2>. QED BY <2>1, <2>2, <2>3, <2>4, <1>1, <1>2 DEF SchedulerInv, StructInv
<1>10. MainInv'
  <2>. SUFFICES ASSUME NEW m \in Slots, IsMain(m)'
                PROVE  /\ 1 \in Places /\ tasks[1] = m
                       /\ Waits(m) => /\ due[m] = 0
                                      /\ occupant[slotOf[awaiting[m]]] = awaiting[m]
                                      /\ slotOf[awaiting[m]] \in Registered
    BY <1>1, <1>2 DEF MainInv, Waits
  <2>1. m # s /\ IsMain(m)
    BY <1>1, <1>2, <1>4 DEF IsMain
  <2>. QED BY <2>1, MainElsewhere
<1>11. LastInv'
  <2>. SUFFICES ASSUME lastAwait # None, lastAwait.by = 0, lastAwait.fresh
                PROVE  /\ lastAwait.handle \in ended'
                       /\ lastAwait.value = outcome'[lastAwait.handle]
    BY <1>1 DEF LastInv
  <2>1. lastAwait.handle \in ended /\ lastAwait.value = outcome[lastAwait.handle]
    BY DEF SchedulerInv, LastInv
  <2>. QED BY <2>1, <1>1, <1>3, <1>4, <1>t DEF TypeOK
<1>. QED BY <1>2, <1>6, <1>7, <1>8, <1>9, <1>10, <1>11 DEF SchedulerInv

LEMMA ReturnInv == SchedulerInv /\ Return => SchedulerInv'
<1>. SUFFICES ASSUME SchedulerInv, Return PROVE SchedulerInv'
  OBVIOUS
<1>1. /\ phase = "turn" /\ frames' = [frames EXCEPT ![Visited] = 0]
      /\ Die(Visited, occupant[Visited], occupant[Visited])
  BY DEF Return, Ready
<1>2. occupant[Visited] \in Handles
  BY <1>1, TurnFacts
<1>. QED BY <1>1, <1>2, DieInv

LEMMA FailInv == SchedulerInv /\ Fail => SchedulerInv'
<1>. SUFFICES ASSUME SchedulerInv, Fail PROVE SchedulerInv'
  OBVIOUS
<1>1. phase = "turn" /\ frames' = frames /\ Die(Visited, result[Visited], Nil)
  BY DEF Fail, Ready
<1>2. result[Visited] = Nil
  BY <1>1, TurnFacts
<1>3. Die(Visited, Nil, Nil)
  BY <1>1, <1>2
<1>. QED BY <1>1, <1>3, DieInv

LEMMA PropagateInv == SchedulerInv /\ Propagate => SchedulerInv'
<1>. SUFFICES ASSUME SchedulerInv, Propagate PROVE SchedulerInv'
  OBVIOUS
<1>. DEFINE s == Visited
            h == occupant[s]
<1>1. /\ tasks' = tasks /\ freeTasks' = freeTasks /\ heap' = heap
      /\ dead' = dead /\ result' = result
      /\ ended' = ended \cup {h} /\ outcome' = outcome
      /\ frames' = [frames EXCEPT ![s] = 0]
      /\ due' = due /\ awaiting' = awaiting /\ awaiting[s] = None
      /\ kept' = kept /\ anyAlive' = anyAlive
      /\ slotOf' = slotOf /\ occupant' = occupant /\ spawned' = spawned
      /\ fresh' = fresh /\ lastAwait' = lastAwait
      /\ phase = "turn" /\ phase' = "scan" /\ index' = index + 1
  BY DEF Propagate, Ready, Advance, pool
<1>t. TypeOK
  BY DEF SchedulerInv
<1>2. Registered' = Registered /\ Free' = Free /\ PoolPartition' /\ Places' = Places
  BY <1>1, AllPlaces, SamePlaces DEF SchedulerInv
<1>3. /\ s \in Slots /\ s \in heap /\ index <= Len(tasks) /\ index \in Nat
      /\ Len(tasks) \in Nat /\ anyAlive /\ h \in Handles /\ h <= spawned
      /\ slotOf[h] = s /\ ~dead[s]
  BY <1>1, TurnFacts
<1>5. /\ frames' \in [Slots -> {0, 1}] /\ frames'[s] = 0
      /\ \A p \in Slots : p # s => frames'[p] = frames[p]
  BY <1>1, <1>3, <1>t DEF TypeOK
<1>6. TypeOK'
  <2>1. index' \in Nat \ {0}
    BY <1>1, <1>3
  <2>2. ended' \subseteq Handles
    <3>1. ended \subseteq Handles
      BY <1>t DEF TypeOK
    <3>. HIDE DEF Handles
    <3>. QED BY <3>1, <1>1, <1>3
  <2>. QED BY <2>1, <2>2, <1>1, <1>5, <1>t DEF TypeOK
<1>7. RunningInPlace'
  <2>. SUFFICES ASSUME NEW g \in Handles, Running(g)'
                PROVE  /\ slotOf[g] \in Registered /\ occupant[slotOf[g]] = g
                       /\ ~dead[slotOf[g]] /\ frames'[slotOf[g]] = 1
    BY <1>1, <1>2 DEF RunningInPlace
  <2>1. Running(g) /\ g # h
    BY <1>1 DEF Running
  <2>2. /\ slotOf[g] \in Registered /\ occupant[slotOf[g]] = g
        /\ ~dead[slotOf[g]] /\ frames[slotOf[g]] = 1
    BY <2>1 DEF SchedulerInv, RunningInPlace
  <2>3. slotOf[g] # s /\ slotOf[g] \in Slots
    BY <2>1, <2>2, <1>t DEF SchedulerInv, PoolPartition, TypeOK
  <2>. QED BY <2>2, <2>3, <1>5
<1>8. LoopInv'
  BY <1>1, <1>3 DEF LoopInv
<1>9. StructInv'
  <2>1. ASSUME NEW p \in heap
        PROVE  /\ occupant[p] \in 0 .. spawned /\ slotOf[occupant[p]] = p
               /\ dead[p] => occupant[p] \in ended' /\ result[p] = outcome[occupant[p]]
               /\ ~dead[p] => /\ result[p] = Nil /\ outcome[occupant[p]] = Nil
                              /\ frames'[p] = 1 => occupant[p] \notin ended'
    <3>1. occupant[p] \in 0 .. spawned /\ slotOf[occupant[p]] = p
      BY DEF SchedulerInv, StructInv
    <3>2. CASE p = s
      BY <3>1, <3>2, <1>1, <1>3, <1>5 DEF SchedulerInv, StructInv
    <3>3. CASE p # s
      <4>1. occupant[p] # h /\ p \in Slots
        BY <3>1, <3>3, <1>3, <1>t DEF TypeOK
      <4>. QED BY <3>1, <3>3, <4>1, <1>1, <1>5 DEF SchedulerInv, StructInv
    <3>. QED BY <3>2, <3>3
  <2>2. ended' \subseteq 0 .. spawned
    <3>1. h \in 0 .. spawned
      BY <1>3, <1>t DEF TypeOK
    <3>. QED BY <3>1, <1>1 DEF SchedulerInv, StructInv
  <2>. QED BY <2>1, <2>2, <1>1, <1>2 DEF SchedulerInv, StructInv
<1>10. MainInv'
  <2>. SUFFICES ASSUME NEW m \in Slots, IsMain(m)
                PROVE  /\ 1 \in Places /\ tasks[1] = m
                       /\ Waits(m) => /\ due[m] = 0
                                      /\ occupant[slotOf[awaiting[m]]] = awaiting[m]
                                      /\ slotOf[awaiting[m]] \in Registered
    BY <1>1, <1>2 DEF MainInv, Waits, IsMain
  <2>1. CASE m = s
    BY <2>1, <1>1 DEF SchedulerInv, MainInv, Waits
  <2>2. CASE m # s
    BY <2>2, <1>1, MainElsewhere
  <2>. QED BY <2>1, <2>2
<1>11. LastInv'
  BY <1>1 DEF SchedulerInv, LastInv
<1>. QED BY <1>2, <1>6, <1>7, <1>8, <1>9, <1>10, <1>11 DEF SchedulerInv

\* BC_AWAIT of a handle, the first time or again: the value given is the awaited
\* task's if its struct still held that task when the await began.
LEMMA AwaitOnInv ==
  ASSUME SchedulerInv, phase = "turn", NEW h \in Handles, h <= spawned,
         awaiting[Visited] = None \/ awaiting[Visited] = h,
         AwaitOn(Visited, h),
         UNCHANGED <<pool, dead, frames, due, result, slotOf, occupant, spawned, ended, outcome>>
  PROVE  SchedulerInv'
<1>. DEFINE s == Visited
            o == slotOf[h]
            began == IF awaiting[s] = None THEN occupant[o] = h ELSE fresh[s]
<1>1. /\ tasks' = tasks /\ freeTasks' = freeTasks /\ heap' = heap
      /\ dead' = dead /\ frames' = frames /\ due' = due /\ result' = result
      /\ slotOf' = slotOf /\ occupant' = occupant /\ spawned' = spawned
      /\ ended' = ended /\ outcome' = outcome
  BY DEF pool
<1>t. TypeOK
  BY DEF SchedulerInv
<1>3. /\ s \in Slots /\ s \in heap /\ index <= Len(tasks) /\ index \in Nat /\ index > 0
      /\ Len(tasks) \in Nat /\ anyAlive /\ ~dead[s] /\ due[s] = 0
      /\ s \in Registered /\ occupant[s] \in Handles
  BY TurnFacts
<1>4. /\ o \in heap /\ o \in Slots
      /\ dead[o] => occupant[o] \in ended /\ result[o] = outcome[occupant[o]]
      /\ ~dead[o] => o \in Registered
  <2>1. o # None
    <3>1. h \in Nat /\ spawned \in Nat
      BY <1>t DEF TypeOK
    <3>. QED BY <3>1 DEF SchedulerInv, StructInv
  <2>2. o \in heap
    BY <2>1 DEF SchedulerInv, StructInv
  <2>. QED BY <2>2, <1>t DEF SchedulerInv, StructInv, PoolPartition, TypeOK
<1>5. began \in BOOLEAN
  BY <1>3, <1>t DEF TypeOK
<1>6. IsMain(s) /\ began => occupant[o] = h
  BY <1>3 DEF SchedulerInv, MainInv, Waits
<1>7. CASE dead[o]
  <2>1. /\ lastAwait' = [by |-> occupant[s], handle |-> h, value |-> result[o], fresh |-> began]
        /\ awaiting' = [awaiting EXCEPT ![s] = None]
        /\ fresh' = [fresh EXCEPT ![s] = FALSE]
        /\ phase' = phase /\ index' = index /\ kept' = kept /\ anyAlive' = anyAlive
    BY <1>7 DEF AwaitOn, loop
  <2>2. Registered' = Registered /\ Free' = Free /\ PoolPartition' /\ Places' = Places
    BY <1>1, <2>1, AllPlaces, SamePlaces DEF SchedulerInv
  <2>3. /\ awaiting' \in [Slots -> Handles \cup {None}] /\ awaiting'[s] = None
        /\ \A p \in Slots : p # s => awaiting'[p] = awaiting[p]
        /\ fresh' \in [Slots -> BOOLEAN]
        /\ \A p \in Slots : p # s => fresh'[p] = fresh[p]
    BY <2>1, <1>3, <1>t DEF TypeOK
  <2>4. TypeOK'
    <3>1. result[o] \in Handles \cup {Nil}
      BY <1>4, <1>t DEF TypeOK
    <3>2. lastAwait' \in [by : Handles \cup {None}, handle : Handles,
                          value : Handles \cup {Nil}, fresh : BOOLEAN]
      BY <2>1, <3>1, <1>3, <1>5
    <3>. QED BY <3>2, <2>1, <2>3, <1>1, <1>t DEF TypeOK
  <2>5. RunningInPlace'
    BY <1>1, <2>2 DEF SchedulerInv, RunningInPlace, Running
  <2>6. LoopInv'
    BY <1>1, <2>1, <2>2 DEF SchedulerInv, LoopInv, Visited
  <2>7. StructInv'
    <3>1. \A p \in Slots : awaiting'[p] # None => awaiting'[p] <= spawned
      BY <2>3 DEF SchedulerInv, StructInv
    <3>. QED BY <3>1, <1>1, <2>2 DEF SchedulerInv, StructInv
  <2>8. MainInv'
    <3>. SUFFICES ASSUME NEW m \in Slots, IsMain(m)
                  PROVE  /\ 1 \in Places /\ tasks[1] = m
                         /\ Waits(m)' => /\ due[m] = 0
                                         /\ occupant[slotOf[awaiting'[m]]] = awaiting'[m]
                                         /\ slotOf[awaiting'[m]] \in Registered
      BY <1>1, <2>2 DEF MainInv, IsMain
    <3>1. CASE m = s
      BY <3>1, <2>3 DEF SchedulerInv, MainInv, Waits
    <3>2. CASE m # s
      BY <3>2, <2>3, MainElsewhere DEF Waits
    <3>. QED BY <3>1, <3>2
  <2>9. LastInv'
    <3>. SUFFICES ASSUME occupant[s] = 0, began
                  PROVE  h \in ended /\ result[o] = outcome[h]
      BY <2>1, <1>1 DEF LastInv
    <3>1. IsMain(s)
      BY <1>3 DEF IsMain
    <3>. QED BY <3>1, <1>4, <1>6, <1>7
  <2>. QED BY <2>2, <2>4, <2>5, <2>6, <2>7, <2>8, <2>9 DEF SchedulerInv
<1>8. CASE ~dead[o]
  <2>1. /\ awaiting' = [awaiting EXCEPT ![s] = h]
        /\ fresh' = [fresh EXCEPT ![s] = began]
        /\ phase' = "scan" /\ index' = index + 1 /\ kept' = kept
        /\ lastAwait' = lastAwait /\ anyAlive' = anyAlive
    BY <1>8 DEF AwaitOn, Advance
  <2>2. Registered' = Registered /\ Free' = Free /\ PoolPartition' /\ Places' = Places
    BY <1>1, <2>1, AllPlaces, SamePlaces DEF SchedulerInv
  <2>3. /\ awaiting' \in [Slots -> Handles \cup {None}] /\ awaiting'[s] = h
        /\ \A p \in Slots : p # s => awaiting'[p] = awaiting[p]
        /\ fresh' \in [Slots -> BOOLEAN] /\ fresh'[s] = began
        /\ \A p \in Slots : p # s => fresh'[p] = fresh[p]
    BY <2>1, <1>3, <1>5, <1>t DEF TypeOK
  <2>4. TypeOK'
    <3>1. index' \in Nat \ {0}
      BY <2>1, <1>3
    <3>. QED BY <3>1, <2>1, <2>3, <1>1, <1>t DEF TypeOK
  <2>5. RunningInPlace'
    BY <1>1, <2>2 DEF SchedulerInv, RunningInPlace, Running
  <2>6. LoopInv'
    BY <1>1, <1>3, <2>1 DEF LoopInv
  <2>7. StructInv'
    <3>1. \A p \in Slots : awaiting'[p] # None => awaiting'[p] <= spawned
      BY <2>3 DEF SchedulerInv, StructInv
    <3>. QED BY <3>1, <1>1, <2>2 DEF SchedulerInv, StructInv
  <2>8. MainInv'
    <3>. SUFFICES ASSUME NEW m \in Slots, IsMain(m)
                  PROVE  /\ 1 \in Places /\ tasks[1] = m
                         /\ Waits(m)' => /\ due[m] = 0
                                         /\ occupant[slotOf[awaiting'[m]]] = awaiting'[m]
                                         /\ slotOf[awaiting'[m]] \in Registered
      BY <1>1, <2>2 DEF MainInv, IsMain
    <3>1. CASE m = s
      <4>1. Waits(m)' => occupant[o] = h
        BY <3>1, <2>3, <1>6 DEF Waits
      <4>2. 1 \in Places /\ tasks[1] = m
        BY DEF SchedulerInv, MainInv
      <4>. QED BY <3>1, <4>1, <4>2, <2>3, <1>3, <1>4, <1>8
    <3>2. CASE m # s
      BY <3>2, <2>3, MainElsewhere DEF Waits
    <3>. QED BY <3>1, <3>2
  <2>9. LastInv'
    BY <1>1, <2>1 DEF SchedulerInv, LastInv
  <2>. QED BY <2>2, <2>4, <2>5, <2>6, <2>7, <2>8, <2>9 DEF SchedulerInv
<1>. QED BY <1>7, <1>8

LEMMA AwaitInv == SchedulerInv /\ Await => SchedulerInv'
<1>. SUFFICES ASSUME SchedulerInv, Await PROVE SchedulerInv'
  OBVIOUS
<1>1. PICK h \in Handles \ {0} :
        /\ phase = "turn" /\ awaiting[Visited] = None /\ slotOf[h] # None
        /\ AwaitOn(Visited, h)
        /\ UNCHANGED <<pool, dead, frames, due, result, slotOf, occupant, spawned, ended, outcome>>
  BY DEF Await, Ready
<1>2. h <= spawned
  <2>1. h \in Nat /\ spawned \in Nat /\ ~(h > spawned)
    BY <1>1 DEF SchedulerInv, StructInv, TypeOK
  <2>. QED BY <2>1
<1>. QED BY <1>1, <1>2, AwaitOnInv

LEMMA ResumeInv == SchedulerInv /\ Resume => SchedulerInv'
<1>. SUFFICES ASSUME SchedulerInv, Resume PROVE SchedulerInv'
  OBVIOUS
<1>. DEFINE h == awaiting[Visited]
<1>1. /\ phase = "turn" /\ h # None
      /\ AwaitOn(Visited, h)
      /\ UNCHANGED <<pool, dead, frames, due, result, slotOf, occupant, spawned, ended, outcome>>
  BY DEF Resume
<1>2. h \in Handles /\ h <= spawned
  <2>1. Visited \in Slots
    BY <1>1, TurnFacts
  <2>2. h \in Handles
    BY <1>1, <2>1 DEF SchedulerInv, TypeOK
  <2>3. h <= spawned
    BY <1>1, <2>1 DEF SchedulerInv, StructInv
  <2>. QED BY <2>2, <2>3
<1>. QED BY <1>1, <1>2, AwaitOnInv

\* The struct of a spawn is one that nothing is registered in.
LEMMA NewSlotFacts ==
  ASSUME SchedulerInv, NEW s \in Slots, NewSlot(s)
  PROVE  /\ s \notin Registered /\ heap' = heap \cup {s}
         /\ freeTasks' \in Seq(Slots) /\ Free' = Free \ {s}
         /\ \A i, j \in 1 .. Len(freeTasks') : freeTasks'[i] = freeTasks'[j] => i = j
<1>t. freeTasks \in Seq(Slots)
  BY DEF SchedulerInv, TypeOK
<1>p. /\ \A i, j \in 1 .. Len(freeTasks) : freeTasks[i] = freeTasks[j] => i = j
      /\ Registered \cap Free = {} /\ Registered \cup Free = heap
  BY DEF SchedulerInv, PoolPartition
<1>1. CASE freeTasks # << >>
  <2>1. s = Head(freeTasks) /\ freeTasks' = Tail(freeTasks) /\ heap' = heap
    BY <1>1 DEF NewSlot
  <2>2. /\ Len(freeTasks) \in Nat /\ Len(freeTasks) > 0 /\ Len(freeTasks') = Len(freeTasks) - 1
        /\ s = freeTasks[1] /\ freeTasks' \in Seq(Slots)
        /\ \A i \in 1 .. Len(freeTasks') : freeTasks'[i] = freeTasks[i + 1]
    BY <2>1, <1>1, <1>t, HeadTailProperties, EmptySeq
  <2>3. s \in Free
    BY <2>2 DEF Free
  <2>4. Free' = Free \ {s}
    <3>1. ASSUME NEW i \in 1 .. Len(freeTasks') PROVE freeTasks'[i] \in Free \ {s}
      <4>1. i + 1 \in 1 .. Len(freeTasks) /\ i + 1 # 1 /\ 1 \in 1 .. Len(freeTasks)
        BY <2>2
      <4>. QED BY <4>1, <2>2, <1>p DEF Free
    <3>2. ASSUME NEW i \in 1 .. Len(freeTasks), freeTasks[i] # s PROVE freeTasks[i] \in Free'
      <4>1. i - 1 \in 1 .. Len(freeTasks') /\ i = (i - 1) + 1
        BY <2>2, <3>2
      <4>. QED BY <4>1, <2>2 DEF Free
    <3>. QED BY <3>1, <3>2 DEF Free
  <2>5. ASSUME NEW i \in 1 .. Len(freeTasks'), NEW j \in 1 .. Len(freeTasks'),
               freeTasks'[i] = freeTasks'[j]
        PROVE  i = j
    <3>1. i + 1 \in 1 .. Len(freeTasks) /\ j + 1 \in 1 .. Len(freeTasks)
      BY <2>2
    <3>2. i + 1 = j + 1
      BY <3>1, <2>2, <2>5, <1>p
    <3>. QED BY <3>2
  <2>. QED BY <2>1, <2>2, <2>3, <2>4, <2>5, <1>p
<1>2. CASE freeTasks = << >>
  <2>1. s \notin heap /\ heap' = heap \cup {s} /\ freeTasks' = freeTasks
    BY <1>2 DEF NewSlot
  <2>2. Free' = Free
    BY <2>1 DEF Free
  <2>. QED BY <2>1, <2>2, <1>p, <1>t
<1>. QED BY <1>1, <1>2

LEMMA SpawnInv == SchedulerInv /\ Spawn => SchedulerInv'
<1>. SUFFICES ASSUME SchedulerInv, Spawn PROVE SchedulerInv'
  OBVIOUS
<1>. DEFINE h == spawned + 1
            v == Visited
<1>0. PICK s \in Slots : NewSlot(s) /\ Register(s, h)
  BY DEF Spawn
<1>1. /\ tasks' = Append(tasks, s)
      /\ dead' = [dead EXCEPT ![s] = FALSE]
      /\ frames' = [frames EXCEPT ![s] = 1]
      /\ due' = [due EXCEPT ![s] = 0]
      /\ result' = [result EXCEPT ![s] = Nil]
      /\ awaiting' = [awaiting EXCEPT ![s] = None]
      /\ slotOf' = [slotOf EXCEPT ![h] = s]
      /\ occupant' = [occupant EXCEPT ![s] = h]
      /\ fresh' = [fresh EXCEPT ![s] = FALSE]
  BY <1>0 DEF Register
<1>2. /\ phase = "turn" /\ awaiting[v] = None /\ spawned < MaxSpawns /\ spawned' = h
      /\ phase' = phase /\ index' = index /\ kept' = kept /\ anyAlive' = anyAlive
      /\ ended' = ended /\ outcome' = outcome /\ lastAwait' = lastAwait
  BY DEF Spawn, loop
<1>t. TypeOK
  BY DEF SchedulerInv
<1>3. /\ v \in Slots /\ v \in Registered /\ index <= Len(tasks) /\ index \in Nat /\ index > 0
      /\ Len(tasks) \in Nat /\ Places = 1 .. Len(tasks) /\ v = tasks[index] /\ anyAlive
      /\ ~dead[v] /\ frames[v] = 1 /\ due[v] = 0
  BY <1>2, TurnFacts
<1>4. /\ s \notin Registered /\ heap' = heap \cup {s} /\ freeTasks' \in Seq(Slots)
      /\ Free' = Free \ {s}
      /\ \A i, j \in 1 .. Len(freeTasks') : freeTasks'[i] = freeTasks'[j] => i = j
  BY <1>0, NewSlotFacts
<1>5. /\ spawned \in Nat /\ h \in Handles /\ h > spawned /\ h # 0 /\ h \in Nat
      /\ ~(h <= spawned)
  BY <1>2, <1>t DEF TypeOK
<1>6. /\ tasks' \in Seq(Slots) /\ Len(tasks') = Len(tasks) + 1 /\ tasks'[Len(tasks) + 1] = s
      /\ \A i \in 1 .. Len(tasks) : tasks'[i] = tasks[i]
  BY <1>1, <1>t DEF TypeOK
<1>7. Places' = 1 .. Len(tasks) + 1
  BY <1>2, <1>6 DEF Places
<1>8. Registered' = Registered \cup {s}
  <2>1. \A i \in Places' : i \in Places \/ i = Len(tasks) + 1
    BY <1>3, <1>7
  <2>2. Len(tasks) + 1 \in Places' /\ Places \subseteq Places'
    BY <1>3, <1>7
  <2>. QED BY <2>1, <2>2, <1>3, <1>6 DEF Registered
<1>9. /\ dead' \in [Slots -> BOOLEAN] /\ frames' \in [Slots -> {0, 1}]
      /\ due' \in [Slots -> 0 .. MaxSleep]
      /\ result' \in [Slots -> Handles \cup {Nil}]
      /\ awaiting' \in [Slots -> Handles \cup {None}]
      /\ occupant' \in [Slots -> Handles \cup {None}]
      /\ fresh' \in [Slots -> BOOLEAN]
      /\ slotOf' \in [Handles -> Slots \cup {None}]
  BY <1>1, <1>5, <1>t DEF TypeOK
<1>10. /\ ~dead'[s] /\ frames'[s] = 1 /\ due'[s] = 0 /\ result'[s] = Nil
       /\ awaiting'[s] = None /\ occupant'[s] = h /\ ~fresh'[s] /\ slotOf'[h] = s
  BY <1>1, <1>5, <1>t DEF TypeOK
<1>11. /\ \A p \in Slots : p # s =>
            /\ dead'[p] = dead[p] /\ frames'[p] = frames[p] /\ due'[p] = due[p]
            /\ result'[p] = result[p] /\ awaiting'[p] = awaiting[p]
            /\ occupant'[p] = occupant[p] /\ fresh'[p] = fresh[p]
       /\ \A g \in Handles : g # h => slotOf'[g] = slotOf[g]
  BY <1>1, <1>t DEF TypeOK
<1>12. PoolPartition'
  <2>1. ASSUME NEW i \in Places', NEW j \in Places', tasks'[i] = tasks'[j]
        PROVE  i = j
    <3>0. ASSUME NEW k \in Places'
          PROVE  \/ (k \in Places /\ tasks'[k] = tasks[k])
                 \/ (k = Len(tasks) + 1 /\ tasks'[k] = s)
      <4>1. k \in 1 .. Len(tasks) \/ k = Len(tasks) + 1
        BY <1>3, <1>7
      <4>. QED BY <4>1, <1>3, <1>6
    <3>1. /\ (i \in Places /\ tasks'[i] = tasks[i]) \/ (i = Len(tasks) + 1 /\ tasks'[i] = s)
          /\ (j \in Places /\ tasks'[j] = tasks[j]) \/ (j = Len(tasks) + 1 /\ tasks'[j] = s)
      BY <3>0
    <3>2. \A k \in Places : tasks[k] # s
      BY <1>4 DEF Registered
    <3>. QED BY <2>1, <3>1, <3>2 DEF SchedulerInv, PoolPartition
  <2>2. Registered' \cap Free' = {} /\ Registered' \cup Free' = heap'
    BY <1>4, <1>8 DEF SchedulerInv, PoolPartition
  <2>. QED BY <2>1, <2>2, <1>4 DEF PoolPartition
<1>13. TypeOK'
  <2>1. heap' \subseteq Slots /\ spawned' \in Handles
    BY <1>2, <1>4, <1>5, <1>t DEF TypeOK
  <2>. QED BY <2>1, <1>2, <1>4, <1>6, <1>9, <1>t DEF TypeOK
<1>14. RunningInPlace'
  <2>. SUFFICES ASSUME NEW g \in Handles, Running(g)'
                PROVE  /\ slotOf'[g] \in Registered' /\ occupant'[slotOf'[g]] = g
                       /\ ~dead'[slotOf'[g]] /\ frames'[slotOf'[g]] = 1
    BY DEF RunningInPlace
  <2>1. CASE g = h
    BY <2>1, <1>8, <1>10
  <2>2. CASE g # h
    <3>1. Running(g)
      BY <2>2, <1>2, <1>5 DEF Running
    <3>2. /\ slotOf[g] \in Registered /\ occupant[slotOf[g]] = g
          /\ ~dead[slotOf[g]] /\ frames[slotOf[g]] = 1
      BY <3>1 DEF SchedulerInv, RunningInPlace
    <3>3. slotOf[g] # s /\ slotOf[g] \in Slots
      BY <3>2, <1>4, <1>t DEF SchedulerInv, PoolPartition, TypeOK
    <3>. QED BY <2>2, <3>2, <3>3, <1>8, <1>11
  <2>. QED BY <2>1, <2>2
<1>15. LoopInv'
  <2>1. v # s /\ tasks'[index] = v
    BY <1>3, <1>4, <1>6
  <2>. QED BY <2>1, <1>2, <1>3, <1>6, <1>11 DEF LoopInv, Visited
<1>16. StructInv'
  <2>1. ASSUME NEW p \in heap'
        PROVE  /\ occupant'[p] \in 0 .. h /\ slotOf'[occupant'[p]] = p
               /\ dead'[p] => occupant'[p] \in ended /\ result'[p] = outcome[occupant'[p]]
               /\ ~dead'[p] => /\ result'[p] = Nil /\ outcome[occupant'[p]] = Nil
                               /\ frames'[p] = 1 => occupant'[p] \notin ended
    <3>1. CASE p = s
      <4>1. outcome[h] = Nil /\ h \notin ended
        BY <1>5 DEF SchedulerInv, StructInv
      <4>. QED BY <3>1, <4>1, <1>5, <1>10
    <3>2. CASE p # s
      <4>1. p \in heap /\ p \in Slots
        BY <3>2, <1>4, <1>t DEF TypeOK
      <4>2. occupant[p] \in 0 .. spawned /\ slotOf[occupant[p]] = p
        BY <4>1 DEF SchedulerInv, StructInv
      <4>3. occupant[p] \in 0 .. h /\ occupant[p] # h /\ occupant[p] \in Handles
        BY <4>2, <1>5
      <4>. QED BY <3>2, <4>1, <4>2, <4>3, <1>11 DEF SchedulerInv, StructInv
    <3>. QED BY <3>1, <3>2
  <2>2. \A g \in Handles : /\ (slotOf'[g] = None) <=> (g > h)
                           /\ slotOf'[g] # None => slotOf'[g] \in heap'
                           /\ g > h => outcome[g] = Nil
    <3>. TAKE g \in Handles
    <3>1. /\ (slotOf[g] = None) <=> (g > spawned)
          /\ slotOf[g] # None => slotOf[g] \in heap
          /\ g > spawned => outcome[g] = Nil
      BY DEF SchedulerInv, StructInv
    <3>2. CASE g = h
      BY <3>2, <1>4, <1>5, <1>10
    <3>3. CASE g # h
      <4>1. (g > h) <=> (g > spawned)
        BY <3>3, <1>5
      <4>. QED BY <3>1, <3>3, <4>1, <1>4, <1>11
    <3>. QED BY <3>2, <3>3
  <2>3. \A p \in Slots : awaiting'[p] # None => awaiting'[p] <= h
    <3>. TAKE p \in Slots
    <3>1. awaiting[p] # None => awaiting[p] <= spawned /\ awaiting[p] \in Nat
      BY <1>t DEF SchedulerInv, StructInv, TypeOK
    <3>. QED BY <3>1, <1>5, <1>10, <1>11
  <2>4. \A p \in Free' : dead'[p]
    BY <1>4, <1>11, <1>t DEF SchedulerInv, StructInv, PoolPartition, TypeOK
  <2>5. ended \subseteq 0 .. h
    BY <1>5 DEF SchedulerInv, StructInv
  <2>. QED BY <2>1, <2>2, <2>3, <2>4, <2>5, <1>2 DEF StructInv
<1>17. MainInv'
  <2>. SUFFICES ASSUME NEW m \in Slots, IsMain(m)'
                PROVE  /\ 1 \in Places' /\ tasks'[1] = m
                       /\ Waits(m)' => /\ due'[m] = 0
                                       /\ occupant'[slotOf'[awaiting'[m]]] = awaiting'[m]
                                       /\ slotOf'[awaiting'[m]] \in Registered'
    BY DEF MainInv
  <2>1. m # s
    BY <1>5, <1>10 DEF IsMain
  <2>2. IsMain(m)
    BY <2>1, <1>8, <1>11 DEF IsMain
  <2>3. 1 \in Places' /\ tasks'[1] = m
    <3>1. tasks[1] = m
      BY <2>2 DEF SchedulerInv, MainInv
    <3>2. 1 \in 1 .. Len(tasks) /\ 1 \in 1 .. Len(tasks) + 1
      BY <1>3
    <3>. QED BY <3>1, <3>2, <1>6, <1>7
  <2>4. CASE m = v
    BY <2>1, <2>3, <2>4, <1>2, <1>11 DEF Waits
  <2>5. CASE m # v
    <3>. SUFFICES ASSUME Waits(m)
                  PROVE  /\ due[m] = 0
                         /\ occupant'[slotOf'[awaiting[m]]] = awaiting[m]
                         /\ slotOf'[awaiting[m]] \in Registered'
      BY <2>1, <2>3, <1>11 DEF Waits
    <3>1. /\ due[m] = 0 /\ occupant[slotOf[awaiting[m]]] = awaiting[m]
          /\ slotOf[awaiting[m]] \in Registered
      BY <2>2, <2>5, <1>2, MainElsewhere
    <3>2. awaiting[m] \in Handles /\ awaiting[m] # h
      BY <1>5, <1>t DEF Waits, SchedulerInv, StructInv, TypeOK
    <3>3. slotOf[awaiting[m]] # s /\ slotOf[awaiting[m]] \in Slots
      BY <3>1, <1>4, <1>t DEF SchedulerInv, PoolPartition, TypeOK
    <3>. QED BY <3>1, <3>2, <3>3, <1>8, <1>11
  <2>. QED BY <2>4, <2>5
<1>18. LastInv'
  BY <1>2 DEF SchedulerInv, LastInv
<1>. QED BY <1>12, <1>13, <1>14, <1>15, <1>16, <1>17, <1>18 DEF SchedulerInv

LEMMA StutterInv == SchedulerInv /\ UNCHANGED vars => SchedulerInv'
<1>. SUFFICES ASSUME SchedulerInv, UNCHANGED vars PROVE SchedulerInv'
  OBVIOUS
<1>1. /\ UNCHANGED <<pool, structs, history>>
      /\ phase' = phase /\ index' = index /\ kept' = kept /\ anyAlive' = anyAlive
      /\ tasks' = tasks /\ dead' = dead /\ frames' = frames /\ due' = due
      /\ awaiting' = awaiting /\ slotOf' = slotOf /\ occupant' = occupant /\ fresh' = fresh
  BY DEF vars, loop, pool, structs, history
<1>2. Places' = Places
  BY <1>1 DEF Places
<1>3. /\ TypeOK' /\ PoolPartition' /\ RunningInPlace' /\ StructInv' /\ LastInv'
      /\ Registered' = Registered
  <2>1. /\ phase' \in {"scan", "turn", "reap", "halted", "crashed"}
        /\ index' \in Nat \ {0} /\ kept' \in Nat /\ anyAlive' \in BOOLEAN
    BY <1>1 DEF SchedulerInv, TypeOK
  <2>. QED BY <2>1, <1>1, <1>2, LoopMove
<1>4. LoopInv'
  BY <1>1, <1>2 DEF SchedulerInv, LoopInv, Visited
<1>5. MainInv'
  BY <1>1, <1>2, <1>3 DEF SchedulerInv, MainInv, IsMain, Waits
<1>. QED BY <1>3, <1>4, <1>5 DEF SchedulerInv

LEMMA StepInv == SchedulerInv /\ [Next]_vars => SchedulerInv'
<1>. SUFFICES ASSUME SchedulerInv, [Next]_vars PROVE SchedulerInv'
  OBVIOUS
<1>1. CASE Skip       BY <1>1, SkipInv
<1>2. CASE BeginTurn  BY <1>2, BeginTurnInv
<1>3. CASE Crash      BY <1>3, CrashInv
<1>4. CASE EndPass    BY <1>4, EndPassInv
<1>5. CASE Reap       BY <1>5, ReapDeadInv, ReapLiveInv
<1>6. CASE EndReap    BY <1>6, EndReapInv
<1>7. CASE Tick       BY <1>7, TickInv
<1>8. CASE Spawn      BY <1>8, SpawnInv
<1>9. CASE Await      BY <1>9, AwaitInv
<1>10. CASE Resume    BY <1>10, ResumeInv
<1>11. CASE Sleep     BY <1>11, SleepInv
<1>12. CASE Return    BY <1>12, ReturnInv
<1>13. CASE Fail      BY <1>13, FailInv
<1>14. CASE Propagate BY <1>14, PropagateInv
<1>15. CASE UNCHANGED vars BY <1>15, StutterInv
<1>. QED BY <1>1, <1>2, <1>3, <1>4, <1>5, <1>6, <1>7, <1>8, <1>9, <1>10, <1>11, <1>12,
            <1>13, <1>14, <1>15 DEF Next, LoopStep, TurnStep

-----------------------------------------------------------------------------
(* The theorems. *)

\* The scheduler's invariant: what vm_run()'s arrays, counters and the Task
\* structs mean, in every reachable state.
THEOREM SchedulerIsSound == Spec => []SchedulerInv
<1>1. Init => SchedulerInv
  BY InitInv
<1>2. SchedulerInv /\ [Next]_vars => SchedulerInv'
  BY StepInv
<1>. QED BY <1>1, <1>2, PTL DEF Spec

\* The types of the scheduler's state are kept by every step of the loop and of
\* the tasks.
THEOREM TypesAreKept == Spec => []TypeOK
<1>1. SchedulerInv => TypeOK
  BY DEF SchedulerInv
<1>. QED BY <1>1, SchedulerIsSound, PTL

\* The pool: a Task struct that was allocated is registered once or free once.
THEOREM PoolIsPartitioned == Spec => []PoolPartition
<1>1. SchedulerInv => PoolPartition
  BY DEF SchedulerInv
<1>. QED BY <1>1, SchedulerIsSound, PTL

\* A task keeps its struct until it ends, whatever is spawned and reaped.
THEOREM TasksStayInPlace == Spec => []RunningInPlace
<1>1. SchedulerInv => RunningInPlace
  BY DEF SchedulerInv
<1>. QED BY <1>1, SchedulerIsSound, PTL

\* vm_run() does not return while a task runs or sleeps.
THEOREM NoEarlyHalt == Spec => []HaltedMeansDone
<1>1. SchedulerInv => HaltedMeansDone
  <2>. SUFFICES ASSUME SchedulerInv, phase = "halted", NEW h \in Handles, Running(h)
                PROVE  FALSE
    BY DEF HaltedMeansDone
  <2>1. slotOf[h] \in Registered
    BY DEF SchedulerInv, RunningInPlace
  <2>2. tasks = << >>
    BY DEF SchedulerInv, LoopInv
  <2>3. Places = {}
    BY <2>2 DEF Places
  <2>. QED BY <2>1, <2>3 DEF Registered
<1>. QED BY <1>1, SchedulerIsSound, PTL

\* The main script's await, begun on a task still in place, gives that task's
\* return value although Task structs are recycled behind it.
THEOREM MainAwaitIsSound == Spec => []MainAwaitSound
<1>1. SchedulerInv => MainAwaitSound
  BY DEF SchedulerInv, MainInv, LastInv, MainAwaitSound
<1>. QED BY <1>1, SchedulerIsSound, PTL

-----------------------------------------------------------------------------
(* The order of the tasks. *)

\* A step that moves no task keeps the order.
LEMMA SameOrder ==
  ASSUME InOrder, UNCHANGED <<tasks, occupant>>, Places' \subseteq Places
  PROVE  InOrder'
  BY DEF InOrder

\* The reaping loop moves a task down to a place that is behind the tasks it has kept
\* and before those it has not come to.
LEMMA ReapOrder ==
  ASSUME SchedulerInv, InOrder, Reap
  PROVE  InOrder'
<1>1. /\ phase = "reap" /\ phase' = "reap" /\ index' = index + 1 /\ index <= Len(tasks)
      /\ occupant' = occupant
  BY DEF Reap, history
<1>2. /\ kept \in Nat /\ index \in Nat /\ kept < index /\ tasks \in Seq(Slots) /\ Len(tasks) \in Nat
  BY <1>1 DEF SchedulerInv, TypeOK, LoopInv
<1>3. Places = (1 .. kept) \cup (index .. Len(tasks))
  BY <1>1 DEF Places
<1>4. CASE UNCHANGED <<tasks, kept>>
  <2>1. Places' = (1 .. kept) \cup (index + 1 .. Len(tasks))
    BY <1>1, <1>4 DEF Places
  <2>. QED BY <1>1, <1>2, <1>3, <1>4, <2>1, SameOrder
<1>5. CASE tasks' = [tasks EXCEPT ![kept + 1] = Visited] /\ kept' = kept + 1
  <2>1. kept + 1 \in 1 .. Len(tasks)
    BY <1>1, <1>2
  <2>2. /\ Len(tasks') = Len(tasks) /\ tasks'[kept + 1] = tasks[index]
        /\ \A i \in 1 .. Len(tasks) : i # kept + 1 => tasks'[i] = tasks[i]
    BY <1>2, <1>5, <2>1 DEF Visited
  <2>3. Places' = (1 .. kept + 1) \cup (index + 1 .. Len(tasks))
    BY <1>1, <1>5, <2>2 DEF Places
  <2>. DEFINE from(i) == IF i = kept + 1 THEN index ELSE i
  <2>4. ASSUME NEW i \in Places' PROVE from(i) \in Places /\ tasks'[i] = tasks[from(i)]
    <3>1. CASE i = kept + 1
      BY <1>1, <1>2, <1>3, <2>2, <3>1
    <3>2. CASE i # kept + 1
      BY <1>1, <1>2, <1>3, <2>2, <2>3, <3>2
    <3>. QED BY <3>1, <3>2
  <2>5. ASSUME NEW i \in Places', NEW j \in Places', i < j PROVE from(i) < from(j)
    BY <1>2, <2>3, <2>5
  <2>. HIDE DEF from
  <2>. QED BY <1>1, <2>4, <2>5 DEF InOrder
<1>. QED BY <1>4, <1>5 DEF Reap

LEMMA EndReapOrder ==
  ASSUME SchedulerInv, InOrder, EndReap
  PROVE  InOrder'
<1>1. /\ tasks' = SubSeq(tasks, 1, kept) /\ phase = "reap" /\ phase' # "reap" /\ occupant' = occupant
  BY DEF EndReap, history
<1>2. kept \in Nat /\ tasks \in Seq(Slots) /\ kept <= Len(tasks) /\ Len(tasks) \in Nat
  BY <1>1 DEF EndReap, SchedulerInv, TypeOK, LoopInv
<1>3. Len(tasks') = kept /\ \A i \in 1 .. kept : tasks'[i] = tasks[i]
  BY <1>1, <1>2
<1>4. Places' = 1 .. kept /\ 1 .. kept \subseteq Places
  BY <1>1, <1>3 DEF Places
<1>. QED BY <1>1, <1>3, <1>4 DEF InOrder

\* What a spawn registers, where, and that no task that runs was there.
LEMMA SpawnFacts ==
  ASSUME SchedulerInv, Spawn
  PROVE  \E s \in Slots :
           /\ s \notin Registered /\ s # Visited
           /\ tasks' = Append(tasks, s)
           /\ due' = [due EXCEPT ![s] = 0]
           /\ slotOf' = [slotOf EXCEPT ![spawned'] = s]
           /\ occupant' = [occupant EXCEPT ![s] = spawned']
<1>1. PICK s \in Slots : NewSlot(s) /\ Register(s, spawned')
  BY DEF Spawn
<1>2. s \notin Registered
  BY <1>1, NewSlotFacts
<1>3. Visited \in Registered
  BY TurnFacts DEF Spawn
<1>. QED BY <1>1, <1>2, <1>3 DEF Register

LEMMA SpawnOrder ==
  ASSUME SchedulerInv, InOrder, Spawn
  PROVE  InOrder'
<1>1. PICK s \in Slots : /\ s \notin Registered /\ tasks' = Append(tasks, s)
                         /\ occupant' = [occupant EXCEPT ![s] = spawned']
  BY SpawnFacts
<1>2. spawned' = spawned + 1 /\ phase = "turn" /\ phase' = "turn"
  BY DEF Spawn, loop
<1>3. tasks \in Seq(Slots) /\ Len(tasks) \in Nat /\ spawned \in Nat /\ occupant \in [Slots -> Handles \cup {None}]
  BY DEF SchedulerInv, TypeOK
<1>4. /\ Len(tasks') = Len(tasks) + 1 /\ tasks'[Len(tasks) + 1] = s
      /\ \A i \in 1 .. Len(tasks) : tasks'[i] = tasks[i]
  BY <1>1, <1>3
<1>5. Places = 1 .. Len(tasks) /\ Places' = 1 .. Len(tasks) + 1
  BY <1>2, <1>4 DEF Places
<1>6. ASSUME NEW i \in Places PROVE tasks[i] # s /\ occupant[tasks[i]] \in 0 .. spawned /\ tasks[i] \in Slots
  <2>1. tasks[i] \in Registered /\ tasks[i] \in heap
    BY DEF Registered, SchedulerInv, PoolPartition
  <2>. QED BY <1>1, <2>1 DEF SchedulerInv, StructInv, TypeOK
<1>7. \A i \in Places : occupant'[tasks'[i]] = occupant[tasks[i]]
  BY <1>1, <1>3, <1>4, <1>5, <1>6
<1>8. occupant'[tasks'[Len(tasks) + 1]] = spawned + 1
  BY <1>1, <1>2, <1>3, <1>4
<1>. SUFFICES ASSUME NEW i \in Places', NEW j \in Places', i < j
              PROVE  occupant'[tasks'[i]] < occupant'[tasks'[j]]
  BY DEF InOrder
<1>9. i \in Places
  BY <1>3, <1>5
<1>10. CASE j \in Places
  BY <1>7, <1>9, <1>10 DEF InOrder
<1>11. CASE j = Len(tasks) + 1
  BY <1>3, <1>6, <1>7, <1>8, <1>9, <1>11
<1>. QED BY <1>3, <1>5, <1>10, <1>11

LEMMA OrderStep ==
  ASSUME SchedulerInv, InOrder, [Next]_vars
  PROVE  InOrder'
<1>1. CASE EndPass
  <2>1. Places' = Places
    BY <1>1 DEF EndPass, Places, pool, SchedulerInv, TypeOK
  <2>. QED BY <1>1, <2>1, SameOrder DEF EndPass, pool, history
<1>2. ASSUME UNCHANGED <<tasks, occupant>>, phase # "reap", phase' # "reap" PROVE InOrder'
  BY <1>2, AllPlaces, SameOrder
<1>3. CASE Skip \/ BeginTurn \/ Crash
  BY <1>2, <1>3 DEF Skip, BeginTurn, Crash, Advance, pool, history
<1>4. CASE Tick
  <2>1. Places' = Places
    BY <1>4 DEF Tick, pool, loop, Places
  <2>. QED BY <1>4, <2>1, SameOrder DEF Tick, pool, history
<1>5. CASE Await \/ Resume
  BY <1>2, <1>5 DEF Await, Resume, Ready, AwaitOn, Advance, loop, pool
<1>6. CASE Sleep \/ Return \/ Fail \/ Propagate
  BY <1>2, <1>6 DEF Sleep, Return, Fail, Propagate, Die, Ready, Advance, pool, history
<1>7. CASE UNCHANGED vars
  <2>1. Places' = Places
    BY <1>7 DEF vars, pool, loop, Places
  <2>. QED BY <1>7, <2>1, SameOrder DEF vars, pool, history
<1>. QED BY <1>1, <1>3, <1>4, <1>5, <1>6, <1>7, ReapOrder, EndReapOrder, SpawnOrder
         DEF Next, LoopStep, TurnStep

LEMMA InitOrder == Init => InOrder
  BY DEF Init, InOrder, Places

-----------------------------------------------------------------------------
(* Awaits of tasks that were spawned before: the order of the tasks is what *)
(* brings the one that waits to look again before the reaping.              *)

Elder(s) == ~dead[s] /\ Waits(s) /\ awaiting[s] < occupant[s]
ToBeVisited(s) == \E i \in index .. Len(tasks) : tasks[i] = s

\* What a task waits for that was spawned before it is in place; once it is dead, the
\* one that waits is still to be visited in this pass.
ElderInv ==
  \A s \in Registered : Elder(s) =>
    /\ due[s] = 0
    /\ occupant[slotOf[awaiting[s]]] = awaiting[s]
    /\ dead[slotOf[awaiting[s]]] => /\ phase # "reap"
                                    /\ slotOf[awaiting[s]] \in Registered
                                    /\ ToBeVisited(s)

\* What it was given stands.
ElderLast ==
  lastAwait # None /\ lastAwait.fresh /\ lastAwait.handle < lastAwait.by
    => lastAwait.handle \in ended /\ lastAwait.value = outcome[lastAwait.handle]

\* The handle that a task waits for, and its struct.
LEMMA ElderFacts ==
  ASSUME SchedulerInv, ElderInv, NEW s \in Registered, Elder(s)
  PROVE  /\ s \in Slots /\ s \in heap
         /\ awaiting[s] \in Handles /\ awaiting[s] <= spawned /\ awaiting[s] # None
         /\ slotOf[awaiting[s]] \in heap /\ slotOf[awaiting[s]] \in Slots
         /\ slotOf[awaiting[s]] \in Registered
<1>. DEFINE h == awaiting[s]
<1>t. TypeOK
  BY DEF SchedulerInv
<1>1. s \in heap /\ s \in Slots
  BY <1>t DEF SchedulerInv, PoolPartition, TypeOK
<1>2. h # None /\ h \in Handles /\ h <= spawned
  BY <1>1, <1>t DEF Elder, Waits, SchedulerInv, StructInv, TypeOK
<1>3. slotOf[h] \in heap
  <2>1. h \in Nat /\ spawned \in Nat /\ ~(h > spawned)
    BY <1>2, <1>t DEF Handles, TypeOK
  <2>. QED BY <2>1, <1>2 DEF SchedulerInv, StructInv
<1>4. slotOf[h] \in Registered
  <2>1. CASE dead[slotOf[h]]
    BY <2>1 DEF ElderInv
  <2>2. CASE ~dead[slotOf[h]]
    BY <2>2, <1>3 DEF SchedulerInv, StructInv, PoolPartition
  <2>. QED BY <2>1, <2>2
<1>. QED BY <1>1, <1>2, <1>3, <1>4, <1>t DEF TypeOK

\* A step that kills nobody and does not change who waits keeps what is said of those
\* that wait, if it passes none of them by.
LEMMA SameElders ==
  ASSUME SchedulerInv, ElderInv, UNCHANGED <<dead, awaiting, fresh, slotOf, occupant>>,
         Registered' \subseteq Registered,
         \A s \in Registered' : Elder(s) =>
           /\ due'[s] = 0
           /\ dead[slotOf[awaiting[s]]] =>
                phase' # "reap" /\ slotOf[awaiting[s]] \in Registered' /\ ToBeVisited(s)'
  PROVE  ElderInv'
<1>. SUFFICES ASSUME NEW s \in Registered', Elder(s)'
              PROVE  /\ due'[s] = 0
                     /\ occupant'[slotOf'[awaiting'[s]]] = awaiting'[s]
                     /\ dead'[slotOf'[awaiting'[s]]] =>
                          phase' # "reap" /\ slotOf'[awaiting'[s]] \in Registered' /\ ToBeVisited(s)'
  BY DEF ElderInv
<1>1. s \in Registered /\ Elder(s)
  BY DEF Elder, Waits
<1>2. occupant[slotOf[awaiting[s]]] = awaiting[s]
  BY <1>1 DEF ElderInv
<1>. QED BY <1>1, <1>2

\* In the reaping loop nobody waits for a task that is dead, in the pass those who do
\* are not asleep.
LEMMA ElderWhere ==
  ASSUME ElderInv, NEW s \in Registered, Elder(s)
  PROVE  /\ due[s] = 0
         /\ dead[slotOf[awaiting[s]]] =>
              phase # "reap" /\ slotOf[awaiting[s]] \in Registered /\ ToBeVisited(s)
  BY DEF ElderInv

\* The reaping registers nobody.
LEMMA ReapRegistered ==
  ASSUME SchedulerInv, Reap \/ EndReap
  PROVE  Registered' \subseteq Registered
<1>t. /\ kept \in Nat /\ index \in Nat /\ tasks \in Seq(Slots) /\ Len(tasks) \in Nat
      /\ phase = "reap" /\ kept < index /\ index <= Len(tasks) + 1
  BY DEF Reap, EndReap, SchedulerInv, TypeOK, LoopInv
<1>p. Places = (1 .. kept) \cup (index .. Len(tasks))
  BY <1>t DEF Places
<1>1. CASE Reap
  <2>0. phase' = "reap" /\ index' = index + 1 /\ index <= Len(tasks)
    BY <1>1 DEF Reap
  <2>1. CASE UNCHANGED <<tasks, kept>>
    <3>1. Places' \subseteq Places
      BY <2>0, <2>1, <1>t, <1>p DEF Places
    <3>. QED BY <3>1, <2>1 DEF Registered
  <2>2. CASE tasks' = [tasks EXCEPT ![kept + 1] = Visited] /\ kept' = kept + 1
    <3>1. kept + 1 \in 1 .. Len(tasks) /\ index \in Places
      BY <2>0, <1>t, <1>p
    <3>2. /\ Len(tasks') = Len(tasks) /\ tasks'[kept + 1] = tasks[index]
          /\ \A i \in 1 .. Len(tasks) : i # kept + 1 => tasks'[i] = tasks[i]
      BY <2>2, <3>1, <1>t DEF Visited
    <3>3. Places' = (1 .. kept + 1) \cup (index + 1 .. Len(tasks))
      BY <2>0, <2>2, <3>2 DEF Places
    <3>4. ASSUME NEW i \in Places' PROVE tasks'[i] \in Registered
      <4>1. CASE i = kept + 1
        BY <4>1, <3>1, <3>2 DEF Registered
      <4>2. CASE i # kept + 1
        <5>1. i \in Places /\ i \in 1 .. Len(tasks)
          BY <4>2, <3>1, <3>3, <1>t, <1>p
        <5>. QED BY <5>1, <4>2, <3>2 DEF Registered
      <4>. QED BY <4>1, <4>2
    <3>. QED BY <3>4 DEF Registered
  <2>. QED BY <1>1, <2>1, <2>2 DEF Reap
<1>2. CASE EndReap
  <2>1. tasks' = SubSeq(tasks, 1, kept) /\ phase' # "reap" /\ kept <= Len(tasks)
    BY <1>2, <1>t DEF EndReap
  <2>2. Len(tasks') = kept /\ \A i \in 1 .. kept : tasks'[i] = tasks[i]
    BY <1>t, <2>1
  <2>3. Places' = 1 .. kept /\ 1 .. kept \subseteq Places
    BY <1>p, <2>1, <2>2 DEF Places
  <2>. QED BY <2>2, <2>3 DEF Registered
<1>. QED BY <1>1, <1>2

\* The loop and the clock.
LEMMA LoopElders ==
  ASSUME SchedulerInv, ElderInv, LoopStep \/ Tick \/ UNCHANGED vars
  PROVE  ElderInv'
<1>t. /\ index \in Nat /\ index > 0 /\ Len(tasks) \in Nat /\ tasks \in Seq(Slots)
      /\ due \in [Slots -> 0 .. MaxSleep]
  BY DEF SchedulerInv, TypeOK
<1>0. UNCHANGED <<dead, awaiting, fresh, slotOf, occupant>>
  BY DEF LoopStep, Skip, BeginTurn, Crash, EndPass, Reap, EndReap, Tick, structs, history, vars
<1>1. CASE Skip
  <2>1. /\ phase = "scan" /\ phase' = "scan" /\ index' = index + 1 /\ due' = due
        /\ tasks' = tasks /\ (dead[Visited] \/ due[Visited] > 0)
    BY <1>1 DEF Skip, Advance, pool, structs
  <2>2. Registered' = Registered
    BY <2>1, AllPlaces DEF Registered
  <2>3. ASSUME NEW s \in Registered', Elder(s), dead[slotOf[awaiting[s]]]
        PROVE  ToBeVisited(s)'
    <3>1. PICK i \in index .. Len(tasks) : tasks[i] = s
      BY <2>2, <2>3, ElderWhere DEF ToBeVisited
    <3>2. s # Visited
      <4>1. ~dead[s] /\ due[s] = 0
        BY <2>2, <2>3, ElderWhere DEF Elder
      <4>. QED BY <4>1, <2>1
    <3>3. i \in index + 1 .. Len(tasks)
      BY <3>1, <3>2, <1>t DEF Visited
    <3>. QED BY <3>1, <3>3, <2>1 DEF ToBeVisited
  <2>. QED BY <1>0, <2>1, <2>2, <2>3, ElderWhere, SameElders
<1>2. CASE BeginTurn \/ Crash
  <2>1. phase # "reap" /\ phase' # "reap" /\ index' = index /\ due' = due /\ tasks' = tasks
    BY <1>2 DEF BeginTurn, Crash, pool, structs
  <2>2. Registered' = Registered
    BY <2>1, AllPlaces DEF Registered
  <2>. QED BY <1>0, <2>1, <2>2, ElderWhere, SameElders DEF ToBeVisited
<1>3. CASE EndPass
  <2>1. /\ phase = "scan" /\ phase' = "reap" /\ index > Len(tasks) /\ index' = 1 /\ kept' = 0
        /\ due' = due /\ tasks' = tasks
    BY <1>3 DEF EndPass, pool, structs
  <2>2. Places' = Places
    BY <2>1, <1>t DEF Places
  <2>3. Registered' = Registered
    BY <2>1, <2>2 DEF Registered
  <2>4. ASSUME NEW s \in Registered, Elder(s) PROVE ~dead[slotOf[awaiting[s]]]
    BY <2>1, <2>4, <1>t, ElderWhere DEF ToBeVisited
  <2>. QED BY <1>0, <2>1, <2>3, <2>4, ElderWhere, SameElders
<1>4. CASE Reap \/ EndReap
  <2>1. phase = "reap" /\ due' = due
    BY <1>4 DEF Reap, EndReap, structs
  <2>2. Registered' \subseteq Registered
    BY <1>4, ReapRegistered
  <2>3. ASSUME NEW s \in Registered', Elder(s) PROVE due[s] = 0 /\ ~dead[slotOf[awaiting[s]]]
    BY <2>1, <2>2, <2>3, ElderWhere
  <2>. QED BY <1>0, <2>1, <2>2, <2>3, SameElders
<1>5. CASE Tick \/ UNCHANGED vars
  <2>1. tasks' = tasks /\ phase' = phase /\ index' = index /\ kept' = kept
    BY <1>5 DEF Tick, pool, loop, vars
  <2>2. Registered' = Registered
    BY <2>1 DEF Registered, Places
  <2>3. ASSUME NEW s \in Registered, Elder(s) PROVE due'[s] = 0
    <3>1. s \in Slots /\ due[s] = 0
      BY <2>3, ElderFacts, ElderWhere
    <3>. QED BY <3>1, <1>5, <1>t DEF Tick, vars, structs
  <2>. QED BY <1>0, <2>1, <2>2, <2>3, ElderWhere, SameElders DEF ToBeVisited
<1>. QED BY <1>1, <1>2, <1>3, <1>4, <1>5 DEF LoopStep

\* A turn that ends takes the loop past the task whose turn it was, and past no other.
LEMMA PassedBy ==
  ASSUME SchedulerInv, phase = "turn", tasks' = tasks, index' = index + 1,
         NEW s, s # Visited, ToBeVisited(s)
  PROVE  ToBeVisited(s)'
<1>1. index \in Nat /\ Len(tasks) \in Nat
  BY TurnFacts
<1>2. PICK i \in index .. Len(tasks) : tasks[i] = s
  BY DEF ToBeVisited
<1>3. i \in index + 1 .. Len(tasks)
  BY <1>1, <1>2 DEF Visited
<1>. QED BY <1>2, <1>3 DEF ToBeVisited

LEMMA SleepElders ==
  ASSUME SchedulerInv, ElderInv, Sleep \/ Propagate
  PROVE  ElderInv'
<1>1. /\ phase = "turn" /\ phase' = "scan" /\ index' = index + 1 /\ awaiting[Visited] = None
      /\ tasks' = tasks /\ UNCHANGED <<dead, awaiting, fresh, slotOf, occupant>>
      /\ due' = due \/ \E d \in 0 .. MaxSleep : due' = [due EXCEPT ![Visited] = d]
  BY DEF Sleep, Propagate, Ready, Advance, pool, history
<1>2. Registered' = Registered
  BY <1>1, AllPlaces DEF Registered
<1>3. ASSUME NEW s \in Registered, Elder(s) PROVE s # Visited /\ due'[s] = 0
  <2>1. s # Visited
    BY <1>1, <1>3 DEF Elder, Waits
  <2>2. due[s] = 0 /\ s \in Slots /\ due \in [Slots -> 0 .. MaxSleep]
    BY <1>3, ElderFacts, ElderWhere DEF SchedulerInv, TypeOK
  <2>. QED BY <2>1, <2>2, <1>1
<1>. QED BY <1>1, <1>2, <1>3, ElderWhere, PassedBy, SameElders

\* The task whose turn it is ends: who waits for it and was spawned later is further on.
LEMMA DieElders ==
  ASSUME SchedulerInv, InOrder, ElderInv, Return \/ Fail
  PROVE  ElderInv'
<1>. DEFINE v == Visited
<1>t. TypeOK
  BY DEF SchedulerInv
<1>1. /\ phase = "turn" /\ phase' = "scan" /\ index' = index + 1
      /\ tasks' = tasks /\ UNCHANGED <<awaiting, due, fresh, slotOf, occupant>>
      /\ dead' = [dead EXCEPT ![v] = TRUE]
  BY DEF Return, Fail, Die, Ready, Advance, pool
<1>2. Registered' = Registered /\ Places = 1 .. Len(tasks)
  BY <1>1, AllPlaces, TurnFacts DEF Registered
<1>3. /\ v \in Slots /\ v \in Registered /\ index \in Places /\ tasks[index] = v
      /\ index \in Nat /\ Len(tasks) \in Nat
  BY <1>1, TurnFacts
<1>4. dead'[v] /\ \A s \in Slots : s # v => dead'[s] = dead[s]
  BY <1>1, <1>3, <1>t DEF TypeOK
<1>. SUFFICES ASSUME NEW s \in Registered, Elder(s)'
              PROVE  /\ due[s] = 0
                     /\ occupant[slotOf[awaiting[s]]] = awaiting[s]
                     /\ dead'[slotOf[awaiting[s]]] =>
                          slotOf[awaiting[s]] \in Registered /\ ToBeVisited(s)'
  BY <1>1, <1>2 DEF ElderInv
<1>5. s # v /\ Elder(s)
  <2>1. s \in Slots
    BY <1>t DEF SchedulerInv, PoolPartition, TypeOK
  <2>2. ~dead'[s] /\ Waits(s) /\ awaiting[s] < occupant[s]
    BY <1>1 DEF Elder, Waits
  <2>. QED BY <2>1, <2>2, <1>4 DEF Elder
<1>6. /\ due[s] = 0 /\ occupant[slotOf[awaiting[s]]] = awaiting[s]
      /\ slotOf[awaiting[s]] \in Registered /\ slotOf[awaiting[s]] \in Slots
  BY <1>5, ElderFacts DEF ElderInv
<1>7. CASE slotOf[awaiting[s]] = v
  <2>1. PICK j \in Places : tasks[j] = s
    BY DEF Registered
  <2>2. occupant[tasks[index]] < occupant[tasks[j]]
    BY <2>1, <1>3, <1>5, <1>6, <1>7 DEF Elder
  <2>3. ~(j < index) /\ j # index
    <3>1. /\ occupant[tasks[j]] \in Int /\ occupant[tasks[index]] \in Int
      <4>1. s \in heap /\ v \in heap
        BY <1>5, <1>1, ElderFacts, TurnFacts
      <4>. QED BY <4>1, <2>1, <1>3, <1>t DEF SchedulerInv, StructInv, TypeOK
    <3>2. j < index => occupant[tasks[j]] < occupant[tasks[index]]
      BY <2>1, <1>3 DEF InOrder
    <3>. QED BY <3>1, <3>2, <2>1, <2>2, <1>3, <1>5
  <2>4. j \in index + 1 .. Len(tasks)
    BY <2>3, <2>1, <1>2, <1>3
  <2>. QED BY <2>1, <2>4, <1>1, <1>6 DEF ToBeVisited
<1>8. CASE slotOf[awaiting[s]] # v
  <2>1. dead'[slotOf[awaiting[s]]] = dead[slotOf[awaiting[s]]]
    BY <1>4, <1>6, <1>8
  <2>. QED BY <2>1, <1>1, <1>5, <1>6, ElderWhere, PassedBy
<1>. QED BY <1>6, <1>7, <1>8

\* A spawn takes a struct that nobody who waits in order is waiting for.
LEMMA SpawnElders ==
  ASSUME SchedulerInv, ElderInv, Spawn
  PROVE  ElderInv'
<1>. DEFINE h == spawned'
<1>t. TypeOK
  BY DEF SchedulerInv
<1>1. /\ phase = "turn" /\ phase' = "turn" /\ index' = index
      /\ spawned' = spawned + 1 /\ spawned \in Nat /\ spawned' \in Handles
  BY <1>t, SpawnsAssumption DEF Spawn, loop, TypeOK, Handles
<1>2. PICK n \in Slots : NewSlot(n) /\ Register(n, h)
  BY DEF Spawn
<1>3. n \notin Registered
  BY <1>2, NewSlotFacts
<1>4. /\ tasks' = Append(tasks, n) /\ awaiting'[n] = None
      /\ slotOf'[h] = n /\ \A x \in Handles : x # h => slotOf'[x] = slotOf[x]
      /\ \A s \in Slots : s # n => /\ dead'[s] = dead[s] /\ due'[s] = due[s]
                                   /\ awaiting'[s] = awaiting[s] /\ fresh'[s] = fresh[s]
                                   /\ occupant'[s] = occupant[s]
  BY <1>1, <1>2, <1>t DEF Register, TypeOK
<1>5. /\ Len(tasks') = Len(tasks) + 1 /\ tasks'[Len(tasks) + 1] = n /\ Len(tasks) \in Nat
      /\ \A i \in 1 .. Len(tasks) : tasks'[i] = tasks[i]
  BY <1>4, <1>t DEF TypeOK
<1>6. Registered' = Registered \cup {n}
  <2>1. Places = 1 .. Len(tasks) /\ Places' = 1 .. Len(tasks) + 1
    BY <1>1, <1>5 DEF Places
  <2>. QED BY <2>1, <1>5 DEF Registered
<1>. SUFFICES ASSUME NEW s \in Registered', Elder(s)'
              PROVE  /\ due'[s] = 0
                     /\ occupant'[slotOf'[awaiting'[s]]] = awaiting'[s]
                     /\ dead'[slotOf'[awaiting'[s]]] =>
                          slotOf'[awaiting'[s]] \in Registered' /\ ToBeVisited(s)'
  BY <1>1 DEF ElderInv
<1>7. s # n
  BY <1>4 DEF Elder, Waits
<1>8. s \in Registered /\ s \in Slots
  BY <1>6, <1>7, <1>t DEF SchedulerInv, PoolPartition, TypeOK
<1>9. Elder(s)
  BY <1>4, <1>7, <1>8 DEF Elder, Waits
<1>10. /\ awaiting[s] \in Handles /\ awaiting[s] # h
       /\ slotOf[awaiting[s]] \in Slots /\ slotOf[awaiting[s]] # n /\ slotOf[awaiting[s]] \in Registered
  <2>1. awaiting[s] <= spawned /\ awaiting[s] \in Handles
    BY <1>8, <1>9, ElderFacts
  <2>2. awaiting[s] # h
    BY <2>1, <1>1 DEF Handles
  <2>. QED BY <2>1, <2>2, <1>3, <1>8, <1>9, ElderFacts
<1>11. ToBeVisited(s) => ToBeVisited(s)'
  <2>. SUFFICES ASSUME NEW i \in index .. Len(tasks), tasks[i] = s
                PROVE  ToBeVisited(s)'
    BY DEF ToBeVisited
  <2>1. i \in index .. Len(tasks) + 1 /\ i \in 1 .. Len(tasks)
    BY <1>5, <1>t DEF TypeOK
  <2>. QED BY <2>1, <1>1, <1>5 DEF ToBeVisited
<1>. QED BY <1>4, <1>6, <1>7, <1>8, <1>9, <1>10, <1>11 DEF ElderInv

\* BC_AWAIT: the one whose turn it is begins to wait, goes on waiting or is answered.
LEMMA AwaitElders ==
  ASSUME SchedulerInv, ElderInv, Await \/ Resume
  PROVE  ElderInv'
<1>. DEFINE v == Visited
<1>t. TypeOK
  BY DEF SchedulerInv
<1>1. PICK h \in Handles \cup {None} :
        /\ phase = "turn" /\ (awaiting[v] = None \/ awaiting[v] = h)
        /\ AwaitOn(v, h)
        /\ UNCHANGED <<pool, dead, frames, due, result, slotOf, occupant, spawned, ended, outcome>>
  <2>1. CASE Await
    BY <2>1 DEF Await, Ready
  <2>2. CASE Resume
    <3>1. awaiting[v] \in Handles \cup {None}
      BY <2>2, TurnFacts, <1>t DEF Resume, TypeOK
    <3>. QED BY <2>2, <3>1 DEF Resume
  <2>. QED BY <2>1, <2>2
<1>2. /\ tasks' = tasks /\ UNCHANGED <<dead, due, slotOf, occupant>> /\ phase' # "reap"
  BY <1>1 DEF pool, AwaitOn, Advance, loop
<1>3. v \in Slots /\ due[v] = 0
  BY <1>1, TurnFacts
<1>4. Registered' = Registered
  BY <1>1, <1>2, AllPlaces DEF Registered
<1>5. \A s \in Slots : s # v => awaiting'[s] = awaiting[s] /\ fresh'[s] = fresh[s]
  BY <1>1, <1>3, <1>t DEF AwaitOn, TypeOK
<1>. SUFFICES ASSUME NEW s \in Registered, Elder(s)'
              PROVE  /\ due[s] = 0
                     /\ occupant[slotOf[awaiting'[s]]] = awaiting'[s]
                     /\ dead[slotOf[awaiting'[s]]] =>
                          slotOf[awaiting'[s]] \in Registered /\ ToBeVisited(s)'
  BY <1>2, <1>4 DEF ElderInv
<1>6. s \in Slots
  BY <1>t DEF SchedulerInv, PoolPartition, TypeOK
<1>7. CASE s # v
  <2>1. Elder(s) /\ awaiting'[s] = awaiting[s]
    BY <1>2, <1>5, <1>6, <1>7 DEF Elder, Waits
  <2>2. ToBeVisited(s) => ToBeVisited(s)'
    <3>1. index' = index \/ index' = index + 1
      BY <1>1 DEF AwaitOn, Advance, loop
    <3>. QED BY <3>1, <1>1, <1>2, <1>7, PassedBy DEF ToBeVisited
  <2>. QED BY <2>1, <2>2 DEF ElderInv
<1>8. CASE s = v
  <2>1. CASE dead[slotOf[h]]
    <3>1. awaiting'[v] = None
      BY <2>1, <1>1, <1>3, <1>t DEF AwaitOn, TypeOK
    <3>. QED BY <3>1, <1>8 DEF Elder, Waits
  <2>2. CASE ~dead[slotOf[h]]
    <3>1. /\ awaiting'[v] = h
          /\ fresh'[v] = IF awaiting[v] = None THEN occupant[slotOf[h]] = h ELSE fresh[v]
      BY <2>2, <1>1, <1>3, <1>t DEF AwaitOn, TypeOK
    <3>2. fresh'[v] /\ h < occupant[v] /\ h # None /\ ~dead[v]
      BY <3>1, <1>2, <1>8 DEF Elder, Waits
    <3>3. occupant[slotOf[h]] = h
      <4>1. CASE awaiting[v] = None
        BY <4>1, <3>1, <3>2
      <4>2. CASE awaiting[v] # None
        <5>1. awaiting[v] = h /\ Elder(v)
          BY <4>2, <3>1, <3>2, <1>1 DEF Elder, Waits
        <5>. QED BY <5>1, <1>8 DEF ElderInv
      <4>. QED BY <4>1, <4>2
    <3>. QED BY <3>1, <3>3, <2>2, <1>3, <1>8
  <2>. QED BY <2>1, <2>2
<1>. QED BY <1>7, <1>8

LEMMA EldersStep ==
  ASSUME SchedulerInv, InOrder, ElderInv, [Next]_vars
  PROVE  ElderInv'
  BY LoopElders, SleepElders, DieElders, SpawnElders, AwaitElders DEF Next, TurnStep

\* What an await gave is the outcome of a task that has ended, which stands.
LEMMA LastStep ==
  ASSUME SchedulerInv, ElderInv, ElderLast, [Next]_vars
  PROVE  ElderLast'
<1>. DEFINE v == Visited
<1>t. TypeOK
  BY DEF SchedulerInv
<1>1. CASE UNCHANGED <<lastAwait, ended, outcome>>
  BY <1>1 DEF ElderLast
<1>2. CASE Return \/ Fail \/ Propagate
  <2>1. /\ phase = "turn" /\ lastAwait' = lastAwait /\ ended' = ended \cup {occupant[v]}
        /\ \/ outcome' = outcome
           \/ \E r \in Handles \cup {Nil} : outcome' = [outcome EXCEPT ![occupant[v]] = r]
    <3>1. CASE Propagate
      BY <3>1 DEF Propagate, Ready
    <3>2. CASE Return \/ Fail
      <4>1. phase = "turn"
        BY <3>2 DEF Return, Fail, Ready
      <4>. QED BY <4>1, <3>2, TurnFacts DEF Return, Fail, Die, Ready
    <3>. QED BY <1>2, <3>1, <3>2
  <2>2. occupant[v] \notin ended
    BY <2>1, TurnFacts
  <2>. SUFFICES ASSUME lastAwait # None, lastAwait.fresh, lastAwait.handle < lastAwait.by
                PROVE  lastAwait.handle \in ended' /\ lastAwait.value = outcome'[lastAwait.handle]
    BY <2>1 DEF ElderLast
  <2>3. lastAwait.handle \in ended /\ lastAwait.value = outcome[lastAwait.handle]
    BY DEF ElderLast
  <2>. QED BY <2>1, <2>2, <2>3, <1>t DEF TypeOK
<1>3. CASE Await \/ Resume
  <2>1. PICK h \in Handles \cup {None} :
          /\ phase = "turn" /\ (awaiting[v] = None \/ awaiting[v] = h) /\ AwaitOn(v, h)
          /\ ended' = ended /\ outcome' = outcome
          /\ slotOf[h] # None /\ h \in Handles
    <3>1. CASE Await
      BY <3>1 DEF Await, Ready
    <3>2. CASE Resume
      <4>1. v \in Slots /\ awaiting[v] # None /\ awaiting[v] \in Handles /\ awaiting[v] <= spawned
        BY <3>2, TurnFacts, <1>t DEF Resume, TypeOK, SchedulerInv, StructInv
      <4>2. slotOf[awaiting[v]] # None
        <5>1. awaiting[v] \in Nat /\ spawned \in Nat /\ ~(awaiting[v] > spawned)
          BY <4>1, <1>t DEF Handles, TypeOK
        <5>. QED BY <5>1, <4>1 DEF SchedulerInv, StructInv
      <4>. QED BY <4>1, <4>2, <3>2 DEF Resume
    <3>. QED BY <1>3, <3>1, <3>2
  <2>2. CASE ~dead[slotOf[h]]
    BY <2>1, <2>2 DEF AwaitOn, ElderLast
  <2>3. CASE dead[slotOf[h]]
    <3>1. lastAwait' = [by |-> occupant[v], handle |-> h, value |-> result[slotOf[h]],
                        fresh |-> IF awaiting[v] = None THEN occupant[slotOf[h]] = h ELSE fresh[v]]
      BY <2>1, <2>3 DEF AwaitOn
    <3>. SUFFICES ASSUME IF awaiting[v] = None THEN occupant[slotOf[h]] = h ELSE fresh[v],
                         h < occupant[v]
                  PROVE  h \in ended /\ result[slotOf[h]] = outcome[h]
      BY <2>1, <3>1 DEF ElderLast
    <3>2. occupant[slotOf[h]] = h
      <4>1. CASE awaiting[v] # None
        <5>1. v \in Registered /\ ~dead[v] /\ awaiting[v] = h
          BY <4>1, <2>1, TurnFacts
        <5>2. Elder(v)
          BY <4>1, <5>1 DEF Elder, Waits
        <5>. QED BY <5>1, <5>2 DEF ElderInv
      <4>. QED BY <4>1
    <3>3. slotOf[h] \in heap
      BY <2>1 DEF SchedulerInv, StructInv
    <3>. QED BY <2>3, <3>2, <3>3 DEF SchedulerInv, StructInv
  <2>. QED BY <2>2, <2>3
<1>. QED BY <1>1, <1>2, <1>3
         DEF Next, LoopStep, TurnStep, Skip, BeginTurn, Crash, EndPass, Reap, EndReap, Tick, Sleep,
             Spawn, history, vars

\* A task that waits for one that was spawned before it, and was in place when the
\* await began, is given that task's value, although Task structs are recycled while
\* it waits: for any number of structs and of spawns.
THEOREM ElderAwaitIsSound == Spec => []ElderAwaitSound
<1>1. Init => SchedulerInv /\ InOrder /\ ElderInv /\ ElderLast
  <2>. SUFFICES ASSUME Init PROVE ElderInv /\ ElderLast
    BY InitInv, InitOrder
  <2>1. lastAwait = None /\ \A s \in Slots : ~fresh[s]
    BY DEF Init
  <2>2. Registered \subseteq Slots
    BY InitInv DEF SchedulerInv, PoolPartition, TypeOK
  <2>. QED BY <2>1, <2>2 DEF ElderInv, ElderLast, Elder, Waits
<1>2. SchedulerInv /\ InOrder /\ ElderInv /\ ElderLast /\ [Next]_vars
        => SchedulerInv' /\ InOrder' /\ ElderInv' /\ ElderLast'
  BY StepInv, OrderStep, EldersStep, LastStep
<1>3. SchedulerInv /\ ElderInv /\ ElderLast => ElderAwaitSound
  BY DEF ElderInv, ElderLast, Elder, ElderAwaitSound
<1>. QED BY <1>1, <1>2, <1>3, PTL DEF Spec

-----------------------------------------------------------------------------
(* Turns by rota: each step of the scheduler is one of module Rota, or none. *)

\* A task that runs is in the struct its handle points to, and in no other place.
LEMMA LiveInPlace ==
  ASSUME SchedulerInv, NEW h \in Live
  PROVE  /\ h \in Handles /\ h \in 0 .. spawned /\ h \notin ended
         /\ slotOf[h] \in Registered /\ slotOf[h] \in Slots /\ occupant[slotOf[h]] = h
         /\ ~dead[slotOf[h]] /\ frames[slotOf[h]] = 1
<1>1. h \in Handles /\ Running(h)
  BY DEF Live
<1>2. slotOf[h] \in heap /\ heap \subseteq Slots /\ spawned \in Nat
  BY <1>1 DEF SchedulerInv, RunningInPlace, PoolPartition, TypeOK
<1>. QED BY <1>1, <1>2 DEF SchedulerInv, RunningInPlace, Running

\* The task at index is the next one, if it runs; behind it are the others.
Behind == {h \in Live : \E i \in index + 1 .. Len(tasks) : tasks[i] = slotOf[h]}

LEMMA NextVisited ==
  ASSUME SchedulerInv, InOrder, phase = "scan", index <= Len(tasks)
  PROVE  \/ /\ Left = Behind
            /\ \A h \in Live : slotOf[h] # tasks[index]
         \/ \E h \in Live : /\ slotOf[h] = tasks[index] /\ occupant[tasks[index]] = h
                            /\ h \in Left /\ Behind = Left \ {h}
                            /\ \A u \in Left : h <= u
<1>1. index \in Nat /\ index > 0 /\ tasks \in Seq(Slots) /\ Len(tasks) \in Nat
  BY DEF SchedulerInv, TypeOK
<1>2. Places = 1 .. Len(tasks) /\ ToVisit = index .. Len(tasks)
  BY DEF Places, ToVisit
<1>3. /\ index \in Places /\ index \in ToVisit /\ ToVisit \subseteq Places
      /\ \A i \in ToVisit : i = index \/ i \in index + 1 .. Len(tasks)
      /\ \A i \in index + 1 .. Len(tasks) : i \in ToVisit /\ i # index /\ i > index
  BY <1>1, <1>2
<1>4. \A i \in index + 1 .. Len(tasks) : tasks[i] # tasks[index]
  BY <1>3 DEF SchedulerInv, PoolPartition
<1>5. CASE \A h \in Live : slotOf[h] # tasks[index]
  BY <1>3, <1>5 DEF Left, Behind
<1>6. ASSUME NEW h \in Live, slotOf[h] = tasks[index]
      PROVE  /\ occupant[tasks[index]] = h
             /\ h \in Left /\ Behind = Left \ {h}
             /\ \A u \in Left : h <= u
  <2>1. occupant[tasks[index]] = h /\ h \in Left /\ h \in Nat
    BY <1>3, <1>6, LiveInPlace DEF Left
  <2>2. Behind = Left \ {h}
    <3>1. h \notin Behind
      BY <1>4, <1>6 DEF Behind
    <3>2. ASSUME NEW u \in Left, u # h PROVE u \in Behind
      <4>1. PICK i \in ToVisit : tasks[i] = slotOf[u]
        BY DEF Left
      <4>2. i # index
        BY <2>1, <3>2, <4>1, LiveInPlace DEF Left
      <4>. QED BY <1>3, <4>1, <4>2 DEF Left, Behind
    <3>3. Behind \subseteq Left
      BY <1>3 DEF Left, Behind
    <3>. QED BY <3>1, <3>2, <3>3
  <2>3. ASSUME NEW u \in Left PROVE h <= u
    <3>1. PICK i \in ToVisit : tasks[i] = slotOf[u]
      BY DEF Left
    <3>2. occupant[tasks[i]] = u /\ u \in Nat
      BY <3>1, LiveInPlace DEF Left
    <3>3. CASE i = index
      BY <2>1, <3>2, <3>3
    <3>4. CASE i # index
      <4>1. index < i /\ i \in Places
        BY <1>3, <3>4
      <4>2. h < u
        BY <1>3, <2>1, <3>2, <4>1 DEF InOrder
      <4>. QED BY <2>1, <3>2, <4>2
    <3>. QED BY <3>3, <3>4
  <2>. QED BY <2>1, <2>2, <2>3
<1>. QED BY <1>5, <1>6

\* What a step leaves alone.
LEMMA SameTasks ==
  ASSUME UNCHANGED <<spawned, ended, slotOf>>
  PROVE  /\ Live' = Live
         /\ UNCHANGED due => Sleepers' = Sleepers
         /\ UNCHANGED tasks /\ ToVisit' = ToVisit => Left' = Left
<1>1. Live' = Live
  BY DEF Live, Running
<1>. QED BY <1>1 DEF Sleepers, Left

LEMMA SkipRota ==
  ASSUME SchedulerInv, InOrder, Skip
  PROVE  [Rota!Next]_(Rota!vars)
<1>1. /\ phase = "scan" /\ phase' = "scan" /\ index <= Len(tasks) /\ index' = index + 1
      /\ dead[tasks[index]] \/ due[tasks[index]] > 0
      /\ UNCHANGED <<tasks, due, spawned, ended, slotOf>>
  BY DEF Skip, Visited, Advance, pool, structs, history
<1>2. Live' = Live /\ Sleepers' = Sleepers
  BY <1>1, SameTasks
<1>3. OnTurn = None /\ OnTurn' = None
  BY <1>1 DEF OnTurn
<1>4. ToVisit' = index + 1 .. Len(tasks)
  BY <1>1 DEF ToVisit
<1>5. Left' = Behind
  BY <1>1, <1>2, <1>4 DEF Left, Behind
<1>6. CASE Left = Behind
  BY <1>1, <1>2, <1>3, <1>5, <1>6 DEF Rota!vars
<1>7. ASSUME NEW h \in Live, slotOf[h] = tasks[index], h \in Left, Behind = Left \ {h},
             \A u \in Left : h <= u
      PROVE  Rota!PassOver(h)
  <2>1. h \in Sleepers
    BY <1>1, <1>7, LiveInPlace DEF Sleepers
  <2>. QED BY <1>1, <1>2, <1>3, <1>5, <1>7, <2>1 DEF Rota!PassOver, Rota!IsNext
<1>. QED BY <1>1, <1>6, <1>7, NextVisited DEF Rota!Next

LEMMA BeginTurnRota ==
  ASSUME SchedulerInv, InOrder, BeginTurn
  PROVE  Rota!Next
<1>1. /\ phase = "scan" /\ phase' = "turn" /\ index <= Len(tasks) /\ index' = index
      /\ ~dead[tasks[index]] /\ due[tasks[index]] = 0 /\ frames[tasks[index]] > 0
      /\ UNCHANGED <<tasks, due, spawned, ended, slotOf, occupant>>
  BY DEF BeginTurn, Visited, pool, structs, history
<1>2. Live' = Live /\ Sleepers' = Sleepers
  BY <1>1, SameTasks
<1>3. OnTurn = None /\ OnTurn' = occupant[tasks[index]]
  BY <1>1 DEF OnTurn, Visited
<1>4. ToVisit' = index + 1 .. Len(tasks)
  BY <1>1 DEF ToVisit
<1>5. Left' = Behind
  BY <1>1, <1>2, <1>4 DEF Left, Behind
<1>6. \E h \in Live : slotOf[h] = tasks[index]
  <2>1. index \in Places
    BY <1>1 DEF Places, SchedulerInv, TypeOK
  <2>2. tasks[index] \in heap /\ heap \subseteq Slots
    BY <2>1 DEF Registered, SchedulerInv, PoolPartition, TypeOK
  <2>3. frames[tasks[index]] = 1
    BY <1>1, <2>2 DEF SchedulerInv, TypeOK
  <2>. DEFINE h == occupant[tasks[index]]
  <2>4. h \in 0 .. spawned /\ slotOf[h] = tasks[index] /\ h \notin ended
    BY <1>1, <2>2, <2>3 DEF SchedulerInv, StructInv
  <2>5. spawned \in 0 .. MaxSpawns
    BY DEF SchedulerInv, TypeOK
  <2>. HIDE DEF h
  <2>6. h \in Live
    BY <2>4, <2>5 DEF Live, Running
  <2>. QED BY <2>4, <2>6
<1>7. PICK h \in Live : /\ slotOf[h] = tasks[index] /\ occupant[tasks[index]] = h
                        /\ h \in Left /\ Behind = Left \ {h}
                        /\ \A u \in Left : h <= u
  BY <1>1, <1>6, NextVisited
<1>8. h \notin Sleepers
  BY <1>1, <1>7 DEF Sleepers
<1>9. Rota!Begin(h)
  BY <1>1, <1>2, <1>3, <1>5, <1>7, <1>8 DEF Rota!Begin, Rota!IsNext
<1>. QED BY <1>7, <1>9 DEF Rota!Next

\* The pass ends when every task was visited; the next one is over all that run.
LEMMA PassesRota ==
  ASSUME SchedulerInv, SchedulerInv', Crash \/ EndPass \/ Reap \/ EndReap
  PROVE  [Rota!Next]_(Rota!vars)
<1>1. UNCHANGED <<due, spawned, ended, slotOf>>
  BY DEF Crash, EndPass, Reap, EndReap, structs, history
<1>2. Live' = Live /\ Sleepers' = Sleepers
  BY <1>1, SameTasks
<1>3. OnTurn = None /\ OnTurn' = None
  BY DEF Crash, EndPass, Reap, EndReap, OnTurn
<1>4. CASE Crash
  <2>1. UNCHANGED tasks /\ ToVisit' = ToVisit
    BY <1>4 DEF Crash, pool, ToVisit
  <2>. QED BY <1>1, <1>2, <1>3, <2>1, SameTasks DEF Rota!vars
<1>5. CASE EndPass \/ Reap
  <2>1. phase' = "reap" /\ (phase = "reap" \/ (phase = "scan" /\ index > Len(tasks)))
    BY <1>5 DEF EndPass, Reap
  <2>2. ToVisit = {} /\ ToVisit' = {}
    BY <2>1 DEF ToVisit, SchedulerInv, TypeOK
  <2>3. Left = {} /\ Left' = {}
    BY <2>2 DEF Left
  <2>. QED BY <1>1, <1>2, <1>3, <2>3 DEF Rota!vars
<1>6. CASE EndReap
  <2>1. phase = "reap" /\ phase' \in {"scan", "halted"} /\ index' = 1
    BY <1>6 DEF EndReap
  <2>2. Left = {}
    BY <2>1 DEF Left, ToVisit
  <2>3. CASE phase' = "halted"
    <3>1. Left' = {}
      BY <2>3 DEF Left, ToVisit
    <3>. QED BY <1>1, <1>2, <1>3, <2>2, <3>1 DEF Rota!vars
  <2>4. CASE phase' = "scan"
    <3>1. ToVisit' = Places'
      BY <2>1, <2>4 DEF ToVisit, Places
    <3>2. \A h \in Live' : slotOf'[h] \in Registered'
      BY DEF Live, SchedulerInv, RunningInPlace
    <3>3. Left' = Live'
      BY <3>1, <3>2 DEF Left, Registered
    <3>4. Rota!NewPass
      BY <1>1, <1>2, <1>3, <2>2, <3>3 DEF Rota!NewPass
    <3>. QED BY <3>4 DEF Rota!Next
  <2>. QED BY <2>1, <2>3, <2>4
<1>. QED BY <1>4, <1>5, <1>6

LEMMA TickRota ==
  ASSUME SchedulerInv, Tick
  PROVE  Rota!Next
<1>1. /\ UNCHANGED <<tasks, spawned, ended, slotOf, occupant, phase, index>>
      /\ due' = [s \in Slots |-> IF due[s] > 0 THEN due[s] - 1 ELSE 0]
  BY DEF Tick, pool, loop, history
<1>2. Live' = Live /\ Left' = Left /\ OnTurn' = OnTurn
  BY <1>1, SameTasks DEF ToVisit, OnTurn, Visited
<1>3. Sleepers' \subseteq Sleepers
  <2>. SUFFICES ASSUME NEW h \in Live, due'[slotOf[h]] > 0 PROVE due[slotOf[h]] > 0
    BY <1>1, <1>2 DEF Sleepers
  <2>1. slotOf[h] \in Slots
    BY LiveInPlace
  <2>. QED BY <1>1, <2>1
<1>4. Sleepers' = Sleepers \ (Sleepers \ Sleepers') /\ Sleepers \ Sleepers' \in SUBSET Sleepers
  BY <1>3
<1>5. Rota!Wake(Sleepers \ Sleepers')
  BY <1>1, <1>2, <1>4 DEF Rota!Wake
<1>. QED BY <1>4, <1>5 DEF Rota!Next

\* Whose turn it is runs, does not sleep, and is not visited again in the pass.
LEMMA TurnRota ==
  ASSUME SchedulerInv, phase = "turn"
  PROVE  /\ OnTurn = occupant[Visited] /\ OnTurn # None /\ OnTurn \in Live
         /\ OnTurn \notin Sleepers /\ OnTurn \notin Left
         /\ slotOf[OnTurn] = Visited /\ Visited \in Slots
         /\ ToVisit = index + 1 .. Len(tasks)
<1>1. OnTurn = occupant[Visited] /\ ToVisit = index + 1 .. Len(tasks)
  BY DEF OnTurn, ToVisit
<1>2. OnTurn \in Live
  BY <1>1, TurnFacts DEF Live, Running
<1>3. slotOf[OnTurn] = Visited /\ Visited \in Slots /\ OnTurn \in Handles
  BY <1>1, TurnFacts
<1>4. OnTurn \notin Sleepers
  BY <1>3, TurnFacts DEF Sleepers
<1>5. OnTurn \notin Left
  <2>. SUFFICES ASSUME NEW i \in index + 1 .. Len(tasks), tasks[i] = tasks[index] PROVE FALSE
    BY <1>1, <1>3 DEF Left, Visited
  <2>1. i \in Places /\ index \in Places /\ i # index
    BY TurnFacts
  <2>. QED BY <2>1 DEF SchedulerInv, PoolPartition
<1>. QED BY <1>1, <1>2, <1>3, <1>4, <1>5

LEMMA SpawnRota ==
  ASSUME SchedulerInv, Spawn
  PROVE  Rota!Next
<1>1. PICK s \in Slots : /\ s \notin Registered /\ s # Visited /\ tasks' = Append(tasks, s)
                         /\ due' = [due EXCEPT ![s] = 0]
                         /\ slotOf' = [slotOf EXCEPT ![spawned'] = s]
                         /\ occupant' = [occupant EXCEPT ![s] = spawned']
  BY SpawnFacts
<1>2. /\ phase = "turn" /\ phase' = "turn" /\ index' = index
      /\ spawned' = spawned + 1 /\ spawned < MaxSpawns /\ ended' = ended
  BY DEF Spawn, loop
<1>3. /\ tasks \in Seq(Slots) /\ Len(tasks) \in Nat /\ spawned \in Nat /\ spawned' \in Handles
      /\ slotOf \in [Handles -> Slots \cup {None}] /\ due \in [Slots -> 0 .. MaxSleep]
      /\ occupant \in [Slots -> Handles \cup {None}] /\ spawned' \notin ended
      /\ index \in Nat /\ index <= Len(tasks) /\ index > 0
  <2>1. TypeOK /\ ended \subseteq 0 .. spawned
    BY DEF SchedulerInv, StructInv
  <2>2. spawned \in Nat
    BY <2>1 DEF TypeOK
  <2>3. spawned + 1 \notin ended /\ spawned + 1 \in 0 .. MaxSpawns
    BY <1>2, <2>1, <2>2
  <2>. QED BY <1>2, <2>1, <2>2, <2>3, TurnFacts DEF TypeOK
<1>4. /\ Len(tasks') = Len(tasks) + 1 /\ tasks'[Len(tasks) + 1] = s
      /\ \A i \in 1 .. Len(tasks) : tasks'[i] = tasks[i]
  BY <1>1, <1>3
<1>5. Live' = Live \cup {spawned'}
  <2>1. \A h \in Handles : h <= spawned' <=> h <= spawned \/ h = spawned'
    BY <1>2, <1>3
  <2>. QED BY <1>2, <1>3, <2>1 DEF Live, Running
<1>6. \A h \in Live : /\ h # spawned' /\ slotOf'[h] = slotOf[h] /\ slotOf[h] # s
                      /\ slotOf[h] \in Slots
  BY <1>1, <1>2, <1>3, LiveInPlace
<1>7. slotOf'[spawned'] = s /\ due'[s] = 0 /\ \A r \in Slots : r # s => due'[r] = due[r]
  BY <1>1, <1>3
<1>8. Sleepers' = Sleepers
  BY <1>5, <1>6, <1>7 DEF Sleepers
<1>9. Left' = Left \cup {spawned'}
  <2>1. ToVisit = index + 1 .. Len(tasks) /\ ToVisit' = index + 1 .. Len(tasks) + 1
    BY <1>2, <1>4 DEF ToVisit
  <2>2. /\ Len(tasks) + 1 \in ToVisit' /\ ToVisit \subseteq ToVisit'
        /\ \A i \in ToVisit' : i \in ToVisit \/ i = Len(tasks) + 1
        /\ \A i \in ToVisit : tasks'[i] = tasks[i]
    <3>. DEFINE n == Len(tasks)
    <3>1. /\ n \in Nat /\ index \in Nat /\ index <= n /\ index > 0
          /\ ToVisit = index + 1 .. n /\ ToVisit' = index + 1 .. n + 1
          /\ \A i \in 1 .. n : tasks'[i] = tasks[i]
      BY <1>3, <1>4, <2>1
    <3>. HIDE DEF n
    <3>2. /\ n + 1 \in ToVisit' /\ ToVisit \subseteq ToVisit'
          /\ \A i \in ToVisit' : i \in ToVisit \/ i = n + 1
          /\ \A i \in ToVisit : tasks'[i] = tasks[i]
      BY ONLY <3>1
    <3>. QED BY <3>2 DEF n
  <2>3. ASSUME NEW h \in Live PROVE h \in Left' <=> h \in Left
    <3>1. h \in Left' <=> \E i \in ToVisit' : tasks'[i] = slotOf[h]
      BY <1>5, <1>6 DEF Left
    <3>2. h \in Left <=> \E i \in ToVisit : tasks[i] = slotOf[h]
      BY DEF Left
    <3>. QED BY <1>4, <1>6, <2>2, <3>1, <3>2
  <2>4. spawned' \in Left'
    BY <1>4, <1>5, <1>7, <2>2 DEF Left
  <2>. QED BY <1>5, <2>3, <2>4 DEF Left
<1>10. OnTurn' = OnTurn /\ OnTurn # None
  <2>1. Visited' = Visited /\ Visited \in Slots
    BY <1>2, <1>3, <1>4, TurnFacts DEF Visited
  <2>. QED BY <1>1, <1>2, <1>3, <2>1, TurnRota DEF OnTurn
<1>11. Rota!Spawn
  BY <1>2, <1>5, <1>8, <1>9, <1>10 DEF Rota!Spawn
<1>. QED BY <1>11 DEF Rota!Next

\* A turn ends: the rest of the pass is as it was.
LEMMA TurnEnds ==
  ASSUME SchedulerInv, phase = "turn", Advance, UNCHANGED <<tasks, slotOf, spawned>>
  PROVE  /\ OnTurn' = None /\ ToVisit' = ToVisit
         /\ UNCHANGED ended => Live' = Live /\ Left' = Left
         /\ ended' = ended \cup {OnTurn} => Live' = Live \ {OnTurn} /\ Left' = Left
<1>1. OnTurn' = None /\ ToVisit' = ToVisit
  BY DEF Advance, OnTurn, ToVisit
<1>2. UNCHANGED ended => Live' = Live /\ Left' = Left
  BY <1>1, SameTasks
<1>3. ASSUME ended' = ended \cup {OnTurn} PROVE Live' = Live \ {OnTurn} /\ Left' = Left
  <2>1. Live' = Live \ {OnTurn}
    BY <1>3 DEF Live, Running
  <2>2. OnTurn \notin Left
    BY TurnRota
  <2>. QED BY <1>1, <2>1, <2>2 DEF Left
<1>. QED BY <1>1, <1>2, <1>3

LEMMA GiveWayRota ==
  ASSUME SchedulerInv, Sleep \/ Await \/ Resume
  PROVE  [Rota!Next]_(Rota!vars)
<1>1. phase = "turn" /\ UNCHANGED <<tasks, slotOf, occupant, spawned, ended>>
  BY DEF Sleep, Await, Resume, Ready, pool, history
<1>2. CASE UNCHANGED <<due, phase, index>>
  <2>1. Live' = Live /\ Sleepers' = Sleepers /\ Left' = Left /\ OnTurn' = OnTurn
    BY <1>1, <1>2, SameTasks DEF ToVisit, OnTurn, Visited
  <2>. QED BY <1>1, <2>1 DEF Rota!vars
<1>3. ASSUME Advance, Sleepers' \in {Sleepers, Sleepers \cup {OnTurn}} PROVE Rota!Next
  <2>1. OnTurn' = None /\ OnTurn # None /\ Live' = Live /\ Left' = Left
    BY <1>1, <1>3, TurnEnds, TurnRota
  <2>. QED BY <1>1, <1>3, <2>1 DEF Rota!Next, Rota!GiveWay
<1>4. CASE Advance /\ UNCHANGED due
  BY <1>1, <1>3, <1>4, SameTasks
<1>5. CASE Sleep
  <2>1. PICK d \in 0 .. MaxSleep : due' = [due EXCEPT ![Visited] = d] /\ Advance
    BY <1>5 DEF Sleep, Ready
  <2>2. /\ OnTurn \in Live /\ slotOf[OnTurn] = Visited /\ Visited \in Slots /\ OnTurn \notin Sleepers
        /\ Live' = Live /\ due \in [Slots -> 0 .. MaxSleep] /\ occupant[Visited] = OnTurn
    BY <1>1, <2>1, TurnEnds, TurnRota DEF SchedulerInv, TypeOK
  <2>3. ASSUME NEW h \in Live, h # OnTurn PROVE h \in Sleepers' <=> h \in Sleepers
    <3>1. slotOf[h] # Visited /\ slotOf[h] \in Slots
      BY <2>2, <2>3, LiveInPlace
    <3>. QED BY <1>1, <2>1, <2>2, <3>1 DEF Sleepers
  <2>4. Sleepers' \subseteq Live /\ Sleepers \subseteq Live
    BY <2>2 DEF Sleepers
  <2>. QED BY <1>3, <2>1, <2>2, <2>3, <2>4
<1>. QED BY <1>2, <1>4, <1>5 DEF Await, Resume, AwaitOn, Ready, loop

LEMMA EndRota ==
  ASSUME SchedulerInv, Return \/ Fail \/ Propagate
  PROVE  Rota!Next
<1>1. /\ phase = "turn" /\ Advance /\ UNCHANGED <<tasks, slotOf, spawned, due>>
      /\ ended' = ended \cup {OnTurn}
  BY TurnRota DEF Return, Fail, Propagate, Die, Ready, pool
<1>2. /\ OnTurn' = None /\ OnTurn # None /\ Live' = Live \ {OnTurn} /\ Left' = Left
      /\ OnTurn \notin Sleepers
  BY <1>1, TurnEnds, TurnRota
<1>3. Sleepers' = Sleepers
  BY <1>1, <1>2 DEF Sleepers
<1>. QED BY <1>1, <1>2, <1>3 DEF Rota!Next, Rota!End

LEMMA RotaStep ==
  ASSUME SchedulerInv, SchedulerInv', InOrder, [Next]_vars
  PROVE  [Rota!Next]_(Rota!vars)
<1>1. CASE UNCHANGED vars
  <2>1. UNCHANGED <<spawned, ended, slotOf, due, tasks, phase, index, occupant>>
    BY <1>1 DEF vars, pool, structs, loop, history
  <2>. QED BY <2>1, SameTasks DEF Rota!vars, ToVisit, OnTurn, Visited
<1>. QED BY <1>1, SkipRota, BeginTurnRota, PassesRota, TickRota, SpawnRota, GiveWayRota, EndRota
         DEF Next, LoopStep, TurnStep

LEMMA InitRota == Init => Rota!Init
<1>. SUFFICES ASSUME Init PROVE Rota!Init
  OBVIOUS
<1>1. PICK m \in Slots : /\ tasks = <<m>> /\ phase = "scan" /\ index = 1 /\ spawned = 0 /\ ended = {}
                         /\ slotOf = [h \in Handles |-> IF h = 0 THEN m ELSE None]
                         /\ due = [s \in Slots |-> 0]
  BY DEF Init
<1>2. Live = {0} /\ slotOf[0] = m
  BY <1>1 DEF Live, Running
<1>3. Sleepers = {} /\ OnTurn = None
  BY <1>1, <1>2 DEF Sleepers, OnTurn
<1>4. ToVisit = {1} /\ tasks[1] = m
  BY <1>1 DEF ToVisit
<1>5. Left = {0}
  BY <1>2, <1>4 DEF Left
<1>. QED BY <1>1, <1>2, <1>3, <1>5 DEF Rota!Init

\* vm_run()'s pass over an array from which structs are reaped, and to which spawns
\* add recycled ones, gives turns by rota, for any number of structs and of spawns.
THEOREM TurnsGoByRota == Spec => TurnsByRota
<1>1. Init => SchedulerInv /\ InOrder /\ Rota!Init
  BY InitInv, InitOrder, InitRota
<1>2. SchedulerInv /\ InOrder /\ [Next]_vars => SchedulerInv' /\ InOrder'
  BY StepInv, OrderStep
<1>3. SchedulerInv /\ InOrder /\ [Next]_vars => [Rota!Next]_(Rota!vars)
  BY StepInv, RotaStep
<1>. QED BY <1>1, <1>2, <1>3, PTL DEF Spec, TurnsByRota, Rota!Spec
=============================================================================

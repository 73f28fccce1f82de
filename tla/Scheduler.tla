----------------------------- MODULE Scheduler -----------------------------
(***************************************************************************)
(* The cooperative scheduler of the Varian VM: the round-robin loop of     *)
(* vm_run(), task.spawn, task.yield, task.sleep, await, the ways a task    *)
(* ends, and the pool that recycles Task structs (src/vm.c,                *)
(* src/lib_task.c).                                                        *)
(*                                                                         *)
(* One pass of the loop visits vm->tasks in order.  A task whose turn it   *)
(* is executes instructions until it yields or ends; its program is not    *)
(* modelled: in its turn it may do any of the operations, in any order.    *)
(* When the pass is over the tasks that died in it are moved to a free     *)
(* list, from which the next spawn takes its Task struct.                  *)
(*                                                                         *)
(* A task value (ObjTask) holds a pointer to the Task struct and nothing   *)
(* that tells one use of the struct from the next.  The spawns are         *)
(* numbered: handle h is the value the h-th spawn returned, handle 0 the   *)
(* main script, for which no value exists.  occupant, outcome, fresh and   *)
(* lastAwait are history variables; the code has nothing like them.        *)
(***************************************************************************)
EXTENDS Integers, Sequences, FiniteSets

CONSTANTS Slots,      \* the Task structs that memory has room for
          MaxSpawns,  \* bound: how many tasks a run spawns
          MaxSleep,   \* bound: the longest sleep, in ticks of the clock
          Nil,        \* Varian's nil
          None        \* no slot, no handle

ASSUME SpawnsAssumption == MaxSpawns \in Nat
ASSUME SleepAssumption == MaxSleep \in Nat
ASSUME NoneAssumption == None \notin Slots /\ None \notin 0 .. MaxSpawns
ASSUME SlotsAssumption == Slots # {}

VARIABLES tasks,      \* vm->tasks[0 .. task_count-1], here from 1
          freeTasks,  \* vm->free_tasks, most recently freed first
          heap,       \* the Task structs calloc'ed so far
          dead,       \* task->dead
          frames,     \* task->frame_count: 1 while the task's function runs
          due,        \* ticks until task->wakeup_time, 0 when it has passed
          result,     \* task->result
          awaiting,   \* the handle of the BC_AWAIT the task retries, or None
          phase,      \* what vm_run() is doing
          index,      \* the loop variable of the pass, and of the reaping loop
          kept,       \* reap_write
          anyAlive,   \* any_alive
          slotOf,     \* slotOf[h]: the Task struct handle h points to
          occupant,   \* occupant[s]: the handle whose task is in struct s
          spawned,    \* how many spawns there have been
          ended,      \* the handles whose tasks have ended
          outcome,    \* outcome[h]: the value the task of handle h returned
          fresh,      \* fresh[s]: the await of s began on a task still in place
          lastAwait   \* who awaited, which handle, and the value it was given

structs == <<dead, frames, due, result, awaiting>>
pool == <<tasks, freeTasks, heap>>
loop == <<phase, index, kept, anyAlive>>
history == <<slotOf, occupant, spawned, ended, outcome, fresh, lastAwait>>
vars == <<pool, structs, loop, history>>

Handles == 0 .. MaxSpawns

Running(h) == h <= spawned /\ h \notin ended

-----------------------------------------------------------------------------
(* The pool. *)

\* task_new(): the struct on top of the free list, else a new one.
NewSlot(s) == IF freeTasks # << >>
                THEN s = Head(freeTasks) /\ freeTasks' = Tail(freeTasks) /\ heap' = heap
                ELSE s \notin heap /\ heap' = heap \cup {s} /\ freeTasks' = freeTasks

\* Mutant of Register: task_new() does not reset the dead flag.
RegisterStale(s, h) == /\ tasks' = Append(tasks, s)
                       /\ frames' = [frames EXCEPT ![s] = 1]
                       /\ due' = [due EXCEPT ![s] = 0]
                       /\ result' = [result EXCEPT ![s] = Nil]
                       /\ awaiting' = [awaiting EXCEPT ![s] = None]
                       /\ slotOf' = [slotOf EXCEPT ![h] = s]
                       /\ occupant' = [occupant EXCEPT ![s] = h]
                       /\ fresh' = [fresh EXCEPT ![s] = FALSE]
                       /\ UNCHANGED dead

\* Mutant of Register: the new task is to run next, not last.
RegisterNext(s, h) == /\ tasks' = SubSeq(tasks, 1, index) \o <<s>> \o SubSeq(tasks, index + 1, Len(tasks))
                      /\ dead' = [dead EXCEPT ![s] = FALSE]
                      /\ frames' = [frames EXCEPT ![s] = 1]
                      /\ due' = [due EXCEPT ![s] = 0]
                      /\ result' = [result EXCEPT ![s] = Nil]
                      /\ awaiting' = [awaiting EXCEPT ![s] = None]
                      /\ slotOf' = [slotOf EXCEPT ![h] = s]
                      /\ occupant' = [occupant EXCEPT ![s] = h]
                      /\ fresh' = [fresh EXCEPT ![s] = FALSE]

\* The struct is reset and, with the frame of the spawned function, registered.
Register(s, h) == /\ tasks' = Append(tasks, s)
                  /\ dead' = [dead EXCEPT ![s] = FALSE]
                  /\ frames' = [frames EXCEPT ![s] = 1]
                  /\ due' = [due EXCEPT ![s] = 0]
                  /\ result' = [result EXCEPT ![s] = Nil]
                  /\ awaiting' = [awaiting EXCEPT ![s] = None]
                  /\ slotOf' = [slotOf EXCEPT ![h] = s]
                  /\ occupant' = [occupant EXCEPT ![s] = h]
                  /\ fresh' = [fresh EXCEPT ![s] = FALSE]

\* vm_run() has registered the main script's task and enters its loop.
Init == \E m \in Slots :
          /\ tasks = <<m>>
          /\ freeTasks = << >>
          /\ heap = {m}
          /\ dead = [s \in Slots |-> FALSE]
          /\ frames = [s \in Slots |-> IF s = m THEN 1 ELSE 0]
          /\ due = [s \in Slots |-> 0]
          /\ result = [s \in Slots |-> Nil]
          /\ awaiting = [s \in Slots |-> None]
          /\ phase = "scan"
          /\ index = 1
          /\ kept = 0
          /\ anyAlive = FALSE
          /\ slotOf = [h \in Handles |-> IF h = 0 THEN m ELSE None]
          /\ occupant = [s \in Slots |-> IF s = m THEN 0 ELSE None]
          /\ spawned = 0
          /\ ended = {}
          /\ outcome = [h \in Handles |-> Nil]
          /\ fresh = [s \in Slots |-> FALSE]
          /\ lastAwait = None

-----------------------------------------------------------------------------
(* The pass over the tasks. *)

Visited == tasks[index]

Advance == phase' = "scan" /\ index' = index + 1 /\ UNCHANGED kept

\* A task that sleeps is passed over, but it keeps the program alive.  (A dead
\* one would be too; the reaping leaves none for the pass to meet.)
Skip == /\ phase = "scan"
        /\ index <= Len(tasks)
        /\ dead[Visited] \/ due[Visited] > 0
        /\ anyAlive' = (anyAlive \/ ~dead[Visited])
        /\ Advance
        /\ UNCHANGED <<pool, structs, history>>

\* The turn of the task begins: t->yielded = false, task_run().
BeginTurn == /\ phase = "scan"
             /\ index <= Len(tasks)
             /\ ~dead[Visited]
             /\ due[Visited] = 0
             /\ frames[Visited] > 0
             /\ anyAlive' = TRUE
             /\ phase' = "turn"
             /\ UNCHANGED <<pool, structs, index, kept, history>>

\* task_run() of a task without a frame reads frames[-1], in front of the array.
Crash == /\ phase = "scan"
         /\ index <= Len(tasks)
         /\ ~dead[Visited]
         /\ due[Visited] = 0
         /\ frames[Visited] = 0
         /\ phase' = "crashed"
         /\ UNCHANGED <<pool, structs, index, kept, anyAlive, history>>

\* Mutant of EndPass: the last task is not visited.
EndPassEarly == /\ phase = "scan"
                /\ index >= Len(tasks)
                /\ phase' = "reap"
                /\ index' = 1
                /\ kept' = 0
                /\ UNCHANGED <<pool, structs, anyAlive, history>>

\* Every task, those spawned in this pass included, has been visited.
EndPass == /\ phase = "scan"
           /\ index > Len(tasks)
           /\ phase' = "reap"
           /\ index' = 1
           /\ kept' = 0
           /\ UNCHANGED <<pool, structs, anyAlive, history>>

\* Mutant of Reap: the task behind a dead one is missed.
ReapAndMiss == /\ phase = "reap"
               /\ index <= Len(tasks)
               /\ IF dead[Visited]
                    THEN /\ freeTasks' = <<Visited>> \o freeTasks
                         /\ index' = index + 2
                         /\ UNCHANGED <<tasks, kept>>
                    ELSE /\ tasks' = [tasks EXCEPT ![kept + 1] = Visited]
                         /\ kept' = kept + 1
                         /\ index' = index + 1
                         /\ UNCHANGED freeTasks
               /\ UNCHANGED <<heap, structs, phase, anyAlive, history>>

\* One round of the reaping loop: a dead task goes on the free list, a live one
\* moves down to the next place that is kept.
Reap == /\ phase = "reap"
        /\ index <= Len(tasks)
        /\ IF dead[Visited]
             THEN /\ freeTasks' = <<Visited>> \o freeTasks
                  /\ UNCHANGED <<tasks, kept>>
             ELSE /\ tasks' = [tasks EXCEPT ![kept + 1] = Visited]
                  /\ kept' = kept + 1
                  /\ UNCHANGED freeTasks
        /\ index' = index + 1
        /\ UNCHANGED <<heap, structs, phase, anyAlive, history>>

\* task_count = reap_write; the loop ends when the pass met no live task.
EndReap == /\ phase = "reap"
           /\ index > Len(tasks)
           /\ tasks' = SubSeq(tasks, 1, kept)
           /\ phase' = IF anyAlive THEN "scan" ELSE "halted"
           /\ index' = 1
           /\ kept' = 0
           /\ anyAlive' = FALSE
           /\ UNCHANGED <<freeTasks, heap, structs, history>>

\* The clock.
Tick == /\ phase \notin {"halted", "crashed"}
        /\ \E s \in Slots : due[s] > 0
        /\ due' = [s \in Slots |-> IF due[s] > 0 THEN due[s] - 1 ELSE 0]
        /\ UNCHANGED <<pool, dead, frames, result, awaiting, loop, history>>

-----------------------------------------------------------------------------
(* The turn of a task. *)

\* The task whose turn it is, s, is at an instruction of its program.
Ready(s) == phase = "turn" /\ s = Visited /\ awaiting[s] = None

\* task.spawn(): the new task is registered behind the others.  The value
\* returned is one that any task of the program may come to hold.
Spawn == /\ phase = "turn"
         /\ awaiting[Visited] = None
         /\ spawned < MaxSpawns
         /\ spawned' = spawned + 1
         /\ \E s \in Slots : NewSlot(s) /\ Register(s, spawned')
         /\ UNCHANGED <<loop, ended, outcome, lastAwait>>

\* BC_AWAIT: the result of the struct the handle points to if that is dead, else
\* yield and execute the instruction again in the next turn.
AwaitOn(s, h) ==
  IF dead[slotOf[h]]
    THEN /\ lastAwait' = [by |-> occupant[s], handle |-> h, value |-> result[slotOf[h]],
                          fresh |-> IF awaiting[s] = None
                                      THEN occupant[slotOf[h]] = h ELSE fresh[s]]
         /\ awaiting' = [awaiting EXCEPT ![s] = None]
         /\ fresh' = [fresh EXCEPT ![s] = FALSE]
         /\ UNCHANGED loop
    ELSE /\ awaiting' = [awaiting EXCEPT ![s] = h]
         /\ fresh' = [fresh EXCEPT ![s] = IF awaiting[s] = None
                                            THEN occupant[slotOf[h]] = h ELSE fresh[s]]
         /\ Advance
         /\ UNCHANGED <<lastAwait, anyAlive>>

Await == \E s \in Slots, h \in Handles \ {0} :
           /\ Ready(s)
           /\ slotOf[h] # None
           /\ AwaitOn(s, h)
           /\ UNCHANGED <<pool, dead, frames, due, result, slotOf, occupant, spawned, ended, outcome>>

Resume == \E s \in Slots :
            /\ phase = "turn"
            /\ s = Visited
            /\ awaiting[s] # None
            /\ AwaitOn(s, awaiting[s])
            /\ UNCHANGED <<pool, dead, frames, due, result, slotOf, occupant, spawned, ended, outcome>>

\* task.yield() sets t->yielded, task.sleep() the wakeup time as well.
Sleep == \E s \in Slots, d \in 0 .. MaxSleep :
           /\ Ready(s)
           /\ due' = [due EXCEPT ![s] = d]
           /\ Advance
           /\ UNCHANGED <<pool, dead, frames, result, awaiting, anyAlive, history>>

\* The task ends: its handle's outcome is v, its Task struct keeps r.  A task that
\* returns gives a value of its own, for which its handle stands.
Die(s, r, v) == /\ dead' = [dead EXCEPT ![s] = TRUE]
                /\ result' = [result EXCEPT ![s] = r]
                /\ ended' = ended \cup {occupant[s]}
                /\ outcome' = [outcome EXCEPT ![occupant[s]] = v]
                /\ Advance
                /\ UNCHANGED <<pool, due, awaiting, anyAlive, slotOf, occupant, spawned, fresh,
                               lastAwait>>

\* BC_RETURN from the task's last frame; the main script's BC_HALT is the same
\* without a result, which nothing can ask for.
Return == \E s \in Slots : /\ Ready(s)
                           /\ frames' = [frames EXCEPT ![s] = 0]
                           /\ Die(s, occupant[s], occupant[s])

\* runtime_error(), an uncaught throw: the scheduler sets t->dead.
Fail == \E s \in Slots : /\ Ready(s)
                         /\ Die(s, result[s], Nil)
                         /\ UNCHANGED frames

\* BC_PROPAGATE (`e?`) on nil in the task's last frame: the frame is left like by
\* a return of nil, but neither dead nor the result is set.
Propagate == \E s \in Slots : /\ Ready(s)
                              /\ frames' = [frames EXCEPT ![s] = 0]
                              /\ ended' = ended \cup {occupant[s]}
                              /\ Advance
                              /\ UNCHANGED <<pool, dead, due, result, awaiting, anyAlive, slotOf,
                                             occupant, spawned, outcome, fresh, lastAwait>>

TurnStep == Resume \/ Sleep \/ Return \/ Fail \/ Propagate
LoopStep == Skip \/ BeginTurn \/ Crash \/ EndPass \/ Reap \/ EndReap

Next == TurnStep \/ LoopStep \/ Spawn \/ Await \/ Tick

Spec == Init /\ [][Next]_vars

\* The VM's thread runs, time passes, and a task does not stay in its turn for
\* ever (docs/THE_VARIAN_BOOK.md 17.1: always yield in long-running loops).
Fairness == WF_vars(LoopStep) /\ WF_vars(TurnStep) /\ WF_vars(Tick)
FairSpec == Spec /\ Fairness

\* The same, with the Task structs that memory has room for taken in one order: which
\* of them calloc() returns is nothing that the program could tell.
FirstOf(S) == CHOOSE s \in S : TRUE
TakenInOrder == heap' = heap \/ heap' = heap \cup {FirstOf(Slots \ heap)}
OrderedSpec == Init /\ heap = {FirstOf(Slots)} /\ [][Next /\ TakenInOrder]_vars /\ Fairness

-----------------------------------------------------------------------------
(* Properties. *)

TypeOK == /\ tasks \in Seq(Slots)
          /\ freeTasks \in Seq(Slots)
          /\ heap \subseteq Slots
          /\ dead \in [Slots -> BOOLEAN]
          /\ frames \in [Slots -> {0, 1}]
          /\ due \in [Slots -> 0 .. MaxSleep]
          /\ result \in [Slots -> Handles \cup {Nil}]
          /\ awaiting \in [Slots -> Handles \cup {None}]
          /\ phase \in {"scan", "turn", "reap", "halted", "crashed"}
          /\ index \in Nat \ {0}
          /\ kept \in Nat
          /\ anyAlive \in BOOLEAN
          /\ slotOf \in [Handles -> Slots \cup {None}]
          /\ occupant \in [Slots -> Handles \cup {None}]
          /\ spawned \in Handles
          /\ ended \subseteq Handles
          /\ outcome \in [Handles -> Handles \cup {Nil}]
          /\ fresh \in [Slots -> BOOLEAN]
          /\ lastAwait = None \/ lastAwait \in
               [by : Handles \cup {None}, handle : Handles, value : Handles \cup {Nil},
                fresh : BOOLEAN]

\* The places of vm->tasks that hold a task of their own: while the reaping loop
\* compacts the array, those it has kept and those it has not come to.
Places == IF phase = "reap" THEN (1 .. kept) \cup (index .. Len(tasks)) ELSE 1 .. Len(tasks)
Registered == {tasks[i] : i \in Places}
Free == {freeTasks[i] : i \in 1 .. Len(freeTasks)}

\* Every Task struct is registered once or is on the free list once, never both:
\* no struct is lost, recycled while it runs, or handed to two spawns.
PoolPartition ==
  /\ \A i, j \in Places : tasks[i] = tasks[j] => i = j
  /\ \A i, j \in 1 .. Len(freeTasks) : freeTasks[i] = freeTasks[j] => i = j
  /\ Registered \cap Free = {}
  /\ Registered \cup Free = heap

\* A task that has not finished is still in the struct its handle points to, is
\* registered and is not dead: its handle cannot come to mean another task.
RunningInPlace ==
  \A h \in Handles : Running(h) =>
    /\ slotOf[h] \in Registered
    /\ occupant[slotOf[h]] = h
    /\ ~dead[slotOf[h]]
    /\ frames[slotOf[h]] = 1

\* vm_run() returns only when no task is left, those asleep included.
HaltedMeansDone == phase = "halted" => \A h \in Handles : ~Running(h)

\* The main script while it lives; a task that waits for one that was in place
\* when the await began.
IsMain(s) == s \in Registered /\ occupant[s] = 0 /\ ~dead[s]
Waits(s) == awaiting[s] # None /\ fresh[s]

\* The main script is first in every pass, so a task it waits for is still in
\* place when it looks again, whatever the other tasks spawned meanwhile: an
\* await it began on a task in place gives it that task's value.
MainAwaitSound ==
  /\ \A s \in Slots : IsMain(s) /\ Waits(s) => occupant[slotOf[awaiting[s]]] = awaiting[s]
  /\ lastAwait # None /\ lastAwait.by = 0 /\ lastAwait.fresh
       => lastAwait.value = outcome[lastAwait.handle]

\* A task that was spawned after the one it waits for is visited after it in every
\* pass, so it looks again before the reaping: an await it began on a task in place
\* gives it that task's value too.  (It would not be so if it had been spawned before
\* that task: see AwaitGivesResult.)
ElderAwaitSound ==
  /\ \A s \in Registered : ~dead[s] /\ Waits(s) /\ awaiting[s] < occupant[s]
       => occupant[slotOf[awaiting[s]]] = awaiting[s]
  /\ lastAwait # None /\ lastAwait.fresh /\ lastAwait.handle < lastAwait.by
       => lastAwait.value = outcome[lastAwait.handle]

\* What the loop's variables mean in each phase.
LoopInv ==
  /\ phase \in {"scan", "reap"} => index <= Len(tasks) + 1
  /\ phase = "turn" => /\ index <= Len(tasks)
                       /\ ~dead[Visited]
                       /\ frames[Visited] = 1
                       /\ due[Visited] = 0
                       /\ anyAlive
  /\ phase = "reap" => kept < index /\ \A i \in 1 .. kept : ~dead[tasks[i]]
  /\ phase = "scan" /\ ~anyAlive => \A i \in 1 .. index - 1 : dead[tasks[i]]
  /\ phase = "reap" /\ ~anyAlive => \A i \in Places : dead[tasks[i]]
  /\ phase = "halted" => tasks = << >>

\* A struct and the handle of the task in it point at each other, and the struct
\* says of that task what became of it.
StructInv ==
  /\ \A s \in heap : /\ occupant[s] \in 0 .. spawned
                     /\ slotOf[occupant[s]] = s
                     /\ dead[s] => /\ occupant[s] \in ended
                                   /\ result[s] = outcome[occupant[s]]
                     /\ ~dead[s] => /\ result[s] = Nil
                                    /\ outcome[occupant[s]] = Nil
                                    /\ frames[s] = 1 => occupant[s] \notin ended
  /\ \A h \in Handles : (slotOf[h] = None) <=> (h > spawned)
  /\ \A h \in Handles : slotOf[h] # None => slotOf[h] \in heap
  /\ \A h \in Handles : h > spawned => outcome[h] = Nil
  /\ \A s \in Slots : awaiting[s] # None => awaiting[s] <= spawned
  /\ \A s \in Free : dead[s]
  /\ ended \subseteq 0 .. spawned

\* While it lives the main script is the first of the tasks; the struct of the
\* task it waits for stays registered until the main script has looked again.
MainInv ==
  \A s \in Slots : IsMain(s) =>
    /\ 1 \in Places
    /\ tasks[1] = s
    /\ Waits(s) =>
         /\ due[s] = 0
         /\ occupant[slotOf[awaiting[s]]] = awaiting[s]
         /\ slotOf[awaiting[s]] \in Registered \/ phase = "reap" \/ index = 1

\* What the main script was given stands.
LastInv == lastAwait # None /\ lastAwait.by = 0 /\ lastAwait.fresh
             => /\ lastAwait.handle \in ended
                /\ lastAwait.value = outcome[lastAwait.handle]

\* The inductive invariant of the scheduler.
SchedulerInv ==
  /\ TypeOK
  /\ PoolPartition
  /\ RunningInPlace
  /\ LoopInv
  /\ StructInv
  /\ MainInv
  /\ LastInv

\* The tasks stand in the order of their spawns.
InOrder == \A i, j \in Places : i < j => occupant[tasks[i]] < occupant[tasks[j]]

\* As module Rota sees it: the tasks that run, those of them that sleep, those that
\* the pass has not come to, and the one whose turn it is.
Live == {h \in Handles : Running(h)}
Sleepers == {h \in Live : due[slotOf[h]] > 0}
ToVisit == CASE phase \in {"scan", "crashed"} -> index .. Len(tasks)
             [] phase = "turn" -> index + 1 .. Len(tasks)
             [] OTHER -> {}
Left == {h \in Live : \E i \in ToVisit : tasks[i] = slotOf[h]}
OnTurn == IF phase = "turn" THEN occupant[Visited] ELSE None

\* Turns go by rota, whatever the structs of the tasks are used for: in each pass
\* every task is visited once, the earlier spawned first.
Rota == INSTANCE Rota WITH running <- Live, asleep <- Sleepers, left <- Left, turn <- OnTurn
TurnsByRota == Rota!Spec

\* await gives the awaited task's return value (nil if it died of an error).
AwaitGivesResult ==
  lastAwait # None => lastAwait.value = outcome[lastAwait.handle]

\* `e?` on nil is a return of nil: the program goes on.
PropagateIsReturn == phase # "crashed"

\* A task that can run is given its turn; the tasks asleep wake up.
EveryTaskRuns ==
  \A h \in Handles :
    Running(h) ~> \/ phase = "turn" /\ occupant[Visited] = h
                  \/ ~Running(h)
                  \/ phase = "crashed"

\* When the last task has ended the program ends.
ProgramEnds ==
  (\A h \in Handles : ~Running(h)) ~> phase \in {"halted", "crashed"}

\* The main script's wait for a task ends once that task has ended.
MainAwaitReturns ==
  \A h \in Handles :
    (\E s \in Slots : occupant[s] = 0 /\ ~dead[s] /\ awaiting[s] = h /\ fresh[s])
      /\ h \in ended
    ~> \/ \A s \in Slots : occupant[s] = 0 => dead[s] \/ awaiting[s] # h
       \/ phase = "crashed"

\* The round-robin serves everyone: every task its turns, the main script what it
\* waits for, and the program its end.
EveryoneIsServed == EveryTaskRuns /\ MainAwaitReturns /\ ProgramEnds
=============================================================================

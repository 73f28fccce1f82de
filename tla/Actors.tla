------------------------------- MODULE Actors -------------------------------
(***************************************************************************)
(* Actors of the Varian VM: the state machine of BC_DISPATCH on an actor,  *)
(* the actor loop that vm_run() visits like a task, and actor.spawn()      *)
(* (src/vm.c).                                                             *)
(*                                                                         *)
(* A call puts a message with a fresh reply channel in the actor's inbox   *)
(* and executes BC_DISPATCH again in every turn until the reply is there.  *)
(* An actor's turn takes one message and runs the method on a temporary    *)
(* task.  What a method does is one of four kinds:                         *)
(*   "ok"       it returns a result;                                       *)
(*   "fail"     a runtime error or an uncaught throw ends it;              *)
(*   "pause"    it yields, sleeps, waits for a channel or calls an actor;  *)
(*   "missing"  the actor's type has no such method.                       *)
(* An "ok" method exchanges the actor's content (see module SyncActor).    *)
(*                                                                         *)
(* Channels are those of module Channel, here with the content only.  The  *)
(* reply channels of two calls of one task that follow each other are told *)
(* apart, older ones are not: nothing refers to them.                      *)
(***************************************************************************)
EXTENDS Integers, Sequences, FiniteSets

CONSTANTS Callers,   \* tasks of the program
          Main,      \* the main script's
          Actors,
          Programs,  \* what programs use: some of the actors, some kinds of methods
          InboxCap,  \* capacity of an inbox: 64 in the code
          Junk,      \* a reply that is no result of the method
          None

ASSUME ActorsAssumption ==
  /\ Main \in Callers
  /\ Programs \subseteq [actors : SUBSET Actors,
                        kinds : SUBSET {"ok", "fail", "pause", "missing"}]
  /\ InboxCap \in Nat \ {0}

VARIABLES program,    \* what the program uses
          tasks,      \* vm->tasks, the actors' loop tasks among them, from 1
          index,      \* the task of the pass
          phase,      \* what vm_run() is doing
          anyAlive,   \* any_alive
          hadError,   \* vm->had_error
          dead,       \* the tasks that are dead
          asleep,     \* the tasks whose wakeup_time lies ahead
          inbox,      \* inbox[a]: the messages in actor a's inbox
          content,    \* content[a]: actor a's fields
          atCall,     \* atCall[c]: the BC_DISPATCH that c retries, or None
          nth,        \* nth[c]: which of its two names c's next call has
          waiting,    \* waiting[c]: task->actor_reply_ch, None if not waiting_actor_reply
          replies,    \* replies[k]: the value in the reply channel of call k, or None
          got,        \* history: the value c's last call gave
          ended,      \* history: the tasks whose program came to its end
          unreaped    \* history: an actor's temporary task was not reaped

scheduler == <<tasks, index, phase, anyAlive>>
calls == <<atCall, nth, waiting, replies, got>>
vars == <<program, scheduler, hadError, dead, asleep, inbox, content, calls, ended, unreaped>>

Calls == Callers \X {0, 1}
Values == Calls \cup {None, Junk}
Messages(kinds) == [actor : Actors, kind : kinds, call : Calls]

\* None is none of the things it stands in for, and a task is no actor.
ASSUME NoneAssumption ==
  /\ Callers \cap Actors = {}
  /\ None \notin Calls
  /\ None \notin Messages({"ok", "fail", "pause", "missing"})
  /\ None \notin [value : Values]
  /\ None \notin [actor : Actors, call : Calls, applied : BOOLEAN, result : Values]

\* The replies that are in a channel: a result, None for nil, is wrapped.
Reply(v) == [value |-> v]

Init == /\ program \in Programs
        /\ tasks = <<Main>>
        /\ index = 1
        /\ phase = "scan"
        /\ anyAlive = FALSE
        /\ hadError = FALSE
        /\ dead = {}
        /\ asleep = {}
        /\ inbox = [a \in Actors |-> << >>]
        /\ content = [a \in Actors |-> None]
        /\ atCall = [c \in Callers |-> None]
        /\ nth = [c \in Callers |-> 0]
        /\ waiting = [c \in Callers |-> None]
        /\ replies = [k \in Calls |-> None]
        /\ got = [c \in Callers |-> None]
        /\ ended = {}
        /\ unreaped = FALSE

-----------------------------------------------------------------------------
(* The pass. *)

Visited == tasks[index]
Visiting(t) == phase = "scan" /\ index <= Len(tasks) /\ t = Visited
Advance == phase' = "scan" /\ index' = index + 1 /\ UNCHANGED tasks

\* A sleeping task is passed over; vm->had_error stays what it is.
Skip == \E c \in Callers : /\ Visiting(c)
                           /\ c \in asleep
                           /\ anyAlive' = TRUE
                           /\ Advance
                           /\ UNCHANGED <<program, hadError, dead, asleep, inbox, content, calls,
                                          ended, unreaped>>

\* The turn of a task begins; an error left by an actor before it is dropped.
BeginTurn == \E c \in Callers : /\ Visiting(c)
                                /\ c \notin asleep
                                /\ anyAlive' = TRUE
                                /\ phase' = "turn"
                                /\ hadError' = FALSE
                                /\ UNCHANGED <<program, tasks, index, dead, asleep, inbox, content,
                                               calls, ended, unreaped>>

\* The tasks that are left when the dead are reaped, in their order.  (SelectSeq, of
\* which the provers know nothing.)
Alive == {i \in 1 .. Len(tasks) : tasks[i] \notin dead}
Rank(i) == Cardinality({h \in Alive : h <= i})
Reaped == [j \in 1 .. Cardinality(Alive) |-> tasks[CHOOSE i \in Alive : Rank(i) = j]]

\* The dead are reaped (module Scheduler); the actors' loops do not keep the
\* program alive.
EndPass == /\ phase = "scan"
           /\ index > Len(tasks)
           /\ tasks' = Reaped
           /\ index' = 1
           /\ phase' = IF anyAlive THEN "scan" ELSE "halted"
           /\ anyAlive' = FALSE
           /\ UNCHANGED <<program, hadError, dead, asleep, inbox, content, calls, ended, unreaped>>

\* The clock.
Wake == /\ phase # "halted"
        /\ \E c \in asleep : asleep' = asleep \ {c}
        /\ UNCHANGED <<program, scheduler, hadError, dead, inbox, content, calls, ended, unreaped>>

-----------------------------------------------------------------------------
(* The turn of a task. *)

\* Task c executes an instruction of its program.
Running(c) == phase = "turn" /\ c = Visited
Ready(c) == Running(c) /\ atCall[c] = None

\* task.spawn(), actor.spawn(): a task is registered behind the others.
Spawn == \E c \in Callers, t \in Callers \cup program.actors :
           /\ Ready(c)
           /\ t \notin dead
           /\ \A i \in 1 .. Len(tasks) : tasks[i] # t
           /\ tasks' = Append(tasks, t)
           /\ UNCHANGED <<program, index, phase, anyAlive, hadError, dead, asleep, inbox, content,
                          calls, ended, unreaped>>

\* The task yields or sleeps.
Yield == \E c \in Callers : /\ Ready(c)
                            /\ asleep' \in {asleep, asleep \cup {c}}
                            /\ Advance
                            /\ UNCHANGED <<program, anyAlive, hadError, dead, inbox, content, calls,
                                           ended, unreaped>>

\* The task returns from its last frame or dies of an error of its own, which
\* the scheduler clears.
End == \E c \in Callers : /\ Ready(c)
                          /\ dead' = dead \cup {c}
                          /\ ended' = ended \cup {c}
                          /\ Advance
                          /\ UNCHANGED <<program, anyAlive, hadError, asleep, inbox, content, calls,
                                         unreaped>>

\* Mutant of Send: waiting_actor_reply is not set, so that every turn sends again.
SendAgain(c, r) ==
  IF Len(inbox[r.actor]) < InboxCap
    THEN /\ inbox' = [inbox EXCEPT ![r.actor] = Append(@, r)]
         /\ UNCHANGED <<waiting, replies>>
    ELSE UNCHANGED <<inbox, waiting, replies>>

\* Mutant of Send: the reply channel is set before it is known that the message
\* is in the inbox.
SendTooSoon(c, r) ==
  /\ waiting' = [waiting EXCEPT ![c] = r.call]
  /\ replies' = [replies EXCEPT ![r.call] = None]
  /\ inbox' = IF Len(inbox[r.actor]) < InboxCap
                THEN [inbox EXCEPT ![r.actor] = Append(@, r)] ELSE inbox

\* The first pass through BC_DISPATCH: a new reply channel, and a message in the
\* inbox if that has room.
Send(c, r) ==
  IF Len(inbox[r.actor]) < InboxCap
    THEN /\ inbox' = [inbox EXCEPT ![r.actor] = Append(@, r)]
         /\ waiting' = [waiting EXCEPT ![c] = r.call]
         /\ replies' = [replies EXCEPT ![r.call] = None]
    ELSE UNCHANGED <<inbox, waiting, replies>>

\* BC_DISPATCH on an actor.  It never finds a reply at once: the turn ends.
Dispatch == \E c \in Callers, a \in Actors, m \in program.kinds :
  LET r == [actor |-> a, kind |-> m, call |-> <<c, nth[c]>>] IN
    /\ Ready(c)
    /\ \E i \in 1 .. Len(tasks) : tasks[i] = a
    /\ Send(c, r)
    /\ atCall' = [atCall EXCEPT ![c] = r]
    /\ nth' = [nth EXCEPT ![c] = 1 - @]
    /\ Advance
    /\ UNCHANGED <<program, anyAlive, hadError, dead, asleep, content, got, ended, unreaped>>

\* BC_DISPATCH again, the message not yet in the inbox.
Redispatch == \E c \in Callers :
  /\ Running(c)
  /\ atCall[c] # None
  /\ waiting[c] = None
  /\ Send(c, atCall[c])
  /\ Advance
  /\ UNCHANGED <<program, anyAlive, hadError, dead, asleep, content, atCall, nth, got, ended, unreaped>>

\* BC_DISPATCH again, waiting for the reply: with it the instruction is over.
Receive == \E c \in Callers :
  /\ Running(c)
  /\ waiting[c] # None
  /\ IF replies[waiting[c]] # None
       THEN /\ got' = [got EXCEPT ![c] = replies[waiting[c]].value]
            /\ replies' = [replies EXCEPT ![waiting[c]] = None]
            /\ waiting' = [waiting EXCEPT ![c] = None]
            /\ atCall' = [atCall EXCEPT ![c] = None]
       ELSE UNCHANGED <<got, replies, waiting, atCall>>
  /\ Advance
  /\ UNCHANGED <<program, anyAlive, hadError, dead, asleep, inbox, content, nth, ended, unreaped>>

-----------------------------------------------------------------------------
(* The turn of an actor's loop task: actor_scheduler_process(). *)

Idle == \E a \in Actors : /\ Visiting(a)
                          /\ inbox[a] = << >>
                          /\ Advance
                          /\ UNCHANGED <<program, anyAlive, hadError, dead, asleep, inbox, content,
                                         calls, ended, unreaped>>

\* A message is taken from the inbox for good.
Take(a, r) == /\ Visiting(a)
              /\ inbox[a] # << >>
              /\ r = Head(inbox[a])
              /\ inbox' = [inbox EXCEPT ![a] = Tail(@)]
              /\ Advance
              /\ UNCHANGED <<program, anyAlive, dead, asleep, atCall, nth, waiting, got, ended>>

\* vm_find_dispatch() has no such method: the message is dropped.
Discard == \E a \in Actors, r \in {Head(inbox[b]) : b \in {b \in Actors : inbox[b] # << >>}} :
             /\ Take(a, r)
             /\ r.kind = "missing"
             /\ UNCHANGED <<hadError, content, replies, unreaped>>

\* The temporary task is left as it is, its struct neither registered nor free,
\* and the top of its stack is the reply.
Answer(r, v) == /\ replies' = [replies EXCEPT ![r.call] = Reply(v)]
                /\ unreaped' = TRUE

\* Mutant of Method: the reply is read from the actor's content, after the method.
MethodLate(a, r) == /\ r.kind = "ok"
                    /\ content' = [content EXCEPT ![a] = r.call]
                    /\ Answer(r, r.call)
                    /\ UNCHANGED hadError

\* The method runs and returns.
Method(a, r) == /\ r.kind = "ok"
                /\ content' = [content EXCEPT ![a] = r.call]
                /\ Answer(r, content[a])
                /\ UNCHANGED hadError

\* The method fails before or after its exchange: vm->had_error stays set.
Failing(a, r) == /\ r.kind = "fail"
                 /\ content' \in {content, [content EXCEPT ![a] = r.call]}
                 /\ Answer(r, Junk)
                 /\ hadError' = TRUE

\* The method leaves task_run() before its end; it is not resumed.
Cut(a, r) == /\ r.kind = "pause"
             /\ content' \in {content, [content EXCEPT ![a] = r.call]}
             /\ Answer(r, Junk)
             /\ UNCHANGED hadError

\* With vm->had_error set task_run() executes nothing at all.
Unrun(r) == Answer(r, Junk) /\ UNCHANGED <<content, hadError>>

Process == \E a \in Actors, r \in {Head(inbox[b]) : b \in {b \in Actors : inbox[b] # << >>}} :
             /\ Take(a, r)
             /\ r.kind # "missing"
             /\ IF hadError THEN Unrun(r)
                            ELSE Method(a, r) \/ Failing(a, r) \/ Cut(a, r)

TurnStep == Yield \/ End \/ Redispatch \/ Receive
LoopStep == Skip \/ BeginTurn \/ EndPass \/ Idle \/ Discard \/ Process

Next == LoopStep \/ TurnStep \/ Spawn \/ Dispatch \/ Wake

Spec == Init /\ [][Next]_vars

\* The VM's thread runs, turns end, sleepers wake.
FairSpec == /\ Spec
            /\ WF_vars(LoopStep)
            /\ WF_vars(TurnStep \/ Dispatch)
            /\ WF_vars(Wake)

-----------------------------------------------------------------------------
(* Properties. *)

Requests == Messages(program.kinds)

SchedulerOK == /\ tasks \in Seq(Callers \cup Actors)
               /\ index \in 1 .. Len(tasks) + 1
               /\ phase \in {"scan", "turn", "halted"}
               /\ anyAlive \in BOOLEAN
               /\ dead \subseteq Callers
               /\ asleep \subseteq Callers
               /\ ended \subseteq Callers

CallsOK == /\ program \in Programs
           /\ hadError \in BOOLEAN
           /\ inbox \in [Actors -> Seq(Requests)]
           /\ \A a \in Actors : Len(inbox[a]) <= InboxCap
           /\ content \in [Actors -> Calls \cup {None}]
           /\ atCall \in [Callers -> Requests \cup {None}]
           /\ nth \in [Callers -> {0, 1}]
           /\ waiting \in [Callers -> Calls \cup {None}]
           /\ replies \in [Calls -> [value : Values] \cup {None}]
           /\ got \in [Callers -> Values]
           /\ unreaped \in BOOLEAN

TypeOK == SchedulerOK /\ CallsOK

\* Where call k is: its places in the inboxes.
Places(k) == {p \in Actors \X (1 .. InboxCap) :
                p[2] <= Len(inbox[p[1]]) /\ inbox[p[1]][p[2]].call = k}

\* A call has one message, in the inbox of the actor it is for, until its method
\* is run, and then one reply; there is no message and no reply of a call that
\* nothing waits for.  However often BC_DISPATCH is executed, the method of a call
\* runs once.
OneMessagePerCall ==
  \A k \in Calls :
    LET c == k[1] IN
    IF waiting[c] = k
      THEN /\ \A p \in Places(k) : p[1] = atCall[c].actor
           /\ Cardinality(Places(k)) <= 1
           /\ Places(k) # {} => replies[k] = None
           /\ Places(k) = {} /\ replies[k] = None => atCall[c].kind = "missing"
      ELSE Places(k) = {} /\ replies[k] = None

\* A task dies of its own program's end alone, whatever the methods it or others
\* call run into.
OnlyOwnEnd == dead \subseteq ended

\* Actors do not keep the program alive, yet it does not stop before every message
\* has been processed and every task, waiting for a reply or not, has ended.
HaltedMeansAnswered ==
  phase = "halted" => /\ \A a \in Actors : inbox[a] = << >>
                      /\ \A i \in 1 .. Len(tasks) : tasks[i] \in Actors

\* Calls, turns and the end of the program agree.
ActorsInv == TypeOK /\ OneMessagePerCall /\ OnlyOwnEnd /\ HaltedMeansAnswered

\* In a program whose methods return, or do not exist, the calls look like synchronous
\* calls that take effect once, in between: they implement module SyncActor.
Outcome(c) == IF atCall[c] = None THEN None
              ELSE LET v == IF waiting[c] = None THEN None ELSE replies[waiting[c]] IN
                   [actor |-> atCall[c].actor, call |-> atCall[c].call,
                    applied |-> v # None, result |-> IF v = None THEN None ELSE v.value]

outcomes == [c \in Callers |-> Outcome(c)]

Abstract == INSTANCE SyncActor WITH pending <- outcomes
Synchronous == program.kinds \subseteq {"ok", "missing"}
CallsAreSynchronous == /\ Synchronous => Abstract!Init
                       /\ [][Synchronous => Abstract!Next]_(Abstract!vars)

\* A call of a method that the actor has returns.
CallReturns ==
  \A c \in Callers : (atCall[c] # None /\ atCall[c].kind # "missing") ~> (atCall[c] = None)

\* A call of any method returns.
EveryCallReturns == \A c \in Callers : (atCall[c] # None) ~> (atCall[c] = None)

\* An error in one method does not keep another call's method from being run.
ErrorStaysWithItsCall ==
  \A c \in Callers : /\ waiting[c] # None
                     /\ replies[waiting[c]] # None
                     /\ atCall[c].kind = "ok"
                     => replies[waiting[c]].value # Junk

\* The reply of a method that does not fail is its result.
RepliesAreResults ==
  \A c \in Callers : /\ waiting[c] # None
                     /\ replies[waiting[c]] # None
                     => replies[waiting[c]].value # Junk

\* The Task structs of the tasks that have died are reaped at the end of the pass.
AllAreReaped == phase = "scan" /\ index = 1 => ~unreaped
=============================================================================

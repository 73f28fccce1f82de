------------------------------ MODULE Channel ------------------------------
(***************************************************************************)
(* ObjChannel: the ring buffer behind `ch <- v`, `<- ch`, task.channel(),  *)
(* task.close() and task.try_receive() (src/vm.c, src/lib_task.c).         *)
(*                                                                         *)
(* A blocked instruction pushes its operands back, sets t->yielded and     *)
(* steps the instruction pointer back over itself: the task stays at the   *)
(* same instruction and executes it again from the start when the          *)
(* scheduler next runs it.  Here that is a task that stays at insn "send"  *)
(* or "receive" with the same operand; an attempt that finds the buffer    *)
(* full or empty changes nothing and so is a stuttering step.  The tasks   *)
(* interleave between any two channel instructions, which includes every   *)
(* order the round-robin scheduler of module Scheduler can produce.        *)
(***************************************************************************)
EXTENDS Integers, Sequences

CONSTANTS Tasks,     \* the tasks that hold the channel
          Values,    \* what programs send, which may be nil
          Nil,       \* Varian's nil, val_nil()
          None,      \* no value: an unwritten slot, no operand, nothing pushed yet
          Requested  \* the argument of task.channel()

ASSUME NoneAssumption == None \notin Values \cup {Nil}
ASSUME RequestedAssumption == Requested \in Int

VARIABLES buffer, head, tail, count, closed,   \* the fields of the ObjChannel
          insn,     \* insn[t]: the channel instruction t is at, "run" between two
          operand,  \* operand[t]: the value on t's stack that a send will store
          top,      \* top[t]: what t's last channel operation pushed
          last,     \* last[t]: which operation that was
          sent      \* history: the values whose sends have succeeded so far

ring == <<buffer, head, tail, count>>
vars == <<buffer, head, tail, count, closed, insn, operand, top, last, sent>>

\* task.channel(n): a request that is not positive leaves the default, 1.
Capacity == IF Requested > 0 THEN Requested ELSE 1

Slots == 0 .. Capacity - 1

NewChannel == /\ buffer = [i \in Slots |-> None]
              /\ head = 0
              /\ tail = 0
              /\ count = 0
              /\ closed = FALSE

Init == /\ NewChannel
        /\ insn = [t \in Tasks |-> "run"]
        /\ operand = [t \in Tasks |-> None]
        /\ top = [t \in Tasks |-> None]
        /\ last = [t \in Tasks |-> "none"]
        /\ sent = {}

-----------------------------------------------------------------------------
(* The ring. *)

Put(v) == /\ buffer' = [buffer EXCEPT ![tail] = v]
          /\ tail' = (tail + 1) % Capacity
          /\ count' = count + 1
          /\ head' = head

\* Mutant of Take: the head is not advanced.
TakeKeepsHead == /\ count' = count - 1
                 /\ UNCHANGED <<buffer, head, tail>>

Take == /\ head' = (head + 1) % Capacity
        /\ count' = count - 1
        /\ UNCHANGED <<buffer, tail>>

-----------------------------------------------------------------------------
(* The instructions. *)

\* Operation op of task t completes and leaves v on t's stack.
Finish(t, op, v) == /\ insn' = [insn EXCEPT ![t] = "run"]
                    /\ operand' = [operand EXCEPT ![t] = None]
                    /\ top' = [top EXCEPT ![t] = v]
                    /\ last' = [last EXCEPT ![t] = op]

\* The program reaches a send or a receive: its operands go on the stack.
Reach(t, op, v) == /\ insn[t] = "run"
                   /\ insn' = [insn EXCEPT ![t] = op]
                   /\ operand' = [operand EXCEPT ![t] = v]
                   /\ top' = [top EXCEPT ![t] = None]
                   /\ last' = [last EXCEPT ![t] = "none"]
                   /\ UNCHANGED <<ring, closed, sent>>

ReachSend(t) == \E v \in Values : Reach(t, "send", v)
ReachReceive(t) == Reach(t, "receive", None)

\* BC_CHAN_SEND with room in the buffer.
ChanSend(t) == /\ insn[t] = "send"
               /\ ~closed
               /\ count < Capacity
               /\ Put(operand[t])
               /\ sent' = sent \cup {operand[t]}
               /\ Finish(t, "send", Nil)
               /\ UNCHANGED closed

\* Mutant of ChanSendClosed: the error is swallowed and the send retried.
ChanSendClosedRetry(t) == /\ insn[t] = "send"
                          /\ closed
                          /\ UNCHANGED vars

\* BC_CHAN_SEND on a closed channel: runtime_error() and the task is killed.
ChanSendClosed(t) == /\ insn[t] = "send"
                     /\ closed
                     /\ insn' = [insn EXCEPT ![t] = "dead"]
                     /\ operand' = [operand EXCEPT ![t] = None]
                     /\ UNCHANGED <<ring, closed, top, last, sent>>

\* Mutant of ChanReceive: it delivers the newest slot instead of the oldest.
ChanReceiveNewest(t) == /\ insn[t] = "receive"
                        /\ count > 0
                        /\ Take
                        /\ Finish(t, "receive", buffer[(head + count - 1) % Capacity])
                        /\ UNCHANGED <<closed, sent>>

\* BC_CHAN_RECEIVE looks at the count first ...
ChanReceive(t) == /\ insn[t] = "receive"
                  /\ count > 0
                  /\ Take
                  /\ Finish(t, "receive", buffer[head])
                  /\ UNCHANGED <<closed, sent>>

\* ... and only if the channel is empty and closed pushes a nil of its own.
ChanReceiveClosed(t) == /\ insn[t] = "receive"
                        /\ count = 0
                        /\ closed
                        /\ Finish(t, "receive", Nil)
                        /\ UNCHANGED <<ring, closed, sent>>

\* task.try_receive(): never blocks, whether the channel is open or closed.
TryReceive(t) == /\ insn[t] = "run"
                 /\ IF count > 0
                      THEN Take /\ Finish(t, "try_receive", buffer[head])
                      ELSE UNCHANGED ring /\ Finish(t, "try_receive", Nil)
                 /\ UNCHANGED <<closed, sent>>

\* task.close(): may be called again, by any task that holds the channel.
CloseChannel(t) == /\ insn[t] = "run"
                   /\ closed' = TRUE
                   /\ Finish(t, "close", Nil)
                   /\ UNCHANGED <<ring, sent>>

\* What the scheduler's next visit of t executes when t is at an instruction.
Execute(t) == ChanSend(t) \/ ChanSendClosed(t) \/ ChanReceive(t) \/ ChanReceiveClosed(t)

Next == \E t \in Tasks : \/ ReachSend(t)
                         \/ ReachReceive(t)
                         \/ Execute(t)
                         \/ TryReceive(t)
                         \/ CloseChannel(t)

Spec == Init /\ [][Next]_vars

\* Every pass of vm_run() runs every task that is neither dead nor asleep.
FairSpec == Spec /\ \A t \in Tasks : WF_vars(Execute(t))

-----------------------------------------------------------------------------
(* Properties. *)

Instructions == {"run", "send", "receive", "dead"}
Operations == {"none", "send", "receive", "try_receive", "close"}

\* The fields hold what their C types and the code's assignments allow.
TypeOK == /\ buffer \in [Slots -> Values \cup {None}]
          /\ head \in Slots
          /\ tail \in Slots
          /\ count \in 0 .. Capacity
          /\ closed \in BOOLEAN
          /\ insn \in [Tasks -> Instructions]
          /\ operand \in [Tasks -> Values \cup {None}]
          /\ top \in [Tasks -> Values \cup {Nil, None}]
          /\ last \in [Tasks -> Operations]
          /\ sent \subseteq Values

\* A blocking receive that gave nil means the stream has ended, if no nil was sent:
\* the channel is closed and empty, and stays so.  This is the worker-shutdown
\* signal of docs/CONCURRENCY.md: no value accepted before the close is skipped.
\* A program that sends nil cannot tell it from the end.
NilMeansDrained ==
  \A t \in Tasks : last[t] = "receive" /\ top[t] = Nil /\ Nil \notin sent => closed /\ count = 0

\* What a receive or a poll gave was sent on this channel, or is a nil for none.
OnlySentIsReceived ==
  \A t \in Tasks : last[t] \in {"receive", "try_receive"} => top[t] \in sent \cup {Nil}

\* head, tail and count are redundant in the ring and never disagree, at the
\* wrap-around and at the full and empty boundary (where head = tail) too.
RingConsistent == tail = (head + count) % Capacity

\* The count slots from head on hold values that were sent, at the wrap too: a
\* receive never delivers a slot that was not written.
LiveWindow == \A i \in 0 .. count - 1 : buffer[(head + i) % Capacity] \in sent

\* A task at a send still has the operand to retry with.
SenderReady == \A t \in Tasks : insn[t] = "send" => operand[t] \in Values

\* The inductive invariant of the ring: what the refinement rests on.
ChannelInv == /\ TypeOK
              /\ RingConsistent
              /\ LiveWindow
              /\ SenderReady
              /\ NilMeansDrained
              /\ OnlySentIsReceived

\* Once closed a channel only drains: no step reopens it or adds a value.
ClosedOnlyDrains == [][closed => closed' /\ count' <= count]_vars

\* A close releases every task blocked on the channel: a receiver gets a value
\* or nil, a sender is killed by the error.
CloseReleases ==
  \A t \in Tasks : closed /\ insn[t] \in {"send", "receive"} ~> insn[t] \in {"run", "dead"}

\* A full channel with a receiver at it, or an empty one with a sender at it,
\* does not stay so: neither side waits for the other without end.
NoStandoff ==
  /\ (count = Capacity /\ \E t \in Tasks : insn[t] = "receive") ~> count < Capacity
  /\ (count = 0 /\ ~closed /\ \E t \in Tasks : insn[t] = "send") ~> (count > 0 \/ closed)

\* Nobody waits for ever on a channel that has been closed, and the two sides of an
\* open one do not wait for each other for ever.
Settles == CloseReleases /\ NoStandoff

\* The ring implements the bounded FIFO queue of module FifoChannel.
Window(b, h, n) == [i \in 1 .. n |-> b[(h + i - 1) % Capacity]]
Contents == Window(buffer, head, count)
Fifo == INSTANCE FifoChannel WITH queue <- Contents
ImplementsFifo == Fifo!Spec
=============================================================================

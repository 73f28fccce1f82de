---------------------------- MODULE FifoChannel ----------------------------
(***************************************************************************)
(* What a Varian channel promises to the tasks that share it: a bounded    *)
(* first-in first-out queue that can be closed once.  A value whose send   *)
(* has returned is delivered in the order of the sends, a closed channel   *)
(* accepts nothing more and is drained before a receive returns the nil    *)
(* that stands for the end.                                                *)
(* Module Channel is the ring buffer that implements it.                   *)
(***************************************************************************)
EXTENDS Integers, Sequences

CONSTANTS Tasks,     \* the tasks that hold the channel
          Values,    \* what programs send, which may be nil
          Nil,       \* Varian's nil
          None,      \* no value
          Capacity   \* how many values the channel holds

VARIABLES queue,     \* the values accepted and not yet delivered, oldest first
          closed,    \* task.close() was called
          insn,      \* insn[t]: the channel instruction t is at, "run" between two
          operand,   \* operand[t]: the value t is sending, None when it is not
          top,       \* top[t]: what t's last channel operation pushed
          last       \* last[t]: which operation that was

vars == <<queue, closed, insn, operand, top, last>>

Init == /\ queue = << >>
        /\ closed = FALSE
        /\ insn = [t \in Tasks |-> "run"]
        /\ operand = [t \in Tasks |-> None]
        /\ top = [t \in Tasks |-> None]
        /\ last = [t \in Tasks |-> "none"]

Finish(t, op, v) == /\ insn' = [insn EXCEPT ![t] = "run"]
                    /\ operand' = [operand EXCEPT ![t] = None]
                    /\ top' = [top EXCEPT ![t] = v]
                    /\ last' = [last EXCEPT ![t] = op]

Begin(t, op, v) == /\ insn[t] = "run"
                   /\ insn' = [insn EXCEPT ![t] = op]
                   /\ operand' = [operand EXCEPT ![t] = v]
                   /\ top' = [top EXCEPT ![t] = None]
                   /\ last' = [last EXCEPT ![t] = "none"]
                   /\ UNCHANGED <<queue, closed>>

Accept(t) == /\ insn[t] = "send"
             /\ ~closed
             /\ Len(queue) < Capacity
             /\ queue' = Append(queue, operand[t])
             /\ Finish(t, "send", Nil)
             /\ UNCHANGED closed

Reject(t) == /\ insn[t] = "send"
             /\ closed
             /\ insn' = [insn EXCEPT ![t] = "dead"]
             /\ operand' = [operand EXCEPT ![t] = None]
             /\ UNCHANGED <<queue, closed, top, last>>

Deliver(t, op) == /\ queue # << >>
                  /\ queue' = Tail(queue)
                  /\ Finish(t, op, Head(queue))
                  /\ UNCHANGED closed

Receive(t) == insn[t] = "receive" /\ Deliver(t, "receive")

Drained(t) == /\ insn[t] = "receive"
              /\ queue = << >>
              /\ closed
              /\ Finish(t, "receive", Nil)
              /\ UNCHANGED <<queue, closed>>

Poll(t) == insn[t] = "run" /\ Deliver(t, "try_receive")

PollEmpty(t) == /\ insn[t] = "run"
                /\ queue = << >>
                /\ Finish(t, "try_receive", Nil)
                /\ UNCHANGED <<queue, closed>>

Close(t) == /\ insn[t] = "run"
            /\ closed' = TRUE
            /\ Finish(t, "close", Nil)
            /\ UNCHANGED queue

Next == \E t \in Tasks :
          \/ \E v \in Values : Begin(t, "send", v)
          \/ Begin(t, "receive", None)
          \/ Accept(t)
          \/ Reject(t)
          \/ Receive(t)
          \/ Drained(t)
          \/ Poll(t)
          \/ PollEmpty(t)
          \/ Close(t)

Spec == Init /\ [][Next]_vars
=============================================================================

--------------------------- MODULE ChannelProofs ---------------------------
(***************************************************************************)
(* The ring of module Channel, for every capacity, every set of tasks and  *)
(* every set of values, nil among them or not: its inductive invariant,    *)
(* what a nil from a receive means, that a closed channel only drains, and that the ring implements  *)
(* the FIFO queue of module FifoChannel.                                   *)
(***************************************************************************)
EXTENDS Channel, SequenceTheorems, TLAPS

-----------------------------------------------------------------------------
(* Arithmetic modulo the capacity. *)

\* task.channel() never makes a channel without room.
LEMMA CapacityPositive == Capacity \in Nat /\ Capacity > 0
  BY RequestedAssumption DEF Capacity

\* An index below the capacity is its own slot.
LEMMA ModSmall == ASSUME NEW c \in Nat, c > 0, NEW x \in Nat, x < c
                  PROVE  x % c = x
  BY SMT

\* An index less than one lap ahead wraps once.
LEMMA ModWrap == ASSUME NEW c \in Nat, c > 0, NEW x \in Nat, c <= x, x < 2 * c
                 PROVE  x % c = x - c
  BY SMT

\* Every index has a slot.
LEMMA ModRange == ASSUME NEW c \in Nat, c > 0, NEW x \in Nat, x < 2 * c
                  PROVE  x % c \in 0 .. c - 1
  BY ModSmall, ModWrap

\* Moving the start by one slot and then by i is moving it by i + 1.
LEMMA ModShift == ASSUME NEW c \in Nat, c > 0, NEW h \in 0 .. c - 1,
                         NEW i \in Nat, i < c
                  PROVE  (((h + 1) % c) + i) % c = (h + (i + 1)) % c
<1>1. CASE h + 1 < c
  <2>1. (h + 1) % c = h + 1
    BY <1>1, ModSmall
  <2>. QED BY <2>1
<1>2. CASE h + 1 = c
  <2>1. (h + 1) % c = 0
    BY <1>2, ModWrap
  <2>2. (0 + i) % c = i
    BY ModSmall
  <2>3. (h + (i + 1)) % c = i
    <3>1. h + (i + 1) \in Nat /\ c <= h + (i + 1) /\ h + (i + 1) < 2 * c
      BY <1>2
    <3>2. (h + (i + 1)) % c = (h + (i + 1)) - c
      BY <3>1, ModWrap
    <3>. QED BY <3>2, <1>2
  <2>. QED BY <2>1, <2>2, <2>3
<1>. QED BY <1>1, <1>2

\* Offsets less than a lap apart are different slots.
LEMMA ModDistinct == ASSUME NEW c \in Nat, c > 0, NEW h \in 0 .. c - 1,
                            NEW i \in Nat, NEW n \in Nat, i < n, n < c
                     PROVE  (h + i) % c # (h + n) % c
<1>1. (h + i) % c = IF h + i < c THEN h + i ELSE h + i - c
  BY ModSmall, ModWrap
<1>2. (h + n) % c = IF h + n < c THEN h + n ELSE h + n - c
  BY ModSmall, ModWrap
<1>. QED BY <1>1, <1>2

-----------------------------------------------------------------------------
(* The effect of the two ring operations, with the rest of ChannelInv. *)

RingInv == /\ buffer \in [Slots -> Values \cup {None}]
           /\ head \in Slots
           /\ tail \in Slots
           /\ count \in 0 .. Capacity
           /\ RingConsistent
           /\ LiveWindow
           /\ sent \subseteq Values

\* Storing a value in a ring that is not full keeps the ring well formed.
LEMMA PutKeepsRing ==
  ASSUME RingInv, count < Capacity, NEW v \in Values, Put(v), sent' = sent \cup {v}
  PROVE  RingInv'
<1>. USE CapacityPositive
<1>. DEFINE C == Capacity
<1>1. head \in Nat /\ head < C /\ count \in Nat /\ tail \in Nat /\ tail < C
  BY DEF RingInv, Slots
<1>2. buffer' \in [Slots -> Values \cup {None}]
  BY DEF RingInv, Put
<1>3. head' \in Slots /\ tail' \in Slots /\ count' \in 0 .. C
  <2>1. (tail + 1) % C \in 0 .. C - 1
    BY <1>1, ModRange
  <2>. QED BY <2>1, <1>1 DEF RingInv, Put, Slots
<1>4. RingConsistent'
  <2>1. tail = (head + count) % C
    BY DEF RingInv, RingConsistent
  <2>2. (tail + 1) % C = (head + (count + 1)) % C
    <3>1. CASE head + count < C
      <4>1. tail = head + count
        BY <2>1, <3>1, <1>1, ModSmall
      <4>. QED BY <4>1, <1>1
    <3>2. CASE head + count >= C
      <4>1. tail = head + count - C
        BY <2>1, <3>2, <1>1, ModWrap
      <4>2. tail + 1 < C
        BY <4>1, <1>1
      <4>3. (tail + 1) % C = tail + 1
        BY <4>2, <1>1, ModSmall
      <4>4. (head + (count + 1)) % C = (head + (count + 1)) - C
        <5>1. /\ head + (count + 1) \in Nat
              /\ C <= head + (count + 1)
              /\ head + (count + 1) < 2 * C
          BY <3>2, <1>1
        <5>. QED BY <5>1, ModWrap
      <4>. QED BY <4>1, <4>3, <4>4, <1>1
    <3>. QED BY <3>1, <3>2, <1>1
  <2>. QED BY <2>2 DEF Put, RingConsistent
<1>5. LiveWindow'
  <2>. SUFFICES ASSUME NEW i \in 0 .. count
                PROVE  buffer'[(head + i) % C] \in sent'
    BY <1>1 DEF LiveWindow, Put
  <2>1. (head + i) % C \in Slots
    BY <1>1, ModRange DEF Slots
  <2>2. CASE i < count
    BY <2>1, <2>2, <1>1 DEF RingInv, LiveWindow, Put
  <2>3. CASE i = count
    BY <2>1, <2>3 DEF RingInv, RingConsistent, Put
  <2>. QED BY <2>2, <2>3, <1>1
<1>6. sent' \subseteq Values
  BY DEF RingInv
<1>. QED BY <1>2, <1>3, <1>4, <1>5, <1>6 DEF RingInv

\* So does removing the oldest one.
LEMMA TakeKeepsRing ==
  ASSUME RingInv, count > 0, Take, sent' = sent
  PROVE  RingInv'
<1>. USE CapacityPositive
<1>. DEFINE C == Capacity
<1>1. head \in 0 .. C - 1 /\ count \in Nat /\ count <= C
  BY DEF RingInv, Slots
<1>2. buffer' \in [Slots -> Values \cup {None}]
  BY DEF RingInv, Take
<1>3. head' \in Slots /\ tail' \in Slots /\ count' \in 0 .. C
  <2>1. (head + 1) % C \in 0 .. C - 1
    BY <1>1, ModRange
  <2>. QED BY <2>1, <1>1 DEF RingInv, Take, Slots
<1>4. \A i \in 0 .. C - 1 : (head' + i) % C = (head + (i + 1)) % C
  BY <1>1, ModShift DEF Take
<1>5. RingConsistent'
  <2>1. count - 1 \in 0 .. C - 1
    BY <1>1
  <2>2. (head' + (count - 1)) % C = (head + ((count - 1) + 1)) % C
    BY <2>1, <1>4
  <2>3. (count - 1) + 1 = count
    BY <1>1
  <2>. QED BY <2>2, <2>3 DEF RingInv, RingConsistent, Take
<1>6. LiveWindow'
  <2>. SUFFICES ASSUME NEW i \in 0 .. count - 2
                PROVE  buffer[(head' + i) % C] \in sent
    BY <1>1 DEF LiveWindow, Take
  <2>1. i + 1 \in 0 .. count - 1 /\ i \in 0 .. C - 1
    BY <1>1
  <2>2. buffer[(head + (i + 1)) % C] \in sent
    BY <2>1 DEF RingInv, LiveWindow
  <2>. QED BY <2>1, <2>2, <1>4
<1>. QED BY <1>2, <1>3, <1>5, <1>6 DEF RingInv

\* The oldest value is one that was sent.
LEMMA HeadIsSent == ASSUME RingInv, count > 0
                    PROVE  buffer[head] \in sent /\ buffer[head] \in Values
<1>. USE CapacityPositive
<1>1. head \in Nat /\ head < Capacity /\ 0 \in 0 .. count - 1
  BY DEF RingInv, Slots
<1>2. (head + 0) % Capacity = head
  BY <1>1, ModSmall
<1>. QED BY <1>1, <1>2 DEF RingInv, LiveWindow

-----------------------------------------------------------------------------
(* The inductive invariant. *)

\* What ChannelInv says beyond the ring: the tasks' side of it.
TaskInv == /\ closed \in BOOLEAN
           /\ insn \in [Tasks -> Instructions]
           /\ operand \in [Tasks -> Values \cup {None}]
           /\ top \in [Tasks -> Values \cup {Nil, None}]
           /\ last \in [Tasks -> Operations]
           /\ SenderReady
           /\ NilMeansDrained
           /\ OnlySentIsReceived

LEMMA InvParts == ChannelInv <=> RingInv /\ TaskInv
  BY DEF ChannelInv, RingInv, TaskInv, TypeOK

LEMMA InitInv == Init => ChannelInv
<1>. SUFFICES ASSUME Init PROVE RingInv /\ TaskInv
  BY InvParts
<1>. USE CapacityPositive
<1>1. RingInv
  <2>1. 0 % Capacity = 0
    BY ModSmall
  <2>. QED BY <2>1 DEF Init, NewChannel, RingInv, Slots, RingConsistent, LiveWindow
<1>2. TaskInv
  BY DEF Init, NewChannel, TaskInv, Instructions, Operations, SenderReady, NilMeansDrained,
         OnlySentIsReceived
<1>. QED BY <1>1, <1>2

\* An operation that completes leaves the tasks' side in order, provided it gives
\* what was sent, and a nil that was not sent says the truth, now and for the
\* receives that came before.
LEMMA FinishKeepsTasks ==
  ASSUME TaskInv, NEW t \in Tasks, NEW op \in Operations, op # "none",
         NEW v \in Values \cup {Nil},
         Finish(t, op, v), closed' \in BOOLEAN, sent \subseteq sent',
         op \in {"receive", "try_receive"} => v \in sent' \cup {Nil},
         op = "receive" /\ v = Nil /\ Nil \notin sent' => closed' /\ count' = 0,
         closed /\ count = 0 => closed' /\ count' = 0
  PROVE  TaskInv'
<1>1. /\ insn' \in [Tasks -> Instructions]
      /\ operand' \in [Tasks -> Values \cup {None}]
      /\ top' \in [Tasks -> Values \cup {Nil, None}]
      /\ last' \in [Tasks -> Operations]
  BY DEF TaskInv, Finish, Instructions
<1>2. SenderReady'
  BY DEF TaskInv, Finish, SenderReady
<1>3. NilMeansDrained'
  BY DEF TaskInv, Finish, NilMeansDrained
<1>4. OnlySentIsReceived'
  BY DEF TaskInv, Finish, OnlySentIsReceived
<1>. QED BY <1>1, <1>2, <1>3, <1>4 DEF TaskInv

LEMMA NextInv == ChannelInv /\ [Next]_vars => ChannelInv'
<1>. SUFFICES ASSUME RingInv, TaskInv, [Next]_vars
              PROVE  RingInv' /\ TaskInv'
  BY DEF ChannelInv, RingInv, TaskInv, TypeOK
<1>. USE CapacityPositive
<1>types. count \in Nat /\ closed \in BOOLEAN
  BY DEF RingInv, TaskInv
<1>same. UNCHANGED <<ring, sent>> => RingInv'
  BY DEF ring, RingInv, RingConsistent, LiveWindow
<1>1. ASSUME NEW t \in Tasks, ReachSend(t) \/ ReachReceive(t)
      PROVE  RingInv' /\ TaskInv'
  <2>1. PICK op \in {"send", "receive"}, v \in Values \cup {None} :
             Reach(t, op, v) /\ (op = "send" => v \in Values)
    BY <1>1 DEF ReachSend, ReachReceive
  <2>2. RingInv'
    BY <1>same, <2>1 DEF Reach
  <2>3. /\ insn' \in [Tasks -> Instructions]
        /\ operand' \in [Tasks -> Values \cup {None}]
        /\ top' \in [Tasks -> Values \cup {Nil, None}]
        /\ last' \in [Tasks -> Operations]
        /\ closed' \in BOOLEAN
    BY <2>1 DEF TaskInv, Reach, Instructions, Operations
  <2>4. SenderReady'
    BY <2>1 DEF TaskInv, Reach, SenderReady
  <2>5. NilMeansDrained'
    BY <2>1 DEF TaskInv, Reach, NilMeansDrained, ring
  <2>6. OnlySentIsReceived'
    BY <2>1 DEF TaskInv, Reach, OnlySentIsReceived
  <2>. QED BY <2>2, <2>3, <2>4, <2>5, <2>6 DEF TaskInv
<1>2. ASSUME NEW t \in Tasks, ChanSend(t)
      PROVE  RingInv' /\ TaskInv'
  <2>1. operand[t] \in Values
    BY <1>2 DEF ChanSend, TaskInv, SenderReady
  <2>2. RingInv'
    BY <1>2, <2>1, PutKeepsRing DEF ChanSend
  <2>3. TaskInv'
    BY <1>2, <1>types, FinishKeepsTasks DEF ChanSend, Operations
  <2>. QED BY <2>2, <2>3
<1>3. ASSUME NEW t \in Tasks, ChanSendClosed(t)
      PROVE  RingInv' /\ TaskInv'
  <2>1. RingInv'
    BY <1>3, <1>same DEF ChanSendClosed
  <2>2. TaskInv'
    BY <1>3 DEF ChanSendClosed, TaskInv, Instructions, SenderReady, NilMeansDrained,
                OnlySentIsReceived, ring
  <2>. QED BY <2>1, <2>2
<1>4. ASSUME NEW t \in Tasks, ChanReceive(t)
      PROVE  RingInv' /\ TaskInv'
  <2>1. RingInv'
    BY <1>4, TakeKeepsRing DEF ChanReceive
  <2>2. buffer[head] \in Values /\ buffer[head] \in sent
    BY <1>4, HeadIsSent DEF ChanReceive
  <2>3. TaskInv'
    BY <1>4, <1>types, <2>2, FinishKeepsTasks DEF ChanReceive, Operations
  <2>. QED BY <2>1, <2>3
<1>5. ASSUME NEW t \in Tasks, ChanReceiveClosed(t)
      PROVE  RingInv' /\ TaskInv'
  <2>1. RingInv'
    BY <1>5, <1>same DEF ChanReceiveClosed
  <2>2. TaskInv'
    BY <1>5, <1>types, FinishKeepsTasks DEF ChanReceiveClosed, Operations, ring
  <2>. QED BY <2>1, <2>2
<1>6. ASSUME NEW t \in Tasks, TryReceive(t)
      PROVE  RingInv' /\ TaskInv'
  <2>1. CASE count > 0
    <3>1. RingInv'
      BY <1>6, <2>1, TakeKeepsRing DEF TryReceive
    <3>2. buffer[head] \in Values /\ buffer[head] \in sent
      BY <2>1, HeadIsSent
    <3>3. TaskInv'
      BY <1>6, <2>1, <1>types, <3>2, FinishKeepsTasks DEF TryReceive, Operations
    <3>. QED BY <3>1, <3>3
  <2>2. CASE ~(count > 0)
    <3>1. RingInv'
      BY <1>6, <2>2, <1>same DEF TryReceive
    <3>2. TaskInv'
      BY <1>6, <2>2, <1>types, FinishKeepsTasks DEF TryReceive, Operations, ring
    <3>. QED BY <3>1, <3>2
  <2>. QED BY <2>1, <2>2
<1>7. ASSUME NEW t \in Tasks, CloseChannel(t)
      PROVE  RingInv' /\ TaskInv'
  <2>1. RingInv'
    BY <1>7, <1>same DEF CloseChannel
  <2>2. TaskInv'
    BY <1>7, <1>types, FinishKeepsTasks DEF CloseChannel, Operations, ring
  <2>. QED BY <2>1, <2>2
<1>8. CASE UNCHANGED vars
  <2>1. RingInv'
    BY <1>8, <1>same DEF vars, ring
  <2>2. TaskInv'
    BY <1>8 DEF vars, TaskInv, SenderReady, NilMeansDrained, OnlySentIsReceived
  <2>. QED BY <2>1, <2>2
<1>. QED BY <1>1, <1>2, <1>3, <1>4, <1>5, <1>6, <1>7, <1>8 DEF Next, Execute

\* The ring is well formed and every value in it was sent, for every capacity.
THEOREM RingIsSound == Spec => []ChannelInv
  BY InitInv, NextInv, PTL DEF Spec

\* The fields keep their types.
THEOREM TypesAreKept == Spec => []TypeOK
<1>1. ChannelInv => TypeOK
  BY DEF ChannelInv
<1>. QED BY <1>1, RingIsSound, PTL

\* The shutdown signal, among programs that do not send nil: a nil from a blocking
\* receive means that the channel is closed and that everything sent on it has been
\* received.
THEOREM NilIsTheEnd == Spec => []NilMeansDrained
<1>1. ChannelInv => NilMeansDrained
  BY DEF ChannelInv
<1>. QED BY <1>1, RingIsSound, PTL

\* Nothing is added to a closed channel and nothing reopens it.
THEOREM ClosedDrains == Spec => ClosedOnlyDrains
<1>1. ChannelInv /\ [Next]_vars => (closed => closed' /\ count' <= count) \/ UNCHANGED vars
  <2>. SUFFICES ASSUME ChannelInv, Next, closed
                PROVE  closed' /\ count' <= count
    OBVIOUS
  <2>1. count \in Int
    BY DEF ChannelInv, TypeOK
  <2>. PICK t \in Tasks : \/ ReachSend(t) \/ ReachReceive(t) \/ Execute(t)
                          \/ TryReceive(t) \/ CloseChannel(t)
    BY DEF Next
  <2>2. CASE ReachSend(t) \/ ReachReceive(t)
    <3>1. UNCHANGED <<buffer, head, tail, count, closed>>
      BY <2>2 DEF ReachSend, ReachReceive, Reach, ring
    <3>. QED BY <2>1, <3>1
  <2>3. CASE Execute(t)
    <3>1. closed' = closed /\ (count' = count \/ count' = count - 1)
      BY <2>3 DEF Execute, ChanSend, ChanSendClosed, ChanReceive,
                  ChanReceiveClosed, Take, ring
    <3>. QED BY <2>1, <3>1
  <2>4. CASE TryReceive(t)
    BY <2>1, <2>4 DEF TryReceive, Take, ring
  <2>5. CASE CloseChannel(t)
    BY <2>1, <2>5 DEF CloseChannel, ring
  <2>. QED BY <2>2, <2>3, <2>4, <2>5
<1>. QED BY <1>1, RingIsSound, PTL DEF Spec, ClosedOnlyDrains

-----------------------------------------------------------------------------
(* The refinement: the ring read from head on is the queue of FifoChannel. *)

\* The window of n slots from h on, as a sequence.
LEMMA WindowIsSeq ==
  ASSUME NEW b, NEW h \in Slots, NEW n \in 0 .. Capacity,
         \A i \in 0 .. n - 1 : b[(h + i) % Capacity] \in Values
  PROVE  /\ Window(b, h, n) \in Seq(Values)
         /\ Len(Window(b, h, n)) = n
         /\ \A i \in 1 .. n : Window(b, h, n)[i] = b[(h + (i - 1)) % Capacity]
<1>1. n \in Nat /\ h \in Nat
  BY CapacityPositive DEF Slots
<1>2. \A i \in 1 .. n : h + i - 1 = h + (i - 1) /\ i - 1 \in 0 .. n - 1
  BY <1>1
<1>3. Window(b, h, n) \in [1 .. n -> Values]
  BY <1>2 DEF Window
<1>4. Window(b, h, n) \in Seq(Values)
  BY <1>1, <1>3, SeqDef
<1>5. Len(Window(b, h, n)) = n
  BY <1>1, <1>3, <1>4, LenProperties
<1>. QED BY <1>2, <1>4, <1>5 DEF Window

LEMMA ContentsIsSeq ==
  RingInv => /\ Contents \in Seq(Values)
             /\ Len(Contents) = count
             /\ \A i \in 1 .. count : Contents[i] = buffer[(head + (i - 1)) % Capacity]
  BY WindowIsSeq DEF RingInv, LiveWindow, Contents

LEMMA EmptyContents == ASSUME RingInv PROVE (Contents = << >>) <=> (count = 0)
  BY ContentsIsSeq, EmptySeq

\* Put is Append on the queue.
LEMMA PutAppends ==
  ASSUME RingInv, count < Capacity, NEW v \in Values, Put(v), sent' = sent \cup {v}
  PROVE  Contents' = Append(Contents, v)
<1>. USE CapacityPositive
<1>1. /\ count \in Nat /\ head \in 0 .. Capacity - 1
      /\ tail = (head + count) % Capacity
      /\ buffer \in [Slots -> Values \cup {None}]
  BY DEF RingInv, Slots, RingConsistent
<1>2. RingInv'
  BY PutKeepsRing
<1>3. /\ Contents' \in Seq(Values)
      /\ Len(Contents') = count + 1
      /\ \A i \in 1 .. count + 1 : Contents'[i] = buffer'[(head + (i - 1)) % Capacity]
  <2>1. /\ head' \in Slots /\ count' \in 0 .. Capacity
        /\ \A i \in 0 .. count' - 1 : buffer'[(head' + i) % Capacity] \in Values
    BY <1>2 DEF RingInv, LiveWindow
  <2>2. /\ Window(buffer', head', count') \in Seq(Values)
        /\ Len(Window(buffer', head', count')) = count'
        /\ \A i \in 1 .. count' : Window(buffer', head', count')[i]
                                    = buffer'[(head' + (i - 1)) % Capacity]
    BY <2>1, WindowIsSeq
  <2>. QED BY <2>2 DEF Contents, Put
<1>4. /\ Append(Contents, v) \in Seq(Values)
      /\ Len(Append(Contents, v)) = count + 1
      /\ \A i \in 1 .. count : Append(Contents, v)[i] = Contents[i]
      /\ Append(Contents, v)[count + 1] = v
  BY ContentsIsSeq, AppendProperties
<1>5. ASSUME NEW i \in 1 .. count + 1
      PROVE  Contents'[i] = Append(Contents, v)[i]
  <2>1. CASE i = count + 1
    <3>1. Contents'[i] = buffer'[tail]
      BY <1>1, <1>3, <2>1
    <3>2. buffer'[tail] = v
      BY <1>1 DEF RingInv, Put
    <3>. QED BY <1>4, <2>1, <3>1, <3>2
  <2>2. CASE i \in 1 .. count
    <3>1. i - 1 \in Nat /\ i - 1 < count /\ count < Capacity
      BY <2>2, <1>1
    <3>2. (head + (i - 1)) % Capacity # tail
      BY <1>1, <3>1, ModDistinct
    <3>3. buffer'[(head + (i - 1)) % Capacity] = buffer[(head + (i - 1)) % Capacity]
      <4>1. (head + (i - 1)) % Capacity \in Slots
        BY <1>1, <3>1, ModRange DEF Slots
      <4>. QED BY <1>1, <3>2, <4>1 DEF Put
    <3>4. Contents[i] = buffer[(head + (i - 1)) % Capacity]
      BY <2>2, ContentsIsSeq
    <3>5. i \in 1 .. count + 1 /\ Contents'[i] = buffer'[(head + (i - 1)) % Capacity]
      BY <1>3
    <3>6. Append(Contents, v)[i] = Contents[i]
      BY <1>4, <2>2
    <3>. QED BY <3>3, <3>4, <3>5, <3>6
  <2>3. i = count + 1 \/ i \in 1 .. count
    BY <1>1
  <2>. QED BY <2>1, <2>2, <2>3, Zenon
<1>. QED BY <1>3, <1>4, <1>5, SeqEqual, <1>1

\* Take is Tail, and what it returns is Head.
LEMMA TakeIsTail ==
  ASSUME RingInv, count > 0, Take, sent' = sent
  PROVE  /\ Contents' = Tail(Contents)
         /\ buffer[head] = Head(Contents)
<1>. USE CapacityPositive
<1>1. count \in Nat /\ head \in 0 .. Capacity - 1 /\ count <= Capacity
  BY DEF RingInv, Slots
<1>2. RingInv'
  BY TakeKeepsRing
<1>3. /\ Contents' \in Seq(Values)
      /\ Len(Contents') = count - 1
      /\ \A i \in 1 .. count - 1 : Contents'[i] = buffer[(head' + (i - 1)) % Capacity]
  <2>1. /\ head' \in Slots /\ count' \in 0 .. Capacity
        /\ \A i \in 0 .. count' - 1 : buffer'[(head' + i) % Capacity] \in Values
    BY <1>2 DEF RingInv, LiveWindow
  <2>2. /\ Window(buffer', head', count') \in Seq(Values)
        /\ Len(Window(buffer', head', count')) = count'
        /\ \A i \in 1 .. count' : Window(buffer', head', count')[i]
                                    = buffer'[(head' + (i - 1)) % Capacity]
    BY <2>1, WindowIsSeq
  <2>. QED BY <2>2 DEF Contents, Take
<1>4. /\ Contents \in Seq(Values) /\ Contents # << >> /\ Len(Contents) = count
      /\ \A i \in 1 .. count : Contents[i] = buffer[(head + (i - 1)) % Capacity]
  BY ContentsIsSeq, EmptyContents
<1>5. /\ Tail(Contents) \in Seq(Values)
      /\ Len(Tail(Contents)) = count - 1
      /\ \A i \in 1 .. count - 1 : Tail(Contents)[i] = Contents[i + 1]
  BY <1>4, HeadTailProperties
<1>6. ASSUME NEW i \in 1 .. count - 1
      PROVE  Contents'[i] = Tail(Contents)[i]
  <2>1. i - 1 \in Nat /\ i - 1 < Capacity /\ (i - 1) + 1 = i /\ i + 1 \in 1 .. count
        /\ (i + 1) - 1 = i
    BY <1>1
  <2>2. (head' + (i - 1)) % Capacity = (head + ((i - 1) + 1)) % Capacity
    BY <1>1, <2>1, ModShift DEF Take
  <2>3. Contents[i + 1] = buffer[(head + i) % Capacity]
    BY <1>4, <2>1
  <2>. QED BY <1>3, <1>5, <2>1, <2>2, <2>3
<1>7. Contents' = Tail(Contents)
  BY <1>1, <1>3, <1>5, <1>6, SeqEqual
<1>8. buffer[head] = Head(Contents)
  <2>1. Contents[1] = buffer[(head + 0) % Capacity]
    BY <1>1, <1>4
  <2>2. (head + 0) % Capacity = head
    BY <1>1, ModSmall
  <2>. QED BY <1>4, <2>1, <2>2
<1>. QED BY <1>7, <1>8

LEMMA InitRefines == Init => Fifo!Init
<1>. SUFFICES ASSUME Init PROVE Fifo!Init
  OBVIOUS
<1>1. RingInv
  BY InitInv, InvParts
<1>2. Contents = << >>
  BY <1>1, EmptyContents DEF Init, NewChannel
<1>. QED BY <1>2 DEF Init, NewChannel, Fifo!Init

LEMMA NextRefines == ChannelInv /\ [Next]_vars => [Fifo!Next]_(Fifo!vars)
<1>. SUFFICES ASSUME RingInv, TaskInv, [Next]_vars
              PROVE  Fifo!Next \/ UNCHANGED Fifo!vars
  BY DEF ChannelInv, RingInv, TaskInv, TypeOK
<1>same. UNCHANGED ring => UNCHANGED Contents
  BY DEF ring, Contents
<1>len. Len(Contents) = count /\ count \in Nat
  BY ContentsIsSeq DEF RingInv
<1>1. ASSUME NEW t \in Tasks, ReachSend(t)
      PROVE  Fifo!Next
  <2>1. PICK v \in Values : Reach(t, "send", v)
    BY <1>1 DEF ReachSend
  <2>2. Fifo!Begin(t, "send", v)
    BY <2>1, <1>same DEF Reach, Fifo!Begin
  <2>. QED BY <2>2 DEF Fifo!Next
<1>2. ASSUME NEW t \in Tasks, ReachReceive(t)
      PROVE  Fifo!Next
  <2>1. Fifo!Begin(t, "receive", None)
    BY <1>2, <1>same DEF ReachReceive, Reach, Fifo!Begin
  <2>. QED BY <2>1 DEF Fifo!Next
<1>3. ASSUME NEW t \in Tasks, ChanSend(t)
      PROVE  Fifo!Next
  <2>1. operand[t] \in Values
    BY <1>3 DEF ChanSend, TaskInv, SenderReady
  <2>2. Contents' = Append(Contents, operand[t])
    BY <1>3, <2>1, PutAppends DEF ChanSend
  <2>3. Fifo!Accept(t)
    BY <1>3, <2>2, <1>len DEF ChanSend, Finish, Fifo!Accept, Fifo!Finish
  <2>. QED BY <2>3 DEF Fifo!Next
<1>4. ASSUME NEW t \in Tasks, ChanSendClosed(t)
      PROVE  Fifo!Next
  <2>1. Fifo!Reject(t)
    BY <1>4, <1>same DEF ChanSendClosed, Fifo!Reject
  <2>. QED BY <2>1 DEF Fifo!Next
<1>5. ASSUME NEW t \in Tasks, ChanReceive(t)
      PROVE  Fifo!Next
  <2>1. /\ Contents # << >>
        /\ Contents' = Tail(Contents)
        /\ buffer[head] = Head(Contents)
    BY <1>5, TakeIsTail, EmptyContents DEF ChanReceive
  <2>2. Fifo!Receive(t)
    BY <1>5, <2>1 DEF ChanReceive, Finish, Fifo!Receive, Fifo!Deliver, Fifo!Finish
  <2>. QED BY <2>2 DEF Fifo!Next
<1>6. ASSUME NEW t \in Tasks, ChanReceiveClosed(t)
      PROVE  Fifo!Next
  <2>1. Contents = << >>
    BY <1>6, EmptyContents DEF ChanReceiveClosed
  <2>2. Fifo!Drained(t)
    BY <1>6, <2>1, <1>same DEF ChanReceiveClosed, Finish, Fifo!Drained, Fifo!Finish
  <2>. QED BY <2>2 DEF Fifo!Next
<1>7. ASSUME NEW t \in Tasks, TryReceive(t)
      PROVE  Fifo!Next
  <2>1. CASE count > 0
    <3>1. /\ Contents # << >>
          /\ Contents' = Tail(Contents)
          /\ buffer[head] = Head(Contents)
      BY <1>7, <2>1, TakeIsTail, EmptyContents DEF TryReceive
    <3>2. Fifo!Poll(t)
      BY <1>7, <2>1, <3>1 DEF TryReceive, Finish, Fifo!Poll, Fifo!Deliver, Fifo!Finish
    <3>. QED BY <3>2 DEF Fifo!Next
  <2>2. CASE ~(count > 0)
    <3>1. Contents = << >>
      BY <2>2, <1>len, EmptyContents
    <3>2. Fifo!PollEmpty(t)
      BY <1>7, <2>2, <3>1, <1>same DEF TryReceive, Finish, Fifo!PollEmpty, Fifo!Finish
    <3>. QED BY <3>2 DEF Fifo!Next
  <2>. QED BY <2>1, <2>2
<1>8. ASSUME NEW t \in Tasks, CloseChannel(t)
      PROVE  Fifo!Next
  <2>1. Fifo!Close(t)
    BY <1>8, <1>same DEF CloseChannel, Finish, Fifo!Close, Fifo!Finish
  <2>. QED BY <2>1 DEF Fifo!Next
<1>9. CASE UNCHANGED vars
  BY <1>9, <1>same DEF vars, ring, Fifo!vars
<1>. QED BY <1>1, <1>2, <1>3, <1>4, <1>5, <1>6, <1>7, <1>8, <1>9 DEF Next, Execute

\* The ring buffer implements the bounded FIFO queue: what tasks see of a
\* channel is what a queue that loses, repeats and reorders nothing shows them.
THEOREM RingImplementsFifo == Spec => ImplementsFifo
  BY InitRefines, NextRefines, RingIsSound, PTL DEF Spec, ImplementsFifo, Fifo!Spec
=============================================================================

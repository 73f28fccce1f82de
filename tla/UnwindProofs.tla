---------------------------- MODULE UnwindProofs ----------------------------
(***************************************************************************)
(* Proofs about module Unwind, for any depth of frames and of try blocks:  *)
(* in programs that leave a try block by its end or by a throw, and whose  *)
(* @cache functions are leaves that only a runtime error cuts short, the   *)
(* try stack matches the frames, throws go where module Exceptions says,   *)
(* and cache entries hold the results of their own calls.                  *)
(***************************************************************************)
EXTENDS Unwind, FiniteSetTheorems, FunctionTheorems, SequenceTheorems, TLAPS

Disciplined == /\ Uses = {}
               /\ \A a, b \in Arguments : Key(Cached, a) = Key(Cached, b) => a = b

-----------------------------------------------------------------------------
(* Stacks of frames, and of the records of try blocks. *)

Activations == [fn : Functions, args : Arguments \cup {<< >>}, open : Nat]
Handlers == [frame : Nat \ {0}, fn : Functions, level : Nat]

SetOpen(fs, i, n) == [fs EXCEPT ![i].open = n]
CutAt(fs, i, n) == SetOpen(SubSeq(fs, 1, i), i, n)

LEMMA SetOpenChanges ==
  ASSUME NEW fs \in Seq(Activations), NEW i \in 1 .. Len(fs), NEW n \in Nat
  PROVE  /\ SetOpen(fs, i, n) \in Seq(Activations)
         /\ Len(SetOpen(fs, i, n)) = Len(fs)
         /\ SetOpen(fs, i, n)[i].open = n
         /\ \A j \in 1 .. Len(fs) : /\ j # i => SetOpen(fs, i, n)[j] = fs[j]
                                    /\ SetOpen(fs, i, n)[j].fn = fs[j].fn
                                    /\ SetOpen(fs, i, n)[j].args = fs[j].args
<1>. DEFINE f == [fs[i] EXCEPT !.open = n]
<1>1. fs[i] \in Activations
  OBVIOUS
<1>2. f \in Activations /\ f.open = n /\ f.fn = fs[i].fn /\ f.args = fs[i].args
  BY <1>1 DEF Activations
<1>3. SetOpen(fs, i, n) = [fs EXCEPT ![i] = f]
  BY DEF SetOpen
<1>. HIDE DEF f
<1>. QED BY <1>2, <1>3

LEMMA CutAtCuts ==
  ASSUME NEW fs \in Seq(Activations), NEW i \in 1 .. Len(fs), NEW n \in Nat
  PROVE  /\ CutAt(fs, i, n) \in Seq(Activations)
         /\ Len(CutAt(fs, i, n)) = i
         /\ CutAt(fs, i, n)[i].open = n
         /\ \A j \in 1 .. i : /\ j # i => CutAt(fs, i, n)[j] = fs[j]
                              /\ CutAt(fs, i, n)[j].fn = fs[j].fn
                              /\ CutAt(fs, i, n)[j].args = fs[j].args
<1>. DEFINE gs == SubSeq(fs, 1, i)
<1>1. gs \in Seq(Activations) /\ Len(gs) = i /\ \A j \in 1 .. i : gs[j] = fs[j]
  OBVIOUS
<1>. HIDE DEF gs
<1>2. i \in 1 .. Len(gs)
  BY <1>1
<1>3. CutAt(fs, i, n) = SetOpen(gs, i, n)
  BY DEF CutAt, gs
<1>4. /\ SetOpen(gs, i, n) \in Seq(Activations)
      /\ Len(SetOpen(gs, i, n)) = Len(gs)
      /\ SetOpen(gs, i, n)[i].open = n
      /\ \A j \in 1 .. Len(gs) : /\ j # i => SetOpen(gs, i, n)[j] = gs[j]
                                 /\ SetOpen(gs, i, n)[j].fn = gs[j].fn
                                 /\ SetOpen(gs, i, n)[j].args = gs[j].args
  BY <1>1, <1>2, SetOpenChanges
<1>. QED BY <1>1, <1>3, <1>4

\* The records match the frames: each is of a block that its frame is in, they are
\* in the order of the frames and of the blocks, and no block is without one.
Matched(fs, ts) == \A r \in 1 .. Len(ts) : /\ ts[r].frame \in 1 .. Len(fs)
                                           /\ ts[r].fn = fs[ts[r].frame].fn
                                           /\ ts[r].level < fs[ts[r].frame].open
Ordered(ts) == \A q, r \in 1 .. Len(ts) :
                 q < r => /\ ts[q].frame <= ts[r].frame
                          /\ ts[q].frame = ts[r].frame => ts[q].level < ts[r].level
Complete(fs, ts) == \A i \in 1 .. Len(fs) : \A l \in 0 .. fs[i].open - 1 :
                      \E r \in 1 .. Len(ts) : ts[r].frame = i /\ ts[r].level = l
Nested(fs, ts) == Matched(fs, ts) /\ Ordered(ts) /\ Complete(fs, ts)

LEMMA Numbers ==
  ASSUME NEW fs \in Seq(Activations), NEW ts \in Seq(Handlers)
  PROVE  /\ Len(fs) \in Nat /\ Len(ts) \in Nat
         /\ \A i \in 1 .. Len(fs) : fs[i] \in Activations /\ fs[i].open \in Nat
         /\ \A r \in 1 .. Len(ts) : ts[r] \in Handlers /\ ts[r].frame \in Nat /\ ts[r].level \in Nat
<1>1. Len(fs) \in Nat /\ Len(ts) \in Nat
  OBVIOUS
<1>2. \A i \in 1 .. Len(fs) : fs[i] \in Activations
  OBVIOUS
<1>3. \A r \in 1 .. Len(ts) : ts[r] \in Handlers
  OBVIOUS
<1>4. \A f \in Activations : f.open \in Nat
  BY DEF Activations
<1>5. \A h \in Handlers : h.frame \in Nat /\ h.level \in Nat
  BY DEF Handlers
<1>. QED BY <1>1, <1>2, <1>3, <1>4, <1>5

LEMMA Pushed ==
  ASSUME NEW S, NEW s \in Seq(S), NEW x \in S
  PROVE  /\ Append(s, x) \in Seq(S)
         /\ Len(Append(s, x)) = Len(s) + 1
         /\ Append(s, x)[Len(s) + 1] = x
         /\ \A i \in 1 .. Len(s) : Append(s, x)[i] = s[i]
  OBVIOUS

Popped(s) == SubSeq(s, 1, Len(s) - 1)

LEMMA Pops ==
  ASSUME NEW S, NEW s \in Seq(S), Len(s) > 0
  PROVE  /\ Popped(s) \in Seq(S)
         /\ Len(Popped(s)) = Len(s) - 1
         /\ \A i \in 1 .. Len(s) - 1 : Popped(s)[i] = s[i]
<1>. DEFINE n == Len(s)
<1>1. n \in Nat /\ n > 0
  OBVIOUS
<1>2. \A i \in 1 .. n - 1 : s[i] \in S
  OBVIOUS
<1>. HIDE DEF n
<1>3. /\ Popped(s) \in Seq(S)
      /\ Len(Popped(s)) = IF 1 <= n - 1 THEN n - 1 - 1 + 1 ELSE 0
      /\ \A i \in 1 .. n - 1 - 1 + 1 : Popped(s)[i] = s[1 + i - 1]
  BY <1>1, <1>2, SubSeqProperties DEF Popped, n
<1>4. (IF 1 <= n - 1 THEN n - 1 - 1 + 1 ELSE 0) = n - 1
  BY <1>1
<1>5. \A i \in 1 .. n - 1 : i \in 1 .. n - 1 - 1 + 1 /\ 1 + i - 1 = i
  BY <1>1
<1>. QED BY <1>3, <1>4, <1>5 DEF n

LEMMA CallNests ==
  ASSUME NEW fs \in Seq(Activations), NEW ts \in Seq(Handlers), Nested(fs, ts),
         NEW f \in Activations, f.open = 0
  PROVE  Nested(Append(fs, f), ts)
<1>. DEFINE gs == Append(fs, f)
<1>1. Len(gs) = Len(fs) + 1 /\ gs[Len(fs) + 1] = f /\ \A i \in 1 .. Len(fs) : gs[i] = fs[i]
  BY Pushed
<1>. HIDE DEF gs
<1>2. Matched(gs, ts)
  BY <1>1, Numbers DEF Nested, Matched
<1>3. Complete(gs, ts)
  <2>. SUFFICES ASSUME NEW i \in 1 .. Len(fs) + 1, NEW l \in 0 .. gs[i].open - 1
                PROVE  \E r \in 1 .. Len(ts) : ts[r].frame = i /\ ts[r].level = l
    BY <1>1 DEF Complete
  <2>1. i \in 1 .. Len(fs) /\ gs[i] = fs[i]
    BY <1>1, Numbers
  <2>. QED BY <2>1 DEF Nested, Complete
<1>. QED BY <1>2, <1>3 DEF Nested, gs

LEMMA ReturnNests ==
  ASSUME NEW fs \in Seq(Activations), NEW ts \in Seq(Handlers), Nested(fs, ts),
         Len(fs) > 0, fs[Len(fs)].open = 0
  PROVE  Nested(Popped(fs), ts)
<1>. DEFINE n == Len(fs)
<1>1. n \in Nat /\ Len(Popped(fs)) = n - 1 /\ \A i \in 1 .. n - 1 : Popped(fs)[i] = fs[i]
  BY Pops, Numbers
<1>2. \A r \in 1 .. Len(ts) : ts[r].frame \in 1 .. n /\ ts[r].frame # n
  BY Numbers DEF Nested, Matched
<1>. HIDE DEF n
<1>3. \A r \in 1 .. Len(ts) : ts[r].frame \in 1 .. n - 1
  BY <1>1, <1>2
<1>4. Matched(Popped(fs), ts)
  BY <1>1, <1>3 DEF Nested, Matched
<1>5. Complete(Popped(fs), ts)
  <2>1. \A i \in 1 .. n - 1 : i \in 1 .. Len(fs) /\ Popped(fs)[i] = fs[i]
    BY <1>1 DEF n
  <2>. SUFFICES ASSUME NEW i \in 1 .. n - 1, NEW l \in 0 .. Popped(fs)[i].open - 1
                PROVE  \E r \in 1 .. Len(ts) : ts[r].frame = i /\ ts[r].level = l
    BY <1>1 DEF Complete
  <2>2. i \in 1 .. Len(fs) /\ l \in 0 .. fs[i].open - 1
    BY <2>1
  <2>3. \A j \in 1 .. Len(fs) : \A m \in 0 .. fs[j].open - 1 :
          \E r \in 1 .. Len(ts) : ts[r].frame = j /\ ts[r].level = m
    BY DEF Nested, Complete
  <2>. QED BY <2>2, <2>3
<1>. QED BY <1>4, <1>5 DEF Nested

LEMMA TryNests ==
  ASSUME NEW fs \in Seq(Activations), NEW ts \in Seq(Handlers), Nested(fs, ts), Len(fs) > 0,
         NEW h \in Handlers, h.frame = Len(fs), h.fn = fs[Len(fs)].fn, h.level = fs[Len(fs)].open
  PROVE  Nested(SetOpen(fs, Len(fs), fs[Len(fs)].open + 1), Append(ts, h))
<1>. DEFINE n == Len(fs)
            m == fs[n].open
            gs == SetOpen(fs, n, m + 1)
            us == Append(ts, h)
<1>1. n \in 1 .. Len(fs) /\ n \in Nat /\ m \in Nat /\ Len(ts) \in Nat
  BY Numbers
<1>2. /\ Len(gs) = n /\ gs[n].open = m + 1
      /\ \A j \in 1 .. n : gs[j].fn = fs[j].fn /\ (j # n => gs[j] = fs[j])
  BY <1>1, SetOpenChanges
<1>3. /\ Len(us) = Len(ts) + 1 /\ us[Len(ts) + 1] = h
      /\ \A r \in 1 .. Len(ts) : us[r] = ts[r]
  BY Pushed
<1>4. \A r \in 1 .. Len(ts) : ts[r].level \in Nat /\ ts[r].frame \in 1 .. n /\ ts[r].fn = fs[ts[r].frame].fn /\ ts[r].level < fs[ts[r].frame].open
  BY Numbers DEF Nested, Matched
<1>5. Len(fs) = n /\ h.frame = n /\ h.fn = fs[n].fn /\ h.level = m /\ fs[n].open = m
  OBVIOUS
<1>. HIDE DEF gs, us, n, m
<1>6. Matched(gs, us)
  <2>. SUFFICES ASSUME NEW r \in 1 .. Len(us)
                PROVE  us[r].frame \in 1 .. n /\ us[r].fn = gs[us[r].frame].fn /\ us[r].level < gs[us[r].frame].open
    BY <1>2 DEF Matched
  <2>1. CASE r = Len(ts) + 1
    BY <1>1, <1>2, <1>3, <1>5, <2>1
  <2>2. CASE r # Len(ts) + 1
    <3>1. r \in 1 .. Len(ts) /\ us[r] = ts[r]
      BY <1>1, <1>3, <2>2
    <3>2. /\ ts[r].level \in Nat /\ ts[r].frame \in 1 .. n
          /\ ts[r].fn = fs[ts[r].frame].fn /\ ts[r].level < fs[ts[r].frame].open
      BY <1>4, <3>1
    <3>3. CASE ts[r].frame = n
      BY <1>1, <1>2, <1>5, <3>1, <3>2, <3>3
    <3>4. CASE ts[r].frame # n
      BY <1>2, <3>1, <3>2, <3>4
    <3>. QED BY <3>3, <3>4
  <2>. QED BY <2>1, <2>2
<1>7. Ordered(us)
  <2>. SUFFICES ASSUME NEW q \in 1 .. Len(us), NEW r \in 1 .. Len(us), q < r
                PROVE  us[q].frame <= us[r].frame /\ (us[q].frame = us[r].frame => us[q].level < us[r].level)
    BY DEF Ordered
  <2>1. q \in 1 .. Len(ts) /\ us[q] = ts[q]
    BY <1>1, <1>3
  <2>2. CASE r = Len(ts) + 1
    BY <1>1, <1>3, <1>4, <1>5, <2>1, <2>2
  <2>3. CASE r # Len(ts) + 1
    <3>1. r \in 1 .. Len(ts) /\ us[r] = ts[r]
      BY <1>1, <1>3, <2>3
    <3>. QED BY <2>1, <3>1 DEF Nested, Ordered
  <2>. QED BY <2>2, <2>3
<1>8. Complete(gs, us)
  <2>. SUFFICES ASSUME NEW i \in 1 .. n, NEW l \in 0 .. gs[i].open - 1
                PROVE  \E r \in 1 .. Len(us) : us[r].frame = i /\ us[r].level = l
    BY <1>2 DEF Complete
  <2>1. CASE i = n /\ l = m
    BY <1>1, <1>3, <1>5, <2>1
  <2>2. CASE ~(i = n /\ l = m)
    <3>1. i \in 1 .. Len(fs) /\ l \in 0 .. fs[i].open - 1
      BY <1>1, <1>2, <1>5, <2>2
    <3>2. PICK r \in 1 .. Len(ts) : ts[r].frame = i /\ ts[r].level = l
      BY <3>1 DEF Nested, Complete
    <3>. QED BY <1>1, <1>3, <3>2
  <2>. QED BY <2>1, <2>2
<1>. QED BY <1>6, <1>7, <1>8 DEF Nested, gs, us, n, m

\* A throw goes to the block of the last record, and out of it.
LEMMA ThrowNests ==
  ASSUME NEW fs \in Seq(Activations), NEW ts \in Seq(Handlers), Nested(fs, ts), Len(ts) > 0,
         NEW h, h = ts[Len(ts)]
  PROVE  /\ h \in Handlers
         /\ h.frame \in 1 .. Len(fs) /\ h.fn = fs[h.frame].fn
         /\ h.level = fs[h.frame].open - 1
         /\ \A i \in h.frame + 1 .. Len(fs) : fs[i].open = 0
         /\ Nested(CutAt(fs, h.frame, h.level), Popped(ts))
<1>. DEFINE n == Len(ts)
            k == h.frame
            l == h.level
            gs == CutAt(fs, k, l)
            us == Popped(ts)
<1>1. n \in 1 .. Len(ts) /\ n \in Nat /\ h \in Handlers /\ Len(fs) \in Nat
  BY Numbers
<1>2. k \in 1 .. Len(fs) /\ h.fn = fs[k].fn /\ l < fs[k].open /\ l \in Nat /\ fs[k].open \in Nat /\ k \in Nat
  BY <1>1, Numbers DEF Nested, Matched
<1>3. \A r \in 1 .. n : /\ ts[r].frame \in 1 .. Len(fs) /\ ts[r].level \in Nat
                        /\ ts[r].fn = fs[ts[r].frame].fn /\ ts[r].level < fs[ts[r].frame].open
  BY Numbers DEF Nested, Matched
<1>4. \A r \in 1 .. n - 1 : ts[r].frame <= k /\ (ts[r].frame = k => ts[r].level < l)
  BY <1>1 DEF Nested, Ordered
<1>5. ts[n].frame = k /\ ts[n].level = l /\ Len(ts) = n
  OBVIOUS
<1>. HIDE DEF k, l
<1>6. /\ Len(gs) = k /\ gs[k].open = l
      /\ \A j \in 1 .. k : gs[j].fn = fs[j].fn /\ (j # k => gs[j] = fs[j])
  <2>1. k \in 1 .. Len(fs) /\ l \in Nat
    BY <1>2
  <2>2. /\ Len(CutAt(fs, k, l)) = k /\ CutAt(fs, k, l)[k].open = l
        /\ \A j \in 1 .. k : /\ j # k => CutAt(fs, k, l)[j] = fs[j]
                             /\ CutAt(fs, k, l)[j].fn = fs[j].fn
    BY <2>1, CutAtCuts
  <2>. QED BY <2>2
<1>7. Len(us) = n - 1 /\ \A r \in 1 .. n - 1 : us[r] = ts[r]
  BY Pops
<1>. HIDE DEF gs, us, n
<1>sizes. Len(gs) = k /\ Len(us) = n - 1
  BY <1>6, <1>7
<1>8. \A i \in 1 .. Len(fs) : \A m \in 0 .. fs[i].open - 1 : \E r \in 1 .. n : ts[r].frame = i /\ ts[r].level = m
  BY DEF Nested, Complete, n
<1>9. l = fs[k].open - 1
  <2>1. SUFFICES ASSUME l < fs[k].open - 1 PROVE FALSE
    BY <1>2
  <2>. DEFINE m == fs[k].open - 1
  <2>0. k \in 1 .. Len(fs) /\ m \in 0 .. fs[k].open - 1
    BY <1>2, <2>1
  <2>2. PICK r \in 1 .. n : ts[r].frame = k /\ ts[r].level = m
    BY <1>8, <2>0
  <2>3. CASE r = n
    BY <1>2, <1>5, <2>1, <2>2, <2>3
  <2>4. CASE r # n
    BY <1>1, <1>2, <1>4, <2>1, <2>2, <2>4
  <2>. QED BY <2>3, <2>4
<1>10. \A i \in k + 1 .. Len(fs) : fs[i].open = 0
  <2>1. SUFFICES ASSUME NEW i \in k + 1 .. Len(fs), fs[i].open # 0 PROVE FALSE
    OBVIOUS
  <2>2. i \in 1 .. Len(fs) /\ i > k
    BY <1>1, <1>2
  <2>3. fs[i].open \in Nat
    BY <2>2, Numbers
  <2>4. PICK r \in 1 .. n : ts[r].frame = i
    BY <1>8, <2>1, <2>2, <2>3
  <2>. QED BY <1>1, <1>2, <1>4, <1>5, <2>2, <2>4
<1>11. Matched(gs, us)
  <2>. SUFFICES ASSUME NEW r \in 1 .. n - 1
                PROVE  us[r].frame \in 1 .. k /\ us[r].fn = gs[us[r].frame].fn /\ us[r].level < gs[us[r].frame].open
    BY <1>sizes DEF Matched
  <2>1. us[r] = ts[r] /\ r \in 1 .. n
    BY <1>1, <1>7
  <2>2. us[r].frame \in 1 .. k
    BY <1>1, <1>2, <1>3, <1>4, <2>1
  <2>3. CASE us[r].frame = k
    BY <1>2, <1>3, <1>4, <1>6, <2>1, <2>3
  <2>4. CASE us[r].frame # k
    BY <1>3, <1>6, <2>1, <2>2, <2>4
  <2>. QED BY <2>2, <2>3, <2>4
<1>12. Ordered(us)
  <2>. SUFFICES ASSUME NEW q \in 1 .. n - 1, NEW r \in 1 .. n - 1, q < r
                PROVE  ts[q].frame <= ts[r].frame /\ (ts[q].frame = ts[r].frame => ts[q].level < ts[r].level)
    BY <1>7 DEF Ordered
  <2>1. q \in 1 .. Len(ts) /\ r \in 1 .. Len(ts)
    BY <1>1, <1>5
  <2>. QED BY <2>1 DEF Nested, Ordered
<1>13. Complete(gs, us)
  <2>. SUFFICES ASSUME NEW i \in 1 .. k, NEW m \in 0 .. gs[i].open - 1
                PROVE  \E r \in 1 .. n - 1 : us[r].frame = i /\ us[r].level = m
    BY <1>sizes DEF Complete
  <2>1. i \in 1 .. Len(fs) /\ m \in 0 .. fs[i].open - 1 /\ (i = k => m < l)
    BY <1>1, <1>2, <1>6
  <2>2. PICK r \in 1 .. n : ts[r].frame = i /\ ts[r].level = m
    BY <1>8, <2>1
  <2>3. r # n
    BY <1>2, <1>5, <2>1, <2>2
  <2>4. r \in 1 .. n - 1 /\ us[r] = ts[r]
    BY <1>1, <1>7, <2>3
  <2>. QED BY <2>2, <2>4
<1>14. Nested(gs, us)
  BY <1>11, <1>12, <1>13 DEF Nested
<1>. QED BY <1>1, <1>2, <1>9, <1>10, <1>14 DEF gs, us, k, l

-----------------------------------------------------------------------------
(* Counting: a frame's records are as many as its open blocks. *)

Below(ts, i, m) == {q \in 1 .. Len(ts) : ts[q].frame = i /\ ts[q].level < m}

LEMMA Intervals ==
  ASSUME NEW n \in Nat
  PROVE  /\ IsFiniteSet(1 .. n) /\ Cardinality(1 .. n) = n
         /\ IsFiniteSet(0 .. n - 1) /\ Cardinality(0 .. n - 1) = n
<1>1. 0 \in Int /\ 1 \in Int /\ n \in Int /\ n - 1 \in Int
  OBVIOUS
<1>2. /\ IsFiniteSet(1 .. n) /\ Cardinality(1 .. n) = IF 1 > n THEN 0 ELSE n - 1 + 1
      /\ IsFiniteSet(0 .. n - 1) /\ Cardinality(0 .. n - 1) = IF 0 > n - 1 THEN 0 ELSE n - 1 - 0 + 1
  BY <1>1, FS_Interval, Zenon
<1>. QED BY <1>2

LEMMA BelowCounts ==
  ASSUME NEW fs \in Seq(Activations), NEW ts \in Seq(Handlers), Nested(fs, ts),
         NEW i \in 1 .. Len(fs), NEW m \in 0 .. fs[i].open
  PROVE  Cardinality(Below(ts, i, m)) = m
<1>. DEFINE B == Below(ts, i, m)
            f == [q \in B |-> ts[q].level]
<1>1. fs[i].open \in Nat /\ m \in Nat
  BY Numbers
<1>2. \A q \in B : q \in 1 .. Len(ts) /\ ts[q].frame = i /\ ts[q].level < m /\ ts[q].level \in Nat
  BY Numbers DEF Below
<1>3. f \in [B -> 0 .. m - 1]
  BY <1>1, <1>2
<1>4. \A q, r \in B : f[q] = f[r] => q = r
  <2>. SUFFICES ASSUME NEW q \in B, NEW r \in B, ts[q].level = ts[r].level, q # r PROVE FALSE
    OBVIOUS
  <2>1. /\ q \in 1 .. Len(ts) /\ r \in 1 .. Len(ts) /\ ts[q].frame = ts[r].frame
        /\ ts[q].level \in Nat /\ ts[r].level \in Nat
    BY <1>2
  <2>2. Len(ts) \in Nat
    BY Numbers
  <2>3. q < r \/ r < q
    BY <2>1, <2>2
  <2>. QED BY <2>1, <2>3 DEF Nested, Ordered
<1>5. \A l \in 0 .. m - 1 : \E q \in B : f[q] = l
  <2>. SUFFICES ASSUME NEW l \in 0 .. m - 1 PROVE \E q \in B : f[q] = l
    OBVIOUS
  <2>1. l \in 0 .. fs[i].open - 1 /\ l < m
    BY <1>1
  <2>2. PICK q \in 1 .. Len(ts) : ts[q].frame = i /\ ts[q].level = l
    BY <2>1 DEF Nested, Complete
  <2>3. q \in B
    BY <2>1, <2>2 DEF Below
  <2>. QED BY <2>2, <2>3
<1>6. IsFiniteSet(0 .. m - 1) /\ Cardinality(0 .. m - 1) = m
  BY <1>1, Intervals
<1>. HIDE DEF f, B
<1>7. f \in Bijection(B, 0 .. m - 1)
  BY <1>3, <1>4, <1>5 DEF Bijection, Injection, Surjection, IsInjective
<1>8. ExistsBijection(0 .. m - 1, B)
  BY <1>7, Fun_ExistsBijSymmetric DEF ExistsBijection
<1>. QED BY <1>6, <1>8, FS_Bijection DEF B

LEMMA NestedCounts ==
  ASSUME NEW fs \in Seq(Activations), NEW ts \in Seq(Handlers), Nested(fs, ts)
  PROVE  /\ \A i \in 1 .. Len(fs) : /\ Cardinality({q \in 1 .. Len(ts) : ts[q].frame = i}) = fs[i].open
                                    /\ fs[i].open <= Len(ts)
         /\ \A r \in 1 .. Len(ts) :
              Cardinality({q \in {p \in 1 .. Len(ts) : ts[p].frame = ts[r].frame} : q < r}) = ts[r].level
<1>1. ASSUME NEW i \in 1 .. Len(fs)
      PROVE  /\ Cardinality({q \in 1 .. Len(ts) : ts[q].frame = i}) = fs[i].open
             /\ fs[i].open <= Len(ts)
  <2>1. fs[i].open \in Nat /\ fs[i].open \in 0 .. fs[i].open /\ Len(ts) \in Nat
    BY Numbers
  <2>2. {q \in 1 .. Len(ts) : ts[q].frame = i} = Below(ts, i, fs[i].open)
    BY DEF Nested, Matched, Below
  <2>3. Cardinality(Below(ts, i, fs[i].open)) = fs[i].open
    BY <2>1, BelowCounts
  <2>4. IsFiniteSet(1 .. Len(ts)) /\ Cardinality(1 .. Len(ts)) = Len(ts)
    BY <2>1, Intervals
  <2>5. Below(ts, i, fs[i].open) \in SUBSET (1 .. Len(ts))
    BY DEF Below
  <2>6. Cardinality(Below(ts, i, fs[i].open)) <= Cardinality(1 .. Len(ts))
    BY <2>4, <2>5, FS_Subset
  <2>. QED BY <2>2, <2>3, <2>4, <2>6
<1>2. ASSUME NEW r \in 1 .. Len(ts)
      PROVE  Cardinality({q \in {p \in 1 .. Len(ts) : ts[p].frame = ts[r].frame} : q < r}) = ts[r].level
  <2>. DEFINE i == ts[r].frame
              l == ts[r].level
  <2>1. i \in 1 .. Len(fs) /\ l \in Nat /\ l < fs[i].open /\ fs[i].open \in Nat /\ Len(ts) \in Nat
    BY Numbers DEF Nested, Matched
  <2>2. \A q \in 1 .. Len(ts) : ts[q].frame = i => (q < r <=> ts[q].level < l)
    <3>. SUFFICES ASSUME NEW q \in 1 .. Len(ts), ts[q].frame = i PROVE q < r <=> ts[q].level < l
      OBVIOUS
    <3>1. ts[q].level \in Nat
      BY Numbers
    <3>2. q < r => ts[q].level < l
      BY DEF Nested, Ordered
    <3>3. r < q => l < ts[q].level
      BY DEF Nested, Ordered
    <3>. QED BY <2>1, <3>1, <3>2, <3>3
  <2>3. {q \in {p \in 1 .. Len(ts) : ts[p].frame = i} : q < r} = Below(ts, i, l)
    BY <2>2 DEF Below
  <2>. HIDE DEF i, l
  <2>4. l \in 0 .. fs[i].open
    BY <2>1
  <2>5. Cardinality(Below(ts, i, l)) = l
    BY <2>1, <2>4, BelowCounts
  <2>. QED BY <2>3, <2>5 DEF i, l
<1>. QED BY <1>1, <1>2

-----------------------------------------------------------------------------
(* The inductive invariant. *)

Shape == /\ frames \in Seq(Activations) /\ Depth <= MaxFrames
         /\ tryStack \in Seq(Handlers) /\ Tries <= MaxTries
         /\ budget \in 0 .. Retries
         /\ cacheOnReturn \in BOOLEAN
         /\ status \in {"running", "done", "dead"}
         /\ status = "running" => Depth > 0

\* Each entry of the cache is of a call of the @cache function.
Entries == \A e \in cache : \E a \in Arguments : e.key = Key(Cached, a) /\ e.of = <<Cached, a>>

\* While the next return is to be stored, the next to return is the call that asked.
Armed == cacheOnReturn /\ status = "running" =>
           Top.fn = Cached /\ Top.args \in Arguments /\ cacheKey = Key(Cached, Top.args)

IInv == Shape /\ Nested(frames, tryStack) /\ Entries /\ Armed /\ HitsAreOwn

Cache == <<cacheOnReturn, cacheKey, cache, hit>>

\* The three functions are different.
LEMMA Different == Plain # Cached /\ Retried # Cached /\ Plain # Retried
<1>1. ASSUME NEW a, NEW b PROVE Cardinality({a, b}) # 3
  <2>1. IsFiniteSet({a}) /\ Cardinality({a}) = 1
    BY FS_Singleton
  <2>2. Cardinality({a} \cup {b}) = IF b \in {a} THEN 1 ELSE 1 + 1
    BY <2>1, FS_AddElement
  <2>3. {a, b} = {a} \cup {b}
    OBVIOUS
  <2>. QED BY <2>2, <2>3
<1>2. Cardinality({Plain, Retried, Cached}) = 3
  BY UnwindAssumption DEF Functions
<1>3. CASE Plain = Cached
  BY <1>1, <1>2, <1>3, {Plain, Retried, Cached} = {Plain, Retried}
<1>4. CASE Retried = Cached
  BY <1>1, <1>2, <1>4, {Plain, Retried, Cached} = {Plain, Retried}
<1>5. CASE Plain = Retried
  BY <1>1, <1>2, <1>5, {Plain, Retried, Cached} = {Plain, Cached}
<1>. QED BY <1>3, <1>4, <1>5

LEMMA IsEmpty ==
  ASSUME NEW S, NEW s \in Seq(S)
  PROVE  (s = << >> <=> Len(s) = 0) /\ Len(s) \in Nat
  BY EmptySeq

LEMMA FrameIsActivation ==
  ASSUME NEW f \in Functions, NEW args \in Arguments \cup {<< >>}
  PROVE  /\ Frame(f, args) \in Activations
         /\ Frame(f, args).open = 0 /\ Frame(f, args).fn = f /\ Frame(f, args).args = args
  BY DEF Frame, Activations

\* An error that kills the task leaves the rest as it is.
LEMMA FatalSteps ==
  ASSUME IInv, Fatal, budget' = budget, cacheOnReturn' \in BOOLEAN, UNCHANGED <<cache, hit>>
  PROVE  IInv'
  BY DEF IInv, Shape, Fatal, Entries, Armed, HitsAreOwn, Depth, Tries

LEMMA PushSteps ==
  ASSUME IInv, NEW f \in Functions, NEW args \in Arguments \cup {<< >>}, status = "running",
         Depth < MaxFrames, frames' = Append(frames, Frame(f, args)), UNCHANGED <<tryStack, status>>
  PROVE  /\ frames' \in Seq(Activations) /\ Depth' <= MaxFrames /\ Depth' > 0
         /\ Nested(frames', tryStack')
         /\ Top'.fn = f /\ Top'.args = args
<1>1. /\ Frame(f, args) \in Activations
      /\ Frame(f, args).open = 0 /\ Frame(f, args).fn = f /\ Frame(f, args).args = args
  BY FrameIsActivation
<1>2. /\ frames \in Seq(Activations) /\ tryStack \in Seq(Handlers) /\ Nested(frames, tryStack) /\ Len(frames) \in Nat
  BY Numbers DEF IInv, Shape
<1>. DEFINE g == Frame(f, args)
<1>. HIDE DEF g
<1>3. /\ frames' \in Seq(Activations) /\ Len(frames') = Len(frames) + 1
      /\ frames'[Len(frames) + 1] = g
  BY <1>1, <1>2, Pushed DEF g
<1>4. Nested(frames', tryStack')
  BY <1>1, <1>2, CallNests DEF g
<1>5. MaxFrames \in Nat
  BY UnwindAssumption
<1>. QED BY <1>1, <1>2, <1>3, <1>4, <1>5 DEF Depth, Top, g

LEMMA CallSteps == ASSUME Disciplined, IInv, Call PROVE IInv'
<1>1. PICK f \in {Plain, Retried} : MayCall /\ Push(f, << >>)
  BY DEF Call
<1>2. status = "running" /\ Top.fn # Cached /\ UNCHANGED <<decorators, hit>>
  BY <1>1 DEF Call, MayCall, Disciplined
<1>3. ~cacheOnReturn
  BY <1>2 DEF IInv, Armed
<1>4. CASE Depth < MaxFrames
  <2>1. f \in Functions /\ << >> \in Arguments \cup {<< >>}
    BY DEF Functions
  <2>2. frames' = Append(frames, Frame(f, << >>)) /\ UNCHANGED <<tryStack, status>>
    BY <1>1, <1>4 DEF Push
  <2>3. /\ frames' \in Seq(Activations) /\ Depth' <= MaxFrames /\ Depth' > 0
        /\ Nested(frames', tryStack')
    BY <1>2, <1>4, <2>1, <2>2, PushSteps
  <2>. QED BY <1>2, <1>3, <2>2, <2>3 DEF IInv, Shape, Entries, Armed, HitsAreOwn, Tries, decorators
<1>5. CASE ~(Depth < MaxFrames)
  BY <1>1, <1>2, <1>5, FatalSteps DEF Push, IInv, Shape, decorators
<1>. QED BY <1>4, <1>5

\* A hit finds an entry of the same call: the keys of two lists of arguments differ.
LEMMA CacheHitSteps == ASSUME Disciplined, IInv, CacheHit PROVE IInv'
<1>1. PICK args \in Arguments, e \in cache :
        e.key = Key(Cached, args) /\ hit' = [asked |-> args, given |-> e.of]
  BY DEF CacheHit
<1>2. UNCHANGED <<frames, tryStack, decorators, status>>
  BY DEF CacheHit
<1>3. PICK a \in Arguments : e.key = Key(Cached, a) /\ e.of = <<Cached, a>>
  BY DEF IInv, Entries
<1>4. a = args
  BY <1>1, <1>3 DEF Disciplined
<1>5. HitsAreOwn'
  BY <1>1, <1>3, <1>4 DEF HitsAreOwn
<1>. QED BY <1>2, <1>5 DEF IInv, Shape, Entries, Armed, Depth, Tries, Top, decorators

LEMMA CacheMissSteps == ASSUME Disciplined, IInv, CacheMiss PROVE IInv'
<1>1. PICK args \in Arguments : /\ MayCall /\ Push(Cached, args)
                                /\ cacheOnReturn' = TRUE /\ cacheKey' = Key(Cached, args)
                                /\ UNCHANGED <<budget, cache, hit>>
  BY DEF CacheMiss
<1>2. status = "running"
  BY <1>1 DEF MayCall
<1>4. CASE Depth < MaxFrames
  <2>1. Cached \in Functions /\ args \in Arguments \cup {<< >>}
    BY DEF Functions
  <2>2. frames' = Append(frames, Frame(Cached, args)) /\ UNCHANGED <<tryStack, status>>
    BY <1>1, <1>4 DEF Push
  <2>3. /\ frames' \in Seq(Activations) /\ Depth' <= MaxFrames /\ Depth' > 0
        /\ Nested(frames', tryStack') /\ Top'.fn = Cached /\ Top'.args = args
    BY <1>2, <1>4, <2>1, <2>2, PushSteps
  <2>. QED BY <1>1, <2>2, <2>3 DEF IInv, Shape, Entries, Armed, HitsAreOwn, Tries
<1>5. CASE ~(Depth < MaxFrames)
  BY <1>1, <1>5, FatalSteps DEF Push
<1>. QED BY <1>4, <1>5

LEMMA PopSteps ==
  ASSUME Disciplined, IInv, MayLeave, Pop
  PROVE  /\ frames' \in Seq(Activations) /\ Depth' <= MaxFrames /\ Depth' = Depth - 1
         /\ Nested(frames', tryStack')
         /\ status' \in {"running", "done", "dead"}
         /\ status' = "running" => Depth' > 0
         /\ UNCHANGED tryStack
<1>1. status = "running" /\ Top.open \in Nat /\ ~(Top.open > 0)
  BY Numbers DEF MayLeave, Disciplined, IInv, Shape, Top, Depth
<1>2. /\ frames \in Seq(Activations) /\ tryStack \in Seq(Handlers) /\ Nested(frames, tryStack)
      /\ Len(frames) \in Nat /\ Len(frames) > 0 /\ Len(frames) <= MaxFrames
  BY <1>1, Numbers DEF IInv, Shape, Depth
<1>3. frames[Len(frames)].open = 0
  BY <1>1 DEF Top, Depth
<1>4. frames' = Popped(frames) /\ UNCHANGED tryStack
  BY DEF Pop, Popped, Depth
<1>5. frames' \in Seq(Activations) /\ Len(frames') = Len(frames) - 1
  BY <1>2, <1>4, Pops
<1>6. Nested(frames', tryStack')
  BY <1>2, <1>3, <1>4, ReturnNests
<1>7. MaxFrames \in Nat
  BY UnwindAssumption
<1>. QED BY <1>1, <1>2, <1>4, <1>5, <1>6, <1>7 DEF Pop, Depth

LEMMA ReturnSteps == ASSUME Disciplined, IInv, Return PROVE IInv'
<1>1. /\ frames' \in Seq(Activations) /\ Depth' <= MaxFrames
      /\ Nested(frames', tryStack')
      /\ status' \in {"running", "done", "dead"}
      /\ status' = "running" => Depth' > 0
      /\ UNCHANGED tryStack
  BY PopSteps DEF Return
<1>2. cacheOnReturn' = FALSE /\ UNCHANGED <<budget, cacheKey, hit>> /\ status = "running"
  BY DEF Return, MayLeave
<1>3. Entries'
  <2>. SUFFICES ASSUME NEW e \in cache'
                PROVE  \E a \in Arguments : e.key = Key(Cached, a) /\ e.of = <<Cached, a>>
    BY DEF Entries
  <2>1. CASE e \in cache
    BY <2>1 DEF IInv, Entries
  <2>2. CASE e \notin cache
    <3>1. cacheOnReturn /\ e = [key |-> cacheKey, of |-> <<Top.fn, Top.args>>]
      BY <2>2 DEF Return
    <3>2. Top.fn = Cached /\ Top.args \in Arguments /\ cacheKey = Key(Cached, Top.args)
      BY <1>2, <3>1 DEF IInv, Armed
    <3>. QED BY <3>1, <3>2
  <2>. QED BY <2>1, <2>2
<1>. QED BY <1>1, <1>2, <1>3 DEF IInv, Shape, Armed, HitsAreOwn, Tries

LEMMA ReturnOtherSteps == ASSUME Disciplined, IInv, ReturnOther PROVE IInv'
<1>1. /\ frames' \in Seq(Activations) /\ Depth' <= MaxFrames
      /\ Nested(frames', tryStack')
      /\ status' \in {"running", "done", "dead"}
      /\ status' = "running" => Depth' > 0
      /\ UNCHANGED tryStack
  BY PopSteps DEF ReturnOther
<1>2. UNCHANGED <<decorators, hit>> /\ status = "running" /\ Top.fn # Cached
  BY DEF ReturnOther, MayLeave, Disciplined
<1>3. ~cacheOnReturn
  BY <1>2 DEF IInv, Armed
<1>. QED BY <1>1, <1>2, <1>3 DEF IInv, Shape, Armed, Entries, HitsAreOwn, Tries, decorators

\* A change of the block that the top frame is in keeps its function and arguments.
LEMMA TopSteps ==
  ASSUME IInv, status = "running", NEW n \in Nat, frames' = SetOpen(frames, Depth, n)
  PROVE  /\ frames' \in Seq(Activations) /\ Depth' = Depth /\ Depth > 0 /\ Depth <= MaxFrames
         /\ Top'.fn = Top.fn /\ Top'.args = Top.args
<1>1. frames \in Seq(Activations) /\ Len(frames) > 0 /\ Len(frames) <= MaxFrames /\ Len(frames) \in Nat
  BY Numbers DEF IInv, Shape, Depth
<1>. DEFINE gs == SetOpen(frames, Len(frames), n)
<1>2. /\ gs \in Seq(Activations) /\ Len(gs) = Len(frames)
      /\ gs[Len(frames)].fn = frames[Len(frames)].fn /\ gs[Len(frames)].args = frames[Len(frames)].args
  <2>1. Len(frames) \in 1 .. Len(frames)
    BY <1>1
  <2>. QED BY <1>1, <2>1, SetOpenChanges
<1>3. frames' = gs
  BY DEF Depth
<1>. HIDE DEF gs
<1>. QED BY <1>1, <1>2, <1>3 DEF Top, Depth

LEMMA TrySteps == ASSUME IInv, Try PROVE IInv'
<1>1. status = "running" /\ UNCHANGED <<decorators, hit>>
  BY DEF Try
<1>2. CASE Tries < MaxTries
  <2>. DEFINE h == [frame |-> Depth, fn |-> Top.fn, level |-> Top.open]
              n == frames[Depth].open + 1
  <2>1. /\ tryStack' = Append(tryStack, h) /\ frames' = SetOpen(frames, Depth, n) /\ UNCHANGED status
    BY <1>2 DEF Try, SetOpen
  <2>2. /\ frames \in Seq(Activations) /\ tryStack \in Seq(Handlers) /\ Nested(frames, tryStack)
        /\ Depth = Len(frames) /\ Depth > 0 /\ Depth \in Nat /\ Tries \in Nat /\ Tries = Len(tryStack)
    BY <1>1, Numbers DEF IInv, Shape, Depth, Tries
  <2>3. Top \in Activations /\ Top = frames[Depth]
    BY <2>2 DEF Top
  <2>4. Top.fn \in Functions /\ Top.open \in Nat
    BY <2>3 DEF Activations
  <2>5. h \in Handlers /\ h.frame = Depth /\ h.fn = Top.fn /\ h.level = Top.open
    BY <2>2, <2>4 DEF Handlers
  <2>. HIDE DEF h
  <2>6. tryStack' \in Seq(Handlers) /\ Len(tryStack') = Tries + 1
    BY <2>1, <2>2, <2>5, Pushed
  <2>7. Nested(frames', tryStack')
    BY <2>1, <2>2, <2>3, <2>5, TryNests
  <2>8. n \in Nat
    BY <2>3, <2>4
  <2>. HIDE DEF n
  <2>9. /\ frames' \in Seq(Activations) /\ Depth' = Depth /\ Depth <= MaxFrames
        /\ Top'.fn = Top.fn /\ Top'.args = Top.args
    BY <1>1, <2>1, <2>8, TopSteps
  <2>10. MaxTries \in Nat
    BY UnwindAssumption
  <2>11. Shape'
    BY <1>1, <1>2, <2>1, <2>2, <2>6, <2>9, <2>10 DEF IInv, Shape, Tries, decorators
  <2>12. Armed'
    BY <1>1, <2>1, <2>9 DEF IInv, Armed, decorators
  <2>. QED BY <1>1, <2>7, <2>11, <2>12 DEF IInv, Entries, HitsAreOwn, decorators
<1>3. CASE ~(Tries < MaxTries)
  <2>1. Fatal
    BY <1>3 DEF Try
  <2>. QED BY <1>1, <2>1, FatalSteps DEF decorators, IInv, Shape
<1>. QED BY <1>2, <1>3

\* The last record is that of the innermost block of the top frame, if there is one.
LEMMA LastIsTop ==
  ASSUME NEW fs \in Seq(Activations), NEW ts \in Seq(Handlers), Nested(fs, ts),
         Len(fs) > 0, fs[Len(fs)].open > 0
  PROVE  /\ Len(ts) > 0 /\ ts[Len(ts)].frame = Len(fs)
         /\ ts[Len(ts)].level = fs[Len(fs)].open - 1
<1>. DEFINE n == Len(fs)
<1>1. n \in 1 .. Len(fs) /\ fs[n].open \in Nat /\ n \in Nat /\ Len(ts) \in Nat /\ 0 \in 0 .. fs[n].open - 1
  BY Numbers
<1>2. PICK r \in 1 .. Len(ts) : ts[r].frame = n
  BY <1>1 DEF Nested, Complete
<1>3. Len(ts) > 0
  BY <1>1, <1>2
<1>4. PICK h : h = ts[Len(ts)]
  OBVIOUS
<1>5. /\ h.frame \in 1 .. n /\ h.level = fs[h.frame].open - 1
      /\ \A i \in h.frame + 1 .. n : fs[i].open = 0
  BY <1>3, <1>4, ThrowNests
<1>6. h.frame = n
  BY <1>1, <1>5
<1>. QED BY <1>3, <1>4, <1>5, <1>6

LEMMA EndTrySteps == ASSUME IInv, EndTry PROVE IInv'
<1>. DEFINE k == Depth
            n == frames[k].open - 1
<1>1. /\ status = "running" /\ Top.open > 0 /\ tryStack' = DropLast(tryStack)
      /\ frames' = SetOpen(frames, k, n) /\ UNCHANGED <<decorators, status, hit>>
  BY DEF EndTry, SetOpen
<1>2. /\ frames \in Seq(Activations) /\ tryStack \in Seq(Handlers) /\ Nested(frames, tryStack)
      /\ k = Len(frames) /\ k > 0 /\ k \in Nat /\ Tries = Len(tryStack) /\ Tries <= MaxTries
      /\ frames[k].open \in Nat /\ frames[k].open > 0
  BY <1>1, Numbers DEF IInv, Shape, Depth, Tries, Top
<1>3. n \in Nat
  BY <1>2
<1>4. PICK h : h = tryStack[Len(tryStack)]
  OBVIOUS
<1>5. Len(tryStack) > 0 /\ h.frame = k /\ h.level = n
  BY <1>2, <1>4, LastIsTop
<1>6. tryStack # << >> /\ tryStack' = Popped(tryStack)
  BY <1>1, <1>2, <1>5 DEF DropLast, Popped
<1>. HIDE DEF n, k
<1>7. SetOpen(frames, k, n) = CutAt(frames, k, n)
  <2>1. SubSeq(frames, 1, k) = frames
    BY <1>2
  <2>. QED BY <2>1 DEF CutAt
<1>8. Nested(frames', tryStack')
  BY <1>1, <1>2, <1>4, <1>5, <1>6, <1>7, ThrowNests
<1>9. tryStack' \in Seq(Handlers) /\ Len(tryStack') = Len(tryStack) - 1
  BY <1>2, <1>5, <1>6, Pops
<1>10. /\ frames' \in Seq(Activations) /\ Depth' = Depth /\ Depth <= MaxFrames
       /\ Top'.fn = Top.fn /\ Top'.args = Top.args
  BY <1>1, <1>3, TopSteps DEF k
<1>11. MaxTries \in Nat /\ Len(tryStack) \in Nat
  BY <1>2, Numbers, UnwindAssumption
<1>12. Shape'
  BY <1>1, <1>2, <1>9, <1>10, <1>11 DEF IInv, Shape, Tries, decorators, k
<1>13. Armed'
  BY <1>1, <1>10 DEF IInv, Armed, decorators
<1>. QED BY <1>1, <1>8, <1>12, <1>13 DEF IInv, Entries, HitsAreOwn, decorators

\* Control that is unwound arrives in the frame of the last record, out of its block.
LEMMA UnwindArrives ==
  ASSUME IInv, Unwind, status = "running", tryStack # << >>, NEW h, h = tryStack[Tries]
  PROVE  /\ h.frame \in 1 .. Depth
         /\ h.level = frames[h.frame].open - 1 /\ h.level \in Nat
         /\ \A i \in h.frame + 1 .. Depth : frames[i].open = 0
         /\ frames' = CutAt(frames, h.frame, h.level)
         /\ tryStack' = Popped(tryStack) /\ UNCHANGED status
         /\ Nested(frames', tryStack')
         /\ frames' \in Seq(Activations) /\ tryStack' \in Seq(Handlers)
         /\ Len(frames') = h.frame /\ Len(tryStack') = Tries - 1 /\ Tries \in Nat /\ Depth \in Nat
<1>1. /\ frames \in Seq(Activations) /\ tryStack \in Seq(Handlers) /\ Nested(frames, tryStack)
      /\ Depth = Len(frames) /\ Tries = Len(tryStack) /\ Depth \in Nat /\ Tries \in Nat
  BY Numbers DEF IInv, Shape, Depth, Tries
<1>2. Len(tryStack) > 0
  BY <1>1, IsEmpty
<1>3. /\ h \in Handlers /\ h.frame \in 1 .. Depth /\ h.fn = frames[h.frame].fn
      /\ h.level = frames[h.frame].open - 1
      /\ \A i \in h.frame + 1 .. Depth : frames[i].open = 0
      /\ Nested(CutAt(frames, h.frame, h.level), Popped(tryStack))
  BY <1>1, <1>2, ThrowNests
<1>4. h.frame \in Nat /\ h.level \in Nat
  BY <1>3 DEF Handlers
<1>5. h.frame <= Depth
  BY <1>1, <1>3
<1>6. frames' = CutAt(frames, h.frame, h.level) /\ UNCHANGED status
  BY <1>3, <1>5 DEF Unwind, CutAt, SetOpen
<1>7. tryStack' = Popped(tryStack)
  BY <1>1 DEF Unwind, DropLast, Popped
<1>8. frames' \in Seq(Activations) /\ Len(frames') = h.frame
  BY <1>1, <1>3, <1>4, <1>6, CutAtCuts
<1>9. tryStack' \in Seq(Handlers) /\ Len(tryStack') = Tries - 1
  BY <1>1, <1>2, <1>7, Pops
<1>. QED BY <1>1, <1>3, <1>4, <1>6, <1>7, <1>8, <1>9

LEMMA UnwindSteps ==
  ASSUME IInv, Unwind, status = "running", UNCHANGED <<budget, cache, hit>>, cacheOnReturn' \in BOOLEAN,
         tryStack # << >> => ~cacheOnReturn'
  PROVE  IInv'
<1>1. CASE tryStack = << >>
  BY <1>1, FatalSteps DEF Unwind
<1>2. CASE tryStack # << >>
  <2>1. PICK h : h = tryStack[Tries]
    OBVIOUS
  <2>2. /\ h.frame \in 1 .. Depth /\ UNCHANGED status
        /\ Nested(frames', tryStack')
        /\ frames' \in Seq(Activations) /\ tryStack' \in Seq(Handlers)
        /\ Len(frames') = h.frame /\ Len(tryStack') = Tries - 1 /\ Tries \in Nat /\ Depth \in Nat
    BY <1>2, <2>1, UnwindArrives
  <2>3. MaxTries \in Nat /\ MaxFrames \in Nat /\ Depth <= MaxFrames /\ Tries <= MaxTries
    BY UnwindAssumption DEF IInv, Shape
  <2>4. Len(frames') <= MaxFrames /\ Len(frames') > 0 /\ Len(tryStack') <= MaxTries
    BY <2>2, <2>3
  <2>5. Shape'
    BY <2>2, <2>4 DEF IInv, Shape, Depth, Tries
  <2>. QED BY <1>2, <2>2, <2>5 DEF IInv, Armed, Entries, HitsAreOwn
<1>. QED BY <1>1, <1>2

LEMMA ThrowSteps == ASSUME Disciplined, IInv, Throw PROVE IInv'
<1>1. Unwind /\ status = "running" /\ Top.fn # Cached /\ UNCHANGED <<decorators, hit>>
  BY DEF Throw, MayThrow, Disciplined
<1>2. ~cacheOnReturn /\ cacheOnReturn \in BOOLEAN
  BY <1>1 DEF IInv, Armed, Shape
<1>. QED BY <1>1, <1>2, UnwindSteps DEF decorators

LEMMA ErrorSteps == ASSUME IInv, Error PROVE IInv'
  BY UnwindSteps DEF Error, IInv, Shape

\* A function that is retried is in no block, so it starts again as it is.
LEMMA RetrySteps == ASSUME Disciplined, IInv, Retry PROVE IInv'
<1>1. /\ status = "running" /\ Top.open \in Nat /\ ~(Top.open > 0)
      /\ frames \in Seq(Activations) /\ Depth = Len(frames) /\ Depth \in Nat /\ Depth > 0
  BY Numbers DEF Retry, MayThrow, Disciplined, IInv, Shape, Top, Depth
<1>2. frames[Depth].open = 0 /\ frames[Depth] \in Activations
  BY <1>1 DEF Top
<1>3. [frames[Depth] EXCEPT !.open = 0] = frames[Depth]
  BY <1>2 DEF Activations
<1>4. frames' = [frames EXCEPT ![Depth] = [frames[Depth] EXCEPT !.open = 0]]
  BY DEF Retry
<1>5. UNCHANGED frames
  <2>1. [frames EXCEPT ![Depth] = frames[Depth]] = frames
    BY <1>1
  <2>. QED BY <1>3, <1>4, <2>1
<1>6. budget' = budget - 1 /\ budget > 0 /\ UNCHANGED <<tryStack, cacheOnReturn, cacheKey, cache, status, hit>>
  BY DEF Retry
<1>7. Retries \in Nat
  BY UnwindAssumption
<1>8. Shape'
  BY <1>5, <1>6, <1>7 DEF IInv, Shape, Depth, Tries
<1>. QED BY <1>5, <1>6, <1>8 DEF IInv, Entries, Armed, HitsAreOwn, Top, Depth

LEMMA NativeErrorSteps == ASSUME IInv, NativeError PROVE IInv'
  BY FatalSteps DEF NativeError, decorators, IInv, Shape

LEMMA InitInv == Init => IInv
<1>. SUFFICES ASSUME Init PROVE IInv
  OBVIOUS
<1>1. Frame(Plain, << >>) \in Activations /\ Frame(Plain, << >>).open = 0
  BY FrameIsActivation DEF Functions
<1>2. frames = <<Frame(Plain, << >>)>> /\ tryStack = << >>
  BY DEF Init
<1>3. /\ frames \in Seq(Activations) /\ Len(frames) = 1 /\ frames[1].open = 0
      /\ tryStack \in Seq(Handlers) /\ Len(tryStack) = 0
  BY <1>1, <1>2
<1>4. Nested(frames, tryStack)
  BY <1>3 DEF Nested, Matched, Ordered, Complete
<1>5. Shape
  <2>1. MaxFrames >= 1 /\ MaxTries >= 0 /\ Retries \in 0 .. Retries
    BY UnwindAssumption
  <2>2. budget \in 0 .. Retries /\ status = "running"
    BY <2>1 DEF Init
  <2>3. cacheOnReturn \in BOOLEAN
    BY DEF Init
  <2>4. Depth <= MaxFrames /\ Depth > 0 /\ Tries <= MaxTries
    BY <1>3, <2>1 DEF Depth, Tries
  <2>. QED BY <1>3, <2>2, <2>3, <2>4 DEF Shape
<1>. QED BY <1>4, <1>5 DEF Init, IInv, Entries, Armed, HitsAreOwn

LEMMA StutterInv == ASSUME IInv, UNCHANGED vars PROVE IInv'
  BY DEF IInv, Shape, Entries, Armed, HitsAreOwn, Top, Depth, Tries, vars, decorators

LEMMA NextInv == ASSUME Disciplined, IInv, [Next]_vars PROVE IInv'
<1>1. CASE Call \/ CacheHit \/ CacheMiss
  BY <1>1, CallSteps, CacheHitSteps, CacheMissSteps
<1>2. CASE Return \/ ReturnOther
  BY <1>2, ReturnSteps, ReturnOtherSteps
<1>3. CASE Try \/ EndTry
  BY <1>3, TrySteps, EndTrySteps
<1>4. CASE Retry \/ Throw \/ Error \/ NativeError
  BY <1>4, RetrySteps, ThrowSteps, ErrorSteps, NativeErrorSteps
<1>5. CASE UNCHANGED vars
  BY <1>5, StutterInv
<1>. QED BY <1>1, <1>2, <1>3, <1>4, <1>5 DEF Next

\* What the inductive invariant says of frames and records, in numbers.
LEMMA Sound == IInv => UnwindInv
<1>. SUFFICES ASSUME IInv PROVE UnwindInv
  OBVIOUS
<1>1. /\ frames \in Seq(Activations) /\ tryStack \in Seq(Handlers) /\ Nested(frames, tryStack)
      /\ Depth = Len(frames) /\ Tries = Len(tryStack) /\ Depth \in Nat /\ Tries \in Nat
      /\ Depth <= MaxFrames /\ Tries <= MaxTries /\ MaxFrames \in Nat /\ MaxTries \in Nat
  BY Numbers, UnwindAssumption DEF IInv, Shape, Depth, Tries
<1>2. \A i \in 1 .. Depth : Cardinality(RecordsOf(i)) = frames[i].open /\ frames[i].open <= Tries
  BY <1>1, NestedCounts DEF RecordsOf
<1>3. \A r \in 1 .. Tries : tryStack[r].level = Cardinality({q \in RecordsOf(tryStack[r].frame) : q < r})
  BY <1>1, NestedCounts DEF RecordsOf
<1>4. \A r \in 1 .. Tries : /\ tryStack[r].frame \in 1 .. Depth
                            /\ tryStack[r].fn = frames[tryStack[r].frame].fn
                            /\ tryStack[r].level < frames[tryStack[r].frame].open
                            /\ tryStack[r].level \in Nat
  BY <1>1, Numbers DEF Nested, Matched
<1>5. \A r \in 1 .. Tries : \A q \in 1 .. r : tryStack[q].frame <= tryStack[r].frame
  <2>. SUFFICES ASSUME NEW r \in 1 .. Tries, NEW q \in 1 .. r PROVE tryStack[q].frame <= tryStack[r].frame
    OBVIOUS
  <2>1. q \in 1 .. Tries /\ (q = r \/ q < r)
    BY <1>1
  <2>2. tryStack[r].frame \in Nat
    BY <1>1, Numbers
  <2>. QED BY <1>1, <2>1, <2>2 DEF Nested, Ordered
<1>6. HandlersMatch
  BY <1>1, <1>2, <1>3, <1>4, <1>5 DEF HandlersMatch
<1>7. \A i \in 1 .. Depth : frames[i].fn \in Functions /\ frames[i].open \in 0 .. MaxTries
  <2>1. \A i \in 1 .. Depth : frames[i] \in Activations /\ frames[i].open \in Nat
    BY <1>1, Numbers
  <2>2. \A f \in Activations : f.fn \in Functions
    BY DEF Activations
  <2>. QED BY <1>1, <1>2, <2>1, <2>2
<1>8. \A r \in 1 .. Tries : tryStack[r] \in Records
  <2>. SUFFICES ASSUME NEW r \in 1 .. Tries PROVE tryStack[r] \in Records
    OBVIOUS
  <2>1. tryStack[r] \in Handlers
    BY <1>1, Numbers
  <2>2. tryStack[r].frame \in 1 .. MaxFrames /\ tryStack[r].level \in 0 .. MaxTries
    BY <1>1, <1>4, <1>7
  <2>. QED BY <2>1, <2>2 DEF Handlers, Records
<1>9. TypeOK
  BY <1>1, <1>7, <1>8 DEF IInv, Shape, TypeOK
<1>. QED BY <1>6, <1>9 DEF IInv, UnwindInv

\* The frames, the try stack and the flag of the cache agree, in every program that
\* leaves its try blocks by their end or a throw and whose @cache functions call
\* nothing and do not throw (the code, src/vm.c, does not require that of programs).
THEOREM HandlersAreSound == Disciplined => (Spec => []UnwindInv)
<1>. SUFFICES ASSUME Disciplined PROVE Spec => []UnwindInv
  OBVIOUS
<1>1. Init => IInv
  BY InitInv
<1>2. IInv /\ [Next]_vars => IInv'
  BY NextInv
<1>3. IInv => UnwindInv
  BY Sound
<1>. QED BY <1>1, <1>2, <1>3, PTL DEF Spec

-----------------------------------------------------------------------------
(* The refinement of Exceptions: what each step does to the stack of the   *)
(* counts of open blocks.                                                  *)

OpensOf(fs) == [i \in 1 .. Len(fs) |-> fs[i].open]

LEMMA OpensSeq ==
  ASSUME NEW fs \in Seq(Activations)
  PROVE  /\ OpensOf(fs) \in Seq(Nat) /\ Len(OpensOf(fs)) = Len(fs) /\ Len(fs) \in Nat
         /\ \A i \in 1 .. Len(fs) : OpensOf(fs)[i] = fs[i].open
<1>elements. Len(fs) \in Nat /\ \A i \in 1 .. Len(fs) : fs[i] \in Activations
  OBVIOUS
<1>counts. \A f \in Activations : f.open \in Nat
  BY DEF Activations
<1>1. Len(fs) \in Nat /\ \A i \in 1 .. Len(fs) : fs[i].open \in Nat
  BY <1>elements, <1>counts
<1>. DEFINE n == Len(fs)
            e == [i \in 1 .. n |-> fs[i].open]
<1>. HIDE DEF n
<1>2. n \in Nat /\ \A i \in 1 .. n : fs[i].open \in Nat
  BY <1>1 DEF n
<1>3. e \in Seq(Nat) /\ Len(e) = n /\ \A i \in 1 .. n : e[i] = fs[i].open
  BY <1>2
<1>. QED BY <1>1, <1>3 DEF OpensOf, n

\* A stack is what its counts are.
LEMMA OpensIs ==
  ASSUME NEW fs \in Seq(Activations), NEW s \in Seq(Nat), Len(s) = Len(fs),
         \A i \in 1 .. Len(fs) : s[i] = fs[i].open
  PROVE  OpensOf(fs) = s
  BY OpensSeq, SeqEqual

LEMMA OpensAppend ==
  ASSUME NEW fs \in Seq(Activations), NEW f \in Activations, f.open = 0
  PROVE  OpensOf(Append(fs, f)) = Append(OpensOf(fs), 0)
<1>. DEFINE gs == Append(fs, f)
            s == Append(OpensOf(fs), 0)
<1>1. gs \in Seq(Activations) /\ Len(gs) = Len(fs) + 1 /\ gs[Len(fs) + 1] = f
      /\ \A i \in 1 .. Len(fs) : gs[i] = fs[i]
  BY Pushed
<1>2. /\ OpensOf(fs) \in Seq(Nat) /\ Len(OpensOf(fs)) = Len(fs) /\ Len(fs) \in Nat
      /\ \A i \in 1 .. Len(fs) : OpensOf(fs)[i] = fs[i].open
  BY OpensSeq
<1>3. s \in Seq(Nat) /\ Len(s) = Len(fs) + 1 /\ s[Len(fs) + 1] = 0
      /\ \A i \in 1 .. Len(fs) : s[i] = OpensOf(fs)[i]
  BY <1>2
<1>. HIDE DEF gs, s
<1>4. \A i \in 1 .. Len(gs) : s[i] = gs[i].open
  <2>. SUFFICES ASSUME NEW i \in 1 .. Len(gs) PROVE s[i] = gs[i].open
    OBVIOUS
  <2>1. CASE i = Len(fs) + 1
    BY <1>1, <1>3, <2>1
  <2>2. CASE i # Len(fs) + 1
    <3>1. i \in 1 .. Len(fs)
      BY <1>1, <1>2, <2>2
    <3>2. gs[i] = fs[i] /\ s[i] = OpensOf(fs)[i] /\ OpensOf(fs)[i] = fs[i].open
      BY <1>1, <1>2, <1>3, <3>1
    <3>. QED BY <3>2
  <2>. QED BY <2>1, <2>2
<1>5. OpensOf(gs) = s
  BY <1>1, <1>3, <1>4, OpensIs
<1>. QED BY <1>5 DEF gs, s

LEMMA OpensCut ==
  ASSUME NEW fs \in Seq(Activations), NEW i \in 1 .. Len(fs), NEW n \in Nat
  PROVE  OpensOf(CutAt(fs, i, n)) = [SubSeq(OpensOf(fs), 1, i) EXCEPT ![i] = n]
<1>. DEFINE gs == CutAt(fs, i, n)
            r == SubSeq(OpensOf(fs), 1, i)
            s == [r EXCEPT ![i] = n]
<1>1. gs \in Seq(Activations) /\ Len(gs) = i /\ gs[i].open = n
      /\ \A j \in 1 .. i : j # i => gs[j] = fs[j]
  BY CutAtCuts
<1>2. /\ OpensOf(fs) \in Seq(Nat) /\ Len(OpensOf(fs)) = Len(fs) /\ Len(fs) \in Nat
      /\ \A j \in 1 .. Len(fs) : OpensOf(fs)[j] = fs[j].open
  BY OpensSeq
<1>3. i \in Nat /\ i <= Len(fs) /\ i >= 1
  BY <1>2
<1>4. r \in Seq(Nat) /\ Len(r) = i /\ \A j \in 1 .. i : r[j] = OpensOf(fs)[j]
  BY <1>2, <1>3
<1>. HIDE DEF r
<1>5. s \in Seq(Nat) /\ Len(s) = i /\ s[i] = n /\ \A j \in 1 .. i : j # i => s[j] = r[j]
  BY <1>3, <1>4
<1>. HIDE DEF gs, s
<1>6. \A j \in 1 .. i : j \in 1 .. Len(fs)
  BY <1>2, <1>3
<1>7. \A j \in 1 .. Len(gs) : s[j] = gs[j].open
  BY <1>1, <1>2, <1>4, <1>5, <1>6
<1>8. OpensOf(gs) = s
  BY <1>1, <1>5, <1>7, OpensIs
<1>. QED BY <1>8 DEF gs, r, s

LEMMA OpensSet ==
  ASSUME NEW fs \in Seq(Activations), NEW i \in 1 .. Len(fs), NEW n \in Nat
  PROVE  OpensOf(SetOpen(fs, i, n)) = [OpensOf(fs) EXCEPT ![i] = n]
<1>. DEFINE gs == SetOpen(fs, i, n)
            s == [OpensOf(fs) EXCEPT ![i] = n]
<1>1. gs \in Seq(Activations) /\ Len(gs) = Len(fs) /\ gs[i].open = n
      /\ \A j \in 1 .. Len(fs) : j # i => gs[j] = fs[j]
  BY SetOpenChanges
<1>2. /\ OpensOf(fs) \in Seq(Nat) /\ Len(OpensOf(fs)) = Len(fs) /\ Len(fs) \in Nat
      /\ \A j \in 1 .. Len(fs) : OpensOf(fs)[j] = fs[j].open
  BY OpensSeq
<1>3. s \in Seq(Nat) /\ Len(s) = Len(fs) /\ s[i] = n /\ \A j \in 1 .. Len(fs) : j # i => s[j] = OpensOf(fs)[j]
  BY <1>2
<1>. HIDE DEF gs, s
<1>4. \A j \in 1 .. Len(gs) : s[j] = gs[j].open
  BY <1>1, <1>2, <1>3
<1>5. OpensOf(gs) = s
  BY <1>1, <1>3, <1>4, OpensIs
<1>. QED BY <1>5 DEF gs, s

LEMMA OpensPopped ==
  ASSUME NEW fs \in Seq(Activations), Len(fs) > 0
  PROVE  OpensOf(Popped(fs)) = SubSeq(OpensOf(fs), 1, Len(OpensOf(fs)) - 1)
<1>. DEFINE gs == Popped(fs)
            s == Popped(OpensOf(fs))
<1>1. gs \in Seq(Activations) /\ Len(gs) = Len(fs) - 1 /\ \A j \in 1 .. Len(fs) - 1 : gs[j] = fs[j]
  BY Pops
<1>2. /\ OpensOf(fs) \in Seq(Nat) /\ Len(OpensOf(fs)) = Len(fs) /\ Len(fs) \in Nat
      /\ \A j \in 1 .. Len(fs) : OpensOf(fs)[j] = fs[j].open
  BY OpensSeq
<1>3. s \in Seq(Nat) /\ Len(s) = Len(fs) - 1 /\ \A j \in 1 .. Len(fs) - 1 : s[j] = OpensOf(fs)[j]
  BY <1>2, Pops
<1>. HIDE DEF gs, s
<1>4. \A j \in 1 .. Len(gs) : s[j] = gs[j].open
  <2>. SUFFICES ASSUME NEW j \in 1 .. Len(fs) - 1 PROVE s[j] = gs[j].open
    BY <1>1
  <2>1. j \in 1 .. Len(fs)
    BY <1>2
  <2>. QED BY <1>1, <1>2, <1>3, <2>1
<1>5. OpensOf(gs) = s
  <2>1. Len(s) = Len(gs)
    BY <1>1, <1>3
  <2>2. gs \in Seq(Activations) /\ s \in Seq(Nat)
    BY <1>1, <1>3
  <2>. QED BY <1>4, <2>1, <2>2, OpensIs
<1>. QED BY <1>5 DEF gs, s, Popped

LEMMA InitRefines == Init => Abstract!Init
<1>. SUFFICES ASSUME Init PROVE Abstract!Init
  OBVIOUS
<1>1. frames = <<Frame(Plain, << >>)>> /\ status = "running"
  BY DEF Init
<1>2. Len(frames) = 1 /\ frames[1].open = 0
  BY <1>1 DEF Frame
<1>3. opens = <<0>>
  BY <1>2 DEF Depth, opens
<1>. QED BY <1>1, <1>3 DEF Abstract!Init

LEMMA NextRefines ==
  ASSUME Disciplined, IInv, [Next]_vars
  PROVE  [Abstract!Next]_(Abstract!vars)
<1>1. opens = OpensOf(frames) /\ opens' = OpensOf(frames')
  BY DEF OpensOf, Depth, opens
<1>2. /\ frames \in Seq(Activations) /\ tryStack \in Seq(Handlers) /\ Nested(frames, tryStack)
      /\ Depth = Len(frames) /\ Depth \in Nat /\ Len(OpensOf(frames)) = Depth
      /\ \A i \in 1 .. Depth : OpensOf(frames)[i] = frames[i].open /\ frames[i].open \in Nat
      /\ status = "running" => Depth > 0
  BY Numbers, OpensSeq DEF IInv, Shape, Depth
<1>3. ASSUME Fatal, status = "running" PROVE Abstract!Next
  <2>1. opens' = opens
    BY <1>1, <1>3 DEF Fatal
  <2>. QED BY <1>3, <2>1 DEF Fatal, Abstract!Next, Abstract!Die, Abstract!Running
<1>4. ASSUME status = "running", NEW f \in Functions, NEW args \in Arguments \cup {<< >>}, Push(f, args)
      PROVE  Abstract!Next
  <2>1. CASE Depth < MaxFrames
    <3>1. frames' = Append(frames, Frame(f, args)) /\ UNCHANGED status
      BY <1>4, <2>1 DEF Push
    <3>2. Frame(f, args) \in Activations /\ Frame(f, args).open = 0
      BY FrameIsActivation
    <3>3. opens' = Append(opens, 0)
      BY <1>1, <1>2, <3>1, <3>2, OpensAppend
    <3>4. Abstract!Call
      BY <1>4, <3>1, <3>3 DEF Abstract!Call, Abstract!Running
    <3>. QED BY <3>4 DEF Abstract!Next
  <2>2. CASE ~(Depth < MaxFrames)
    BY <1>3, <1>4, <2>2 DEF Push
  <2>. QED BY <2>1, <2>2
<1>5. ASSUME MayLeave, Pop PROVE Abstract!Next
  <2>1. status = "running"
    BY <1>5 DEF MayLeave
  <2>2. frames' = Popped(frames) /\ status' = IF Depth = 1 THEN "done" ELSE status
    BY <1>5 DEF Pop, Popped, Depth
  <2>3. opens' = SubSeq(opens, 1, Len(opens) - 1) /\ Len(opens) = Depth
    BY <1>1, <1>2, <2>1, <2>2, OpensPopped
  <2>4. Abstract!Return
    BY <2>1, <2>2, <2>3 DEF Abstract!Return, Abstract!Running, Abstract!Innermost
  <2>. QED BY <2>4 DEF Abstract!Next
<1>6. ASSUME status = "running", Unwind PROVE Abstract!Next
  <2>1. CASE tryStack = << >>
    BY <1>3, <1>6, <2>1 DEF Unwind
  <2>2. CASE tryStack # << >>
    <3>1. PICK h : h = tryStack[Tries]
      OBVIOUS
    <3>2. /\ h.frame \in 1 .. Depth
          /\ h.level = frames[h.frame].open - 1 /\ h.level \in Nat
          /\ \A i \in h.frame + 1 .. Depth : frames[i].open = 0
          /\ frames' = CutAt(frames, h.frame, h.level) /\ UNCHANGED status
      BY <1>6, <2>2, <3>1, UnwindArrives
    <3>. DEFINE k == h.frame
    <3>3. /\ k \in 1 .. Depth /\ k \in 1 .. Len(frames) /\ opens[k] \in Nat /\ h.level = opens[k] - 1 /\ opens[k] > 0
      BY <1>1, <1>2, <3>2
    <3>cut. OpensOf(CutAt(frames, k, h.level)) = [SubSeq(OpensOf(frames), 1, k) EXCEPT ![k] = h.level]
      <4>1. frames \in Seq(Activations) /\ k \in 1 .. Len(frames) /\ h.level \in Nat
        BY <1>2, <3>2, <3>3
      <4>. HIDE DEF k
      <4>. QED BY <4>1, OpensCut
    <3>4. opens' = [SubSeq(opens, 1, k) EXCEPT ![k] = h.level]
      BY <1>1, <3>2, <3>cut
    <3>5. SubSeq(opens, 1, k)[k] = opens[k] /\ Len(opens) = Depth
      BY <1>1, <1>2, <3>3, OpensSeq
    <3>6. \A j \in k + 1 .. Depth : opens[j] = 0
      BY <1>1, <1>2, <3>2, <3>3
    <3>. HIDE DEF k
    <3>7. opens' = [SubSeq(opens, 1, k) EXCEPT ![k] = SubSeq(opens, 1, k)[k] - 1]
      BY <3>3, <3>4, <3>5
    <3>8. Abstract!Throw
      BY <1>6, <3>2, <3>3, <3>5, <3>6, <3>7 DEF Abstract!Throw, Abstract!Running, Abstract!Innermost
    <3>. QED BY <3>8 DEF Abstract!Next
  <2>. QED BY <2>1, <2>2
<1>7. CASE Call
  BY <1>4, <1>7 DEF Call, MayCall, Functions
<1>8. CASE CacheHit
  <2>1. UNCHANGED <<opens, status>>
    BY <1>1, <1>8 DEF CacheHit
  <2>. QED BY <2>1 DEF Abstract!vars
<1>9. CASE CacheMiss
  BY <1>4, <1>9 DEF CacheMiss, MayCall, Functions
<1>10. CASE Return \/ ReturnOther
  BY <1>5, <1>10 DEF Return, ReturnOther
<1>11. CASE Try
  <2>1. status = "running" /\ Depth \in 1 .. Len(frames)
    BY <1>2, <1>11 DEF Try
  <2>2. CASE Tries < MaxTries
    <3>. DEFINE n == frames[Depth].open + 1
    <3>1. frames' = SetOpen(frames, Depth, n) /\ UNCHANGED status
      BY <1>11, <2>2 DEF Try, SetOpen
    <3>2. n \in Nat /\ n = opens[Depth] + 1 /\ Len(opens) = Depth
      BY <1>1, <1>2, <2>1
    <3>. HIDE DEF n
    <3>set. OpensOf(SetOpen(frames, Depth, n)) = [OpensOf(frames) EXCEPT ![Depth] = n]
      BY <1>2, <2>1, <3>2, OpensSet
    <3>3. opens' = [opens EXCEPT ![Depth] = n]
      BY <1>1, <3>1, <3>set
    <3>4. Abstract!EnterTry
      BY <2>1, <3>1, <3>2, <3>3 DEF Abstract!EnterTry, Abstract!Running, Abstract!Innermost
    <3>. QED BY <3>4 DEF Abstract!Next
  <2>3. CASE ~(Tries < MaxTries)
    BY <1>3, <1>11, <2>1, <2>3 DEF Try
  <2>. QED BY <2>2, <2>3
<1>12. CASE EndTry
  <2>1. status = "running" /\ Depth \in 1 .. Len(frames) /\ Top.open > 0 /\ UNCHANGED status
    BY <1>2, <1>12 DEF EndTry
  <2>. DEFINE n == frames[Depth].open - 1
  <2>2. frames' = SetOpen(frames, Depth, n)
    BY <1>12 DEF EndTry, SetOpen
  <2>3. n \in Nat /\ n = opens[Depth] - 1 /\ opens[Depth] > 0 /\ Len(opens) = Depth
    BY <1>1, <1>2, <2>1 DEF Top
  <2>. HIDE DEF n
  <2>set. OpensOf(SetOpen(frames, Depth, n)) = [OpensOf(frames) EXCEPT ![Depth] = n]
    BY <1>2, <2>1, <2>3, OpensSet
  <2>4. opens' = [opens EXCEPT ![Depth] = n]
    BY <1>1, <2>2, <2>set
  <2>5. Abstract!LeaveTry
    BY <2>1, <2>3, <2>4 DEF Abstract!LeaveTry, Abstract!Running, Abstract!Innermost
  <2>. QED BY <2>5 DEF Abstract!Next
<1>13. CASE Retry
  <2>1. status = "running" /\ Depth \in 1 .. Len(frames) /\ UNCHANGED status
    BY <1>2, <1>13 DEF Retry, MayThrow
  <2>2. frames' = SetOpen(frames, Depth, 0)
    BY <1>13 DEF Retry, SetOpen
  <2>3. opens' = [opens EXCEPT ![Depth] = 0] /\ Len(opens) = Depth
    BY <1>1, <1>2, <2>1, <2>2, OpensSet
  <2>4. Abstract!Restart
    BY <2>1, <2>3 DEF Abstract!Restart, Abstract!Running, Abstract!Innermost
  <2>. QED BY <2>4 DEF Abstract!Next
<1>14. CASE Throw \/ Error
  BY <1>6, <1>14 DEF Throw, Error, MayThrow
<1>15. CASE NativeError
  BY <1>3, <1>15 DEF NativeError
<1>16. CASE UNCHANGED vars
  <2>1. UNCHANGED <<opens, status>>
    BY <1>1, <1>16 DEF vars
  <2>. QED BY <2>1 DEF Abstract!vars
<1>. QED BY <1>7, <1>8, <1>9, <1>10, <1>11, <1>12, <1>13, <1>14, <1>15, <1>16 DEF Next

\* Throws, errors and returns of such programs do what module Exceptions promises:
\* what is thrown goes to the innermost try block that is open, through any number
\* of frames, and the task dies if there is none.
THEOREM ThrowsReachHandlers == Disciplined => (Spec => ThrowsPropagate)
<1>. SUFFICES ASSUME Disciplined PROVE Spec => ThrowsPropagate
  OBVIOUS
<1>1. Init => IInv
  BY InitInv
<1>2. IInv /\ [Next]_vars => IInv'
  BY NextInv
<1>3. Init => Abstract!Init
  BY InitRefines
<1>4. IInv /\ [Next]_vars => [Abstract!Next]_(Abstract!vars)
  BY NextRefines
<1>. QED BY <1>1, <1>2, <1>3, <1>4, PTL DEF Spec, ThrowsPropagate, Abstract!Spec
=============================================================================

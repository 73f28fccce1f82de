----------------------------- MODULE HeapProofs -----------------------------
(***************************************************************************)
(* Proofs about module Heap, for any number of addresses and of tasks, and *)
(* any graph of objects: in programs that keep what they use on stacks, in *)
(* globals, in channels and in other objects (Uses = {}) the collector and *)
(* the end of an arena free nothing that is in use, the collector frees    *)
(* all that is not, and no struct of an arena is reached from outside.     *)
(***************************************************************************)
EXTENDS Heap, TLAPS

Plain == Uses = {}

-----------------------------------------------------------------------------
(* What can be reached: the least closed set. *)

Closed(X, g) == \A o \in X : g[o] \subseteq X

LEMMA ReachCloses ==
  ASSUME NEW R \in SUBSET Objects, NEW g \in [Objects -> SUBSET Objects]
  PROVE  /\ R \subseteq Reach(R, g) /\ Reach(R, g) \subseteq Objects
         /\ Closed(Reach(R, g), g)
  BY DEF Reach, Closed

LEMMA ReachLeast ==
  ASSUME NEW R, NEW g, NEW X \in SUBSET Objects, R \subseteq X, Closed(X, g)
  PROVE  Reach(R, g) \subseteq X
  BY DEF Reach, Closed

LEMMA ReachGrows ==
  ASSUME NEW R \in SUBSET Objects, NEW Q \in SUBSET Objects, NEW g \in [Objects -> SUBSET Objects],
         R \subseteq Reach(Q, g)
  PROVE  Reach(R, g) \subseteq Reach(Q, g)
  BY ReachCloses, ReachLeast

-----------------------------------------------------------------------------
(* The inductive invariant. *)

\* What is in use, and all records, reachable or not; what of that others than t hold.
Used == {o \in Objects : o \in globals \/ kind[o] = "record" \/ \E t \in Tasks : o \in stack[t]}
Others(t) == {o \in Objects : o \in globals \/ kind[o] = "record"
                              \/ \E u \in Tasks \ {t} : o \in stack[u]}

\* Nothing is kept alive otherwise, and no mark outlives a collection.
Quiet == /\ cache = {} /\ marked = {}
         /\ \A t \in Tasks : running[t] = {} /\ result[t] = {} /\ (state[t] # "live" => stack[t] = {})

\* An arena's struct is that of a handler that was not reaped.
Arenas == \A o \in Objects : kind[o] = "arena" => arena[owner[o]] /\ state[owner[o]] \in {"live", "dead"}

Sound == \A o \in Reach(Used, refs) : kind[o] # "free"

\* Not even a record that is garbage leads to a struct of an arena.
Apart == \A t \in Tasks : \A o \in Reach(Others(t), refs) : ~(kind[o] = "arena" /\ owner[o] = t)

IInv == TypeOK /\ Quiet /\ Arenas /\ Sound /\ Apart

\* The sets that a step has to show for the last two.
LEMMA SoundBy ==
  ASSUME NEW X \in SUBSET Objects, Used' \subseteq X, Closed(X, refs'), \A o \in X : kind'[o] # "free"
  PROVE  Sound'
  BY ReachLeast DEF Sound

LEMMA ApartBy ==
  ASSUME NEW t \in Tasks, NEW X \in SUBSET Objects, Others(t)' \subseteq X, Closed(X, refs'),
         \A o \in X : ~(kind'[o] = "arena" /\ owner'[o] = t)
  PROVE  \A o \in Reach(Others(t)', refs') : ~(kind'[o] = "arena" /\ owner'[o] = t)
  BY ReachLeast

\* What the invariant says of the two sets that are reached.
All == Reach(Used, refs)
Shared(t) == Reach(Others(t), refs)

LEMMA AllCloses ==
  ASSUME IInv
  PROVE  /\ All \in SUBSET Objects /\ Used \subseteq All /\ Closed(All, refs)
         /\ \A o \in All : kind[o] # "free"
  BY ReachCloses DEF IInv, TypeOK, MemoryOK, ProgramOK, Sound, All, Used

LEMMA SharedCloses ==
  ASSUME IInv, NEW t \in Tasks
  PROVE  /\ Shared(t) \in SUBSET Objects /\ Others(t) \subseteq Shared(t) /\ Closed(Shared(t), refs)
         /\ \A o \in Shared(t) : ~(kind[o] = "arena" /\ owner[o] = t)
         /\ Shared(t) \subseteq All
<1>1. refs \in [Objects -> SUBSET Objects] /\ Others(t) \in SUBSET Objects /\ Used \in SUBSET Objects
      /\ Others(t) \subseteq Used
  BY DEF IInv, TypeOK, MemoryOK, ProgramOK, Others, Used
<1>2. /\ Shared(t) \in SUBSET Objects /\ Others(t) \subseteq Shared(t) /\ Closed(Shared(t), refs)
  BY <1>1, ReachCloses DEF Shared
<1>3. Shared(t) \subseteq All
  BY <1>1, ReachCloses, ReachGrows DEF Shared, All
<1>. QED BY <1>2, <1>3 DEF IInv, Apart, Shared

-----------------------------------------------------------------------------
(* Steps that leave the memory as it is. *)

LEMMA SameMemory ==
  ASSUME IInv, UNCHANGED memory, TypeOK', Quiet', Arenas', Used' \subseteq All,
         \A t \in Tasks : \E X \in SUBSET Objects :
            Others(t)' \subseteq X /\ Closed(X, refs) /\ X \cap Own(t) = {}
  PROVE  IInv'
<1>1. UNCHANGED <<kind, refs, owner, marked>>
  BY DEF memory
<1>2. Sound'
  BY <1>1, AllCloses, SoundBy
<1>3. Apart'
  <2>. SUFFICES ASSUME NEW t \in Tasks
                PROVE  \A o \in Reach(Others(t)', refs') : ~(kind'[o] = "arena" /\ owner'[o] = t)
    BY DEF Apart
  <2>1. PICK X \in SUBSET Objects : Others(t)' \subseteq X /\ Closed(X, refs) /\ X \cap Own(t) = {}
    OBVIOUS
  <2>2. Closed(X, refs')
    BY <1>1, <2>1
  <2>3. \A o \in X : ~(kind'[o] = "arena" /\ owner'[o] = t)
    BY <1>1, <2>1 DEF Own
  <2>. QED BY <2>1, <2>2, <2>3, ApartBy
<1>. QED BY <1>2, <1>3 DEF IInv

\* Those after which everyone holds what he could reach before.
LEMMA KnownSteps ==
  ASSUME IInv, UNCHANGED memory, TypeOK', Quiet', Arenas', Used' \subseteq All,
         \A t \in Tasks : Others(t)' \subseteq Shared(t)
  PROVE  IInv'
<1>1. \A t \in Tasks : /\ Shared(t) \in SUBSET Objects /\ Closed(Shared(t), refs)
                       /\ Shared(t) \cap Own(t) = {}
  BY SharedCloses DEF Own
<1>. QED BY <1>1, SameMemory

LEMMA LoadSteps == ASSUME IInv, NEW t \in Tasks, NEW o \in Objects, Load(t, o) PROVE IInv'
<1>1. /\ state[t] = "live" /\ stack' = [stack EXCEPT ![t] = @ \cup {o}]
      /\ UNCHANGED <<kind, refs, owner, marked, globals, cache, state, arena, running, result>>
  BY DEF Load, Live, memory
<1>2. o \in globals \/ \E p \in stack[t] : o \in refs[p]
  BY DEF Load, IInv, Quiet
<1>3. stack' \in [Tasks -> SUBSET Objects] /\ \A u \in Tasks : stack'[u] = IF u = t THEN stack[t] \cup {o} ELSE stack[u]
  BY <1>1 DEF IInv, TypeOK, ProgramOK
<1>4. stack \in [Tasks -> SUBSET Objects] /\ globals \subseteq Objects
  BY DEF IInv, TypeOK, ProgramOK
<1>5. TypeOK'
  <2>1. MemoryOK'
    BY <1>1 DEF IInv, TypeOK, MemoryOK, memory
  <2>2. ProgramOK'
    BY <1>1, <1>3 DEF IInv, TypeOK, ProgramOK
  <2>. QED BY <2>1, <2>2 DEF TypeOK
<1>6. Quiet' /\ Arenas'
  BY <1>1, <1>3 DEF IInv, Quiet, Arenas
<1>7. o \in All
  BY <1>2, <1>4, AllCloses DEF Used, Closed
<1>8. Used' \subseteq All
  BY <1>1, <1>3, <1>7, AllCloses DEF Used
<1>9. ASSUME NEW u \in Tasks PROVE Others(u)' \subseteq Shared(u)
  <2>1. CASE u = t
    BY <1>1, <1>3, <2>1, SharedCloses DEF Others
  <2>2. CASE u # t
    <3>1. o \in Shared(u)
      BY <1>2, <1>4, <2>2, SharedCloses DEF Others, Closed
    <3>. QED BY <1>1, <1>3, <3>1, SharedCloses DEF Others
  <2>. QED BY <2>1, <2>2
<1>. QED BY <1>1, <1>5, <1>6, <1>8, <1>9, KnownSteps DEF memory

LEMMA DropSteps == ASSUME IInv, NEW t \in Tasks, NEW o \in Objects, Drop(t, o) PROVE IInv'
<1>1. /\ state[t] = "live" /\ stack' = [stack EXCEPT ![t] = @ \ {o}]
      /\ UNCHANGED <<kind, refs, owner, marked, globals, cache, state, arena, running, result>>
  BY DEF Drop, Live, memory
<1>2. stack' \in [Tasks -> SUBSET Objects] /\ \A u \in Tasks : stack'[u] \subseteq stack[u]
  BY <1>1 DEF IInv, TypeOK, ProgramOK
<1>3. TypeOK'
  <2>1. MemoryOK'
    BY <1>1 DEF IInv, TypeOK, MemoryOK, memory
  <2>2. ProgramOK'
    BY <1>1, <1>2 DEF IInv, TypeOK, ProgramOK
  <2>. QED BY <2>1, <2>2 DEF TypeOK
<1>4. Quiet' /\ Arenas'
  BY <1>1, <1>2 DEF IInv, Quiet, Arenas
<1>5. Used' \subseteq All
  BY <1>1, <1>2, AllCloses DEF Used
<1>6. ASSUME NEW u \in Tasks PROVE Others(u)' \subseteq Shared(u)
  BY <1>1, <1>2, SharedCloses DEF Others
<1>. QED BY <1>1, <1>3, <1>4, <1>5, <1>6, KnownSteps DEF memory

LEMMA UnsetGlobalSteps == ASSUME IInv, NEW t \in Tasks, NEW v \in Objects, UnsetGlobal(t, v) PROVE IInv'
<1>1. globals' \subseteq globals
      /\ UNCHANGED <<kind, refs, owner, marked, cache, state, arena, stack, running, result>>
  BY DEF UnsetGlobal, memory
<1>2. TypeOK'
  <2>1. MemoryOK'
    BY <1>1 DEF IInv, TypeOK, MemoryOK, memory
  <2>2. ProgramOK'
    BY <1>1 DEF IInv, TypeOK, ProgramOK
  <2>. QED BY <2>1, <2>2 DEF TypeOK
<1>3. Quiet' /\ Arenas'
  BY <1>1 DEF IInv, Quiet, Arenas
<1>4. Used' \subseteq All
  BY <1>1, AllCloses DEF Used
<1>5. ASSUME NEW u \in Tasks PROVE Others(u)' \subseteq Shared(u)
  BY <1>1, SharedCloses DEF Others
<1>. QED BY <1>1, <1>2, <1>3, <1>4, <1>5, KnownSteps DEF memory

\* Without results and without a cache there is nothing to await or to hit.
LEMMA EmptySteps ==
  ASSUME Plain, IInv, NEW t \in Tasks,
         \/ \E u \in Tasks : Await(t, u)
         \/ \E S \in {{}} \cup Singles(stack[t]) : CacheStore(t, S)
         \/ \E S \in {{}} \cup Singles(cache) : CacheHit(t, S)
  PROVE  UNCHANGED vars
<1>1. stack = [stack EXCEPT ![t] = @ \cup {}]
  BY DEF IInv, TypeOK, ProgramOK
<1>2. ASSUME NEW u \in Tasks, Await(t, u) PROVE UNCHANGED vars
  <2>1. result[u] = {}
    BY DEF IInv, Quiet
  <2>. QED BY <1>1, <1>2, <2>1 DEF Await, vars, memory, program
<1>3. ASSUME NEW S, CacheStore(t, S) PROVE UNCHANGED vars
  <2>1. S = {}
    BY <1>3 DEF CacheStore, Plain
  <2>. QED BY <1>3, <2>1 DEF CacheStore, vars, memory, program
<1>4. ASSUME NEW S, CacheHit(t, S) PROVE UNCHANGED vars
  <2>1. S = {}
    BY <1>4 DEF CacheHit, IInv, Quiet
  <2>. QED BY <1>1, <1>4, <2>1 DEF CacheHit, vars, memory, program
<1>. QED BY <1>2, <1>3, <1>4

LEMMA ReturnSteps == ASSUME Plain, IInv, NEW t \in Tasks, NEW S, Return(t, S) PROVE IInv'
<1>1. S = {}
  BY DEF Return, Plain
<1>2. /\ stack' = [stack EXCEPT ![t] = {}] /\ running' = [running EXCEPT ![t] = {}]
      /\ result' = [result EXCEPT ![t] = {}] /\ state' = [state EXCEPT ![t] = "dead"]
      /\ UNCHANGED <<kind, refs, owner, marked, globals, cache, arena>>
  BY <1>1 DEF Return, memory
<1>3. /\ stack' \in [Tasks -> SUBSET Objects] /\ running' \in [Tasks -> SUBSET Objects]
      /\ result' \in [Tasks -> SUBSET Objects] /\ state' \in [Tasks -> {"none", "live", "dead", "reaped"}]
  BY <1>2 DEF IInv, TypeOK, ProgramOK
<1>4. \A u \in Tasks : /\ stack'[u] \subseteq stack[u] /\ running'[u] = {} /\ result'[u] = {}
                       /\ state'[u] = (IF u = t THEN "dead" ELSE state[u]) /\ (u = t => stack'[u] = {})
  BY <1>2 DEF IInv, TypeOK, ProgramOK, Quiet
<1>5. TypeOK'
  <2>1. MemoryOK'
    BY <1>2 DEF IInv, TypeOK, MemoryOK
  <2>2. ProgramOK'
    BY <1>2, <1>3 DEF IInv, TypeOK, ProgramOK
  <2>. QED BY <2>1, <2>2 DEF TypeOK
<1>6. Quiet'
  BY <1>2, <1>4 DEF IInv, Quiet
<1>7. Arenas'
  <2>1. \A o \in Objects : kind[o] = "arena" => owner[o] \in Tasks
    BY DEF IInv, TypeOK, MemoryOK
  <2>. QED BY <1>2, <1>4, <2>1 DEF IInv, Arenas
<1>8. Used' \subseteq All
  BY <1>2, <1>4, AllCloses DEF Used
<1>9. ASSUME NEW u \in Tasks PROVE Others(u)' \subseteq Shared(u)
  BY <1>2, <1>4, SharedCloses DEF Others
<1>. QED BY <1>2, <1>5, <1>6, <1>7, <1>8, <1>9, KnownSteps DEF memory

\* A task that starts is given what another has on its stack: what is in an arena
\* stays out of it, or there is nothing in the giver's.
LEMMA StartSteps ==
  ASSUME IInv, NEW t \in Tasks, NEW u \in Tasks, t \in Live, NEW args, args \subseteq stack[t],
         NEW handler \in BOOLEAN, Start(u, args, {}, handler),
         (MayLeave(t, args) /\ "bury" \notin Uses) \/ ~arena[t]
  PROVE  IInv'
<1>1. /\ state[u] \in {"none", "reaped"} /\ state[t] = "live" /\ u # t
      /\ state' = [state EXCEPT ![u] = "live"] /\ arena' = [arena EXCEPT ![u] = handler]
      /\ stack' = [stack EXCEPT ![u] = args] /\ running' = [running EXCEPT ![u] = {}]
      /\ result' = [result EXCEPT ![u] = {}]
      /\ UNCHANGED <<kind, refs, owner, marked, globals, cache>>
  BY DEF Start, Live, memory
<1>2. /\ stack[t] \subseteq Objects /\ args \in SUBSET Objects /\ refs \in [Objects -> SUBSET Objects]
  BY DEF IInv, TypeOK, ProgramOK, MemoryOK
<1>3. /\ stack' \in [Tasks -> SUBSET Objects] /\ running' \in [Tasks -> SUBSET Objects]
      /\ result' \in [Tasks -> SUBSET Objects] /\ state' \in [Tasks -> {"none", "live", "dead", "reaped"}]
      /\ arena' \in [Tasks -> BOOLEAN]
  BY <1>1, <1>2 DEF IInv, TypeOK, ProgramOK
<1>4. \A w \in Tasks : /\ stack'[w] = (IF w = u THEN args ELSE stack[w])
                       /\ running'[w] = {} /\ result'[w] = {}
                       /\ (w # u => state'[w] = state[w] /\ arena'[w] = arena[w])
                       /\ (w = u => state'[w] = "live")
  BY <1>1 DEF IInv, TypeOK, ProgramOK, Quiet
<1>5. TypeOK'
  <2>1. MemoryOK'
    BY <1>1 DEF IInv, TypeOK, MemoryOK, memory
  <2>2. ProgramOK'
    BY <1>1, <1>3 DEF IInv, TypeOK, ProgramOK
  <2>. QED BY <2>1, <2>2 DEF TypeOK
<1>6. Quiet'
  BY <1>1, <1>4 DEF IInv, Quiet
<1>7. Arenas'
  <2>1. \A o \in Objects : kind[o] = "arena" => owner[o] \in Tasks /\ owner[o] # u
    BY <1>1 DEF IInv, TypeOK, MemoryOK, Arenas
  <2>. QED BY <1>1, <1>4, <2>1 DEF IInv, Arenas
<1>8. Used' \subseteq All
  BY <1>1, <1>4, AllCloses DEF Used
<1>9. ASSUME NEW w \in Tasks, w # t PROVE Others(w)' \subseteq Shared(w)
  BY <1>1, <1>4, <1>9, SharedCloses DEF Others
<1>10. \E X \in SUBSET Objects : Others(t)' \subseteq X /\ Closed(X, refs) /\ X \cap Own(t) = {}
  <2>. DEFINE Y == Reach(args, refs)
              X == Shared(t) \cup Y
  <2>1. Y \in SUBSET Objects /\ args \subseteq Y /\ Closed(Y, refs)
    BY <1>2, ReachCloses
  <2>2. Y \cap Own(t) = {} \/ Own(t) = {}
    <3>1. CASE ~arena[t]
      BY <3>1 DEF Own, IInv, Arenas
    <3>2. CASE MayLeave(t, args) /\ "bury" \notin Uses
      BY <3>2 DEF MayLeave, Carries
    <3>. QED BY <3>1, <3>2
  <2>. HIDE DEF Y
  <2>3. X \in SUBSET Objects /\ Closed(X, refs)
    BY <2>1, SharedCloses DEF Closed
  <2>4. Others(t)' \subseteq X
    BY <1>1, <1>4, <2>1, SharedCloses DEF Others
  <2>5. X \cap Own(t) = {}
    BY <2>2, SharedCloses DEF Own
  <2>. HIDE DEF X
  <2>. QED BY <2>3, <2>4, <2>5
<1>11. ASSUME NEW w \in Tasks
       PROVE  \E X \in SUBSET Objects : Others(w)' \subseteq X /\ Closed(X, refs) /\ X \cap Own(w) = {}
  <2>1. CASE w = t
    BY <1>10, <2>1
  <2>2. CASE w # t
    <3>1. Shared(w) \in SUBSET Objects /\ Closed(Shared(w), refs) /\ Shared(w) \cap Own(w) = {}
      BY SharedCloses DEF Own
    <3>. QED BY <1>9, <2>2, <3>1
  <2>. QED BY <2>1, <2>2
<1>. QED BY <1>1, <1>5, <1>6, <1>7, <1>8, <1>11, SameMemory DEF memory

LEMMA SpawnSteps ==
  ASSUME Plain, IInv, NEW t \in Tasks, NEW u \in Tasks, NEW args,
         NEW closures \in {{}} \cup {c \in Singles(stack[t]) : "capture" \in Uses},
         Spawn(t, u, args, closures)
  PROVE  IInv'
<1>1. closures = {} /\ "bury" \notin Uses
  BY DEF Plain
<1>2. t \in Live /\ args \subseteq stack[t] /\ MayLeave(t, args) /\ Start(u, args, {}, FALSE)
  BY <1>1 DEF Spawn
<1>. QED BY <1>1, <1>2, StartSteps

LEMMA ServeSteps ==
  ASSUME IInv, NEW t \in Tasks, NEW u \in Tasks, NEW args, Serve(t, u, args)
  PROVE  IInv'
  BY StartSteps DEF Serve

-----------------------------------------------------------------------------
(* Steps that change what objects point to. *)

\* A set for each task, and one for all.
LEMMA Rearranged ==
  ASSUME TypeOK', Quiet', Arenas',
         \E X \in SUBSET Objects : /\ Used' \subseteq X /\ Closed(X, refs')
                                   /\ \A o \in X : kind'[o] # "free",
         \A t \in Tasks : \E X \in SUBSET Objects :
            /\ Others(t)' \subseteq X /\ Closed(X, refs')
            /\ \A o \in X : ~(kind'[o] = "arena" /\ owner'[o] = t)
  PROVE  IInv'
<1>1. Sound'
  BY SoundBy
<1>2. Apart'
  <2>. SUFFICES ASSUME NEW t \in Tasks
                PROVE  \A o \in Reach(Others(t)', refs') : ~(kind'[o] = "arena" /\ owner'[o] = t)
    BY DEF Apart
  <2>. QED BY ApartBy
<1>. QED BY <1>1, <1>2 DEF IInv

LEMMA NewSteps ==
  ASSUME Plain, IInv, NEW t \in Tasks, NEW k \in {"container", "record", "arena"},
         NEW S \in SUBSET stack[t], New(t, k, S)
  PROVE  IInv'
<1>1. PICK o \in Free :
        /\ state[t] = "live" /\ (k = "arena" => arena[t]) /\ (k = "record" => MayLeave(t, S))
        /\ kind' = [kind EXCEPT ![o] = k] /\ refs' = [refs EXCEPT ![o] = S]
        /\ owner' = [owner EXCEPT ![o] = IF k = "arena" THEN t ELSE None]
        /\ marked' = marked \ {o} /\ stack' = [stack EXCEPT ![t] = @ \cup {o}]
        /\ UNCHANGED <<globals, cache, state, arena, running, result>>
  BY DEF New, Live
<1>2. o \in Objects /\ kind[o] = "free" /\ S \in SUBSET Objects
      /\ refs \in [Objects -> SUBSET Objects]
  BY DEF Free, IInv, TypeOK, MemoryOK, ProgramOK
<1>3. \A p \in Objects : /\ kind'[p] = (IF p = o THEN k ELSE kind[p])
                         /\ refs'[p] = (IF p = o THEN S ELSE refs[p])
                         /\ owner'[p] = (IF p # o THEN owner[p] ELSE IF k = "arena" THEN t ELSE None)
  BY <1>1, <1>2 DEF IInv, TypeOK, MemoryOK
<1>4. \A u \in Tasks : stack'[u] = IF u = t THEN stack[t] \cup {o} ELSE stack[u]
  BY <1>1 DEF IInv, TypeOK, ProgramOK
<1>5. TypeOK'
  <2>1. /\ kind' \in [Objects -> {"free", "container", "record", "arena"}]
        /\ refs' \in [Objects -> SUBSET Objects] /\ stack' \in [Tasks -> SUBSET Objects]
        /\ marked' \subseteq Objects /\ owner' \in [Objects -> Tasks \cup {None}]
    BY <1>1, <1>2 DEF IInv, TypeOK, MemoryOK, ProgramOK
  <2>2. \A p \in Objects : /\ kind'[p] = "free" => refs'[p] = {}
                           /\ kind'[p] = "arena" <=> owner'[p] \in Tasks
    BY <1>3, HeapAssumption DEF IInv, TypeOK, MemoryOK
  <2>3. MemoryOK'
    BY <2>1, <2>2 DEF MemoryOK
  <2>4. ProgramOK'
    BY <1>1, <2>1 DEF IInv, TypeOK, ProgramOK
  <2>. QED BY <2>3, <2>4 DEF TypeOK
<1>6. Quiet'
  BY <1>1, <1>4 DEF IInv, Quiet
<1>7. Arenas'
  BY <1>1, <1>3 DEF IInv, Arenas
<1>8. o \notin All /\ S \subseteq All
  BY <1>2, AllCloses DEF Used
<1>9. /\ Used' \subseteq All \cup {o} /\ Closed(All \cup {o}, refs')
      /\ \A p \in All \cup {o} : kind'[p] # "free"
  <2>1. Used' \subseteq All \cup {o}
    BY <1>1, <1>3, <1>4, AllCloses DEF Used
  <2>2. Closed(All \cup {o}, refs')
    BY <1>2, <1>3, <1>8, AllCloses DEF Closed
  <2>3. \A p \in All \cup {o} : kind'[p] # "free"
    BY <1>2, <1>3, AllCloses
  <2>. QED BY <2>1, <2>2, <2>3
<1>10. ASSUME NEW u \in Tasks, NEW X \in SUBSET Objects, Shared(u) \subseteq X, Closed(X, refs), S \subseteq X,
              \A p \in X : ~(kind[p] = "arena" /\ owner[p] = u), k = "arena" => u # t
       PROVE  /\ Others(u)' \subseteq X \cup {o} /\ Closed(X \cup {o}, refs')
              /\ \A p \in X \cup {o} : ~(kind'[p] = "arena" /\ owner'[p] = u)
  <2>1. Others(u)' \subseteq X \cup {o}
    BY <1>1, <1>3, <1>4, <1>10, SharedCloses DEF Others
  <2>2. Closed(X \cup {o}, refs')
    BY <1>2, <1>3, <1>10 DEF Closed
  <2>3. \A p \in X \cup {o} : ~(kind'[p] = "arena" /\ owner'[p] = u)
    BY <1>2, <1>3, <1>10
  <2>. QED BY <2>1, <2>2, <2>3
<1>11. ASSUME NEW u \in Tasks
       PROVE  \E X \in SUBSET Objects : /\ Others(u)' \subseteq X /\ Closed(X, refs')
                                        /\ \A p \in X : ~(kind'[p] = "arena" /\ owner'[p] = u)
  <2>1. CASE u # t
    <3>1. S \subseteq Shared(u)
      BY <1>2, <2>1, SharedCloses DEF Others
    <3>2. Shared(u) \cup {o} \in SUBSET Objects
      BY <1>2, SharedCloses
    <3>. QED BY <1>10, <2>1, <3>1, <3>2, SharedCloses
  <2>2. CASE u = t /\ k = "record"
    <3>. DEFINE Y == Shared(u) \cup Reach(S, refs)
    <3>1. /\ Reach(S, refs) \in SUBSET Objects /\ S \subseteq Reach(S, refs)
          /\ Closed(Reach(S, refs), refs)
      BY <1>2, ReachCloses
    <3>2. \A p \in Reach(S, refs) : ~(kind[p] = "arena" /\ owner[p] = u)
      BY <1>1, <2>2, <3>1 DEF MayLeave, Carries, Own, Plain
    <3>3. Y \in SUBSET Objects /\ Shared(u) \subseteq Y /\ S \subseteq Y /\ Closed(Y, refs)
      BY <3>1, SharedCloses DEF Closed
    <3>4. \A p \in Y : ~(kind[p] = "arena" /\ owner[p] = u)
      BY <3>2, SharedCloses
    <3>. HIDE DEF Y
    <3>5. Y \cup {o} \in SUBSET Objects
      BY <1>2, <3>3
    <3>. QED BY <1>10, <2>2, <3>3, <3>4, <3>5
  <2>3. CASE u = t /\ k # "record"
    <3>1. o \notin Shared(u)
      BY <1>8, SharedCloses
    <3>2. Others(u)' \subseteq Shared(u)
      BY <1>1, <1>3, <1>4, <2>3, SharedCloses DEF Others
    <3>3. Closed(Shared(u), refs')
      BY <1>3, <3>1, SharedCloses DEF Closed
    <3>4. \A p \in Shared(u) : ~(kind'[p] = "arena" /\ owner'[p] = u)
      BY <1>3, <3>1, SharedCloses
    <3>. QED BY <3>2, <3>3, <3>4, SharedCloses
  <2>. QED BY <2>1, <2>2, <2>3
<1>12. All \cup {o} \in SUBSET Objects
  BY <1>2, AllCloses
<1>. QED BY <1>5, <1>6, <1>7, <1>9, <1>11, <1>12, Rearranged

\* Fields change, nothing else.
LEMMA FieldSteps ==
  ASSUME IInv, UNCHANGED <<kind, owner, marked, program>>,
         refs' \in [Objects -> SUBSET Objects],
         \A p \in Objects : kind[p] = "free" => refs'[p] = {},
         Closed(All, refs'),
         \A t \in Tasks : \E X \in SUBSET Objects :
            /\ Shared(t) \subseteq X /\ Closed(X, refs')
            /\ \A o \in X : ~(kind[o] = "arena" /\ owner[o] = t)
  PROVE  IInv'
<1>1. UNCHANGED <<kind, owner, marked, globals, cache, state, arena, stack, running, result>>
  BY DEF program
<1>2. TypeOK'
  <2>1. MemoryOK'
    BY <1>1 DEF IInv, TypeOK, MemoryOK
  <2>2. ProgramOK'
    BY <1>1 DEF IInv, TypeOK, ProgramOK
  <2>. QED BY <2>1, <2>2 DEF TypeOK
<1>3. Quiet' /\ Arenas'
  BY <1>1 DEF IInv, Quiet, Arenas
<1>4. All \in SUBSET Objects /\ Used' \subseteq All /\ \A o \in All : kind'[o] # "free"
  <2>1. Used' = Used
    BY <1>1 DEF Used
  <2>. QED BY <1>1, <2>1, AllCloses
<1>5. \A t \in Tasks : Others(t)' \subseteq Shared(t)
  <2>1. \A t \in Tasks : Others(t)' = Others(t)
    BY <1>1 DEF Others
  <2>. QED BY <2>1, SharedCloses
<1>6. ASSUME NEW t \in Tasks
      PROVE  \E X \in SUBSET Objects : /\ Others(t)' \subseteq X /\ Closed(X, refs')
                                       /\ \A o \in X : ~(kind'[o] = "arena" /\ owner'[o] = t)
  <2>1. PICK X \in SUBSET Objects : /\ Shared(t) \subseteq X /\ Closed(X, refs')
                                    /\ \A o \in X : ~(kind[o] = "arena" /\ owner[o] = t)
    OBVIOUS
  <2>2. Others(t)' \subseteq X
    BY <1>5, <2>1
  <2>. QED BY <1>1, <2>1, <2>2
<1>. QED BY <1>2, <1>3, <1>4, <1>6, Rearranged

LEMMA OverwriteSteps ==
  ASSUME IInv, NEW t \in Tasks, NEW o \in Objects, NEW v \in Objects, Overwrite(t, o, v)
  PROVE  IInv'
<1>1. refs' = [refs EXCEPT ![o] = @ \ {v}] /\ UNCHANGED <<kind, owner, marked, program>>
  BY DEF Overwrite
<1>2. refs' \in [Objects -> SUBSET Objects] /\ \A p \in Objects : refs'[p] \subseteq refs[p]
  BY <1>1 DEF IInv, TypeOK, MemoryOK
<1>3. \A p \in Objects : kind[p] = "free" => refs'[p] = {}
  BY <1>2 DEF IInv, TypeOK, MemoryOK
<1>4. Closed(All, refs')
  BY <1>2, AllCloses DEF Closed
<1>5. \A u \in Tasks : /\ Shared(u) \in SUBSET Objects /\ Closed(Shared(u), refs')
                       /\ \A p \in Shared(u) : ~(kind[p] = "arena" /\ owner[p] = u)
  BY <1>2, SharedCloses DEF Closed
<1>6. \A u \in Tasks : \E X \in SUBSET Objects :
         /\ Shared(u) \subseteq X /\ Closed(X, refs')
         /\ \A p \in X : ~(kind[p] = "arena" /\ owner[p] = u)
  BY <1>5
<1>. QED BY <1>1, <1>2, <1>3, <1>4, <1>6, FieldSteps

LEMMA StoreSteps ==
  ASSUME Plain, IInv, NEW t \in Tasks, NEW o \in Objects, NEW v \in Objects, Store(t, o, v)
  PROVE  IInv'
<1>1. /\ state[t] = "live" /\ o \in stack[t] /\ v \in stack[t] /\ MayHold(t, o, v)
      /\ refs' = [refs EXCEPT ![o] = @ \cup {v}] /\ UNCHANGED <<kind, owner, marked, program>>
  BY DEF Store, Live, IInv, Quiet
<1>2. /\ refs' \in [Objects -> SUBSET Objects]
      /\ \A p \in Objects : refs'[p] = IF p = o THEN refs[o] \cup {v} ELSE refs[p]
  BY <1>1 DEF IInv, TypeOK, MemoryOK
<1>3. {v} \in SUBSET Objects /\ refs \in [Objects -> SUBSET Objects]
  BY DEF IInv, TypeOK, MemoryOK
<1>4. o \in All /\ v \in All /\ kind[o] # "free"
  BY <1>1, AllCloses DEF Used
<1>5. \A p \in Objects : kind[p] = "free" => refs'[p] = {}
  BY <1>2, <1>4 DEF IInv, TypeOK, MemoryOK
<1>6. Closed(All, refs')
  BY <1>2, <1>4, AllCloses DEF Closed
<1>7. ASSUME NEW u \in Tasks
      PROVE  \E X \in SUBSET Objects : /\ Shared(u) \subseteq X /\ Closed(X, refs')
                                       /\ \A p \in X : ~(kind[p] = "arena" /\ owner[p] = u)
  <2>1. CASE u # t
    <3>1. v \in Shared(u)
      BY <1>1, <2>1, SharedCloses DEF Others
    <3>2. Closed(Shared(u), refs')
      BY <1>2, <3>1, SharedCloses DEF Closed
    <3>. QED BY <3>2, SharedCloses
  <2>2. CASE u = t /\ ~Carries(t, {v})
    <3>. DEFINE X == Shared(u) \cup Reach({v}, refs)
    <3>1. /\ Reach({v}, refs) \in SUBSET Objects /\ v \in Reach({v}, refs)
          /\ Closed(Reach({v}, refs), refs)
      BY <1>3, ReachCloses
    <3>2. \A p \in Reach({v}, refs) : ~(kind[p] = "arena" /\ owner[p] = u)
      BY <2>2, <3>1 DEF Carries, Own
    <3>3. X \in SUBSET Objects /\ Shared(u) \subseteq X /\ v \in X /\ Closed(X, refs)
      BY <3>1, SharedCloses DEF Closed
    <3>4. \A p \in X : ~(kind[p] = "arena" /\ owner[p] = u)
      BY <3>2, SharedCloses
    <3>. HIDE DEF X
    <3>5. Closed(X, refs')
      BY <1>2, <3>3 DEF Closed
    <3>. QED BY <3>3, <3>4, <3>5
  <2>3. CASE u = t /\ Carries(t, {v})
    <3>1. Private(t, o)
      BY <1>1, <2>3 DEF MayHold, Plain
    <3>2. o \notin Shared(t)
      <4>1. CASE o \in Own(t)
        BY <4>1, SharedCloses DEF Own
      <4>2. CASE o \notin Reach(Elsewhere(t) \cup {p \in Objects : kind[p] = "record"}, refs)
        <5>1. Elsewhere(t) \cup {p \in Objects : kind[p] = "record"} = Others(t)
          <6>1. \A w \in Tasks : running[w] = {} /\ result[w] = {} /\ stack[w] \subseteq Objects
            BY DEF IInv, Quiet, TypeOK, ProgramOK
          <6>2. globals \subseteq Objects /\ cache = {}
            BY DEF IInv, Quiet, TypeOK, ProgramOK
          <6>3. \A p \in UNION {stack[w] \cup running[w] \cup result[w] : w \in Tasks \ {t}} :
                  \E w \in Tasks \ {t} : p \in stack[w]
            BY <6>1
          <6>4. \A p : (\E w \in Tasks \ {t} : p \in stack[w]) =>
                  p \in UNION {stack[w] \cup running[w] \cup result[w] : w \in Tasks \ {t}}
            OBVIOUS
          <6>. QED BY <6>1, <6>2, <6>3, <6>4 DEF Elsewhere, Others
        <5>. QED BY <4>2, <5>1 DEF Shared
      <4>. QED BY <3>1, <4>1, <4>2 DEF Private
    <3>3. Closed(Shared(u), refs')
      BY <1>2, <2>3, <3>2, SharedCloses DEF Closed
    <3>. QED BY <3>3, SharedCloses
  <2>. QED BY <2>1, <2>2, <2>3
<1>. QED BY <1>1, <1>2, <1>5, <1>6, <1>7, FieldSteps

-----------------------------------------------------------------------------
(* escape_promote() *)

Copied(copy) == {copy[o] : o \in DOMAIN copy}

\* What an object points to afterwards.
LEMMA PromotedRefs ==
  ASSUME NEW t, NEW v, NEW copy, NEW o \in Objects
  PROVE  /\ o \in Copied(copy) =>
              \E p \in DOMAIN copy : /\ copy[p] = o
                                     /\ Promoted(t, v, copy)[o] = {Moved(copy, q) : q \in refs[p]}
         /\ o \notin Copied(copy) /\ kind[o] = "container" /\ o \in Walk(t, v) /\ DOMAIN copy # {} =>
              Promoted(t, v, copy)[o] = {Moved(copy, q) : q \in refs[o]}
         /\ o \notin Copied(copy) /\ ~(kind[o] = "container" /\ o \in Walk(t, v) /\ DOMAIN copy # {}) =>
              Promoted(t, v, copy)[o] = refs[o]
<1>1. o \in Copied(copy) <=> \E p \in DOMAIN copy : copy[p] = o
  BY DEF Copied
<1>2. ASSUME o \in Copied(copy)
      PROVE  \E p \in DOMAIN copy : /\ copy[p] = o
                                    /\ Promoted(t, v, copy)[o] = {Moved(copy, q) : q \in refs[p]}
  <2>. DEFINE p == CHOOSE p \in DOMAIN copy : copy[p] = o
  <2>1. p \in DOMAIN copy /\ copy[p] = o
    BY <1>1, <1>2
  <2>2. Promoted(t, v, copy)[o] = {Moved(copy, q) : q \in refs[p]}
    BY <1>1, <1>2 DEF Promoted
  <2>. HIDE DEF p
  <2>. QED BY <2>1, <2>2
<1>3. o \notin Copied(copy) /\ kind[o] = "container" /\ o \in Walk(t, v) /\ DOMAIN copy # {} =>
        Promoted(t, v, copy)[o] = {Moved(copy, q) : q \in refs[o]}
  BY <1>1 DEF Promoted
<1>4. o \notin Copied(copy) /\ ~(kind[o] = "container" /\ o \in Walk(t, v) /\ DOMAIN copy # {}) =>
        Promoted(t, v, copy)[o] = refs[o]
  BY <1>1 DEF Promoted
<1>. QED BY <1>2, <1>3, <1>4

\* Where escape_promote() goes is among what can be reached.
LEMMA Walks ==
  ASSUME IInv, NEW t \in Tasks, NEW v \in Objects
  PROVE  /\ Walk(t, v) \in SUBSET Objects /\ v \in Walk(t, v)
         /\ \A o \in Walk(t, v) : kind[o] = "container" \/ o \in Own(t) => refs[o] \subseteq Walk(t, v)
         /\ \A X \in SUBSET Objects : v \in X /\ Closed(X, refs) => Walk(t, v) \subseteq X
<1>. DEFINE g == [o \in Objects |-> IF kind[o] = "container" \/ o \in Own(t) THEN refs[o] ELSE {}]
<1>1. g \in [Objects -> SUBSET Objects] /\ {v} \in SUBSET Objects
  BY DEF IInv, TypeOK, MemoryOK
<1>2. \A o \in Objects : g[o] = IF kind[o] = "container" \/ o \in Own(t) THEN refs[o] ELSE {}
  OBVIOUS
<1>3. Walk(t, v) = Reach({v}, g)
  BY DEF Walk
<1>. HIDE DEF g
<1>4. /\ Walk(t, v) \in SUBSET Objects /\ v \in Walk(t, v) /\ Closed(Walk(t, v), g)
  BY <1>1, <1>3, ReachCloses
<1>5. \A o \in Walk(t, v) : kind[o] = "container" \/ o \in Own(t) => refs[o] \subseteq Walk(t, v)
  BY <1>2, <1>4 DEF Closed
<1>6. ASSUME NEW X \in SUBSET Objects, v \in X, Closed(X, refs) PROVE Walk(t, v) \subseteq X
  <2>1. Closed(X, g)
    BY <1>2, <1>6 DEF Closed
  <2>. QED BY <1>3, <1>6, <2>1, ReachLeast
<1>. QED BY <1>4, <1>5, <1>6

\* A closed set in which v is stays closed with the copies.
LEMMA PromotedStays ==
  ASSUME IInv, NEW t \in Tasks, NEW v \in Objects, NEW copy \in [Copies(t, v) -> Free],
         NEW X \in SUBSET Objects, v \in X, Closed(X, refs)
  PROVE  /\ Closed(X \cup Copied(copy), Promoted(t, v, copy))
         /\ Moved(copy, v) \in X \cup Copied(copy)
<1>. DEFINE Y == X \cup Copied(copy)
<1>1. DOMAIN copy \subseteq X
  BY Walks DEF Copies
<1>2. \A q \in X : Moved(copy, q) \in Y
  BY DEF Moved, Copied
<1>3. ASSUME NEW o \in Y PROVE Promoted(t, v, copy)[o] \subseteq Y
  <2>. DEFINE g == Promoted(t, v, copy)[o]
  <2>1. o \in Objects
    BY DEF Copied, Free
  <2>2. CASE o \in Copied(copy)
    <3>1. PICK p \in DOMAIN copy : g = {Moved(copy, q) : q \in refs[p]}
      BY <2>1, <2>2, PromotedRefs
    <3>2. refs[p] \subseteq X
      BY <1>1 DEF Closed
    <3>. HIDE DEF g, Y
    <3>3. g \subseteq Y
      BY <1>2, <3>1, <3>2
    <3>. QED BY <3>3 DEF g
  <2>3. CASE o \notin Copied(copy)
    <3>1. o \in X /\ refs[o] \subseteq X
      BY <2>3 DEF Closed
    <3>2. g = {Moved(copy, q) : q \in refs[o]} \/ g = refs[o]
      BY <2>1, <2>3, PromotedRefs
    <3>3. X \subseteq Y
      OBVIOUS
    <3>. HIDE DEF g, Y
    <3>4. g \subseteq Y
      BY <1>2, <3>1, <3>2, <3>3
    <3>. QED BY <3>4 DEF g
  <2>. QED BY <2>2, <2>3
<1>. QED BY <1>2, <1>3 DEF Closed

\* What t does not own, and what replaces what it does.
LEMMA PromotedApart ==
  ASSUME IInv, NEW t \in Tasks, NEW v \in stack[t], NEW copy \in [Copies(t, v) -> Free]
  PROVE  \E X \in SUBSET Objects :
           /\ Shared(t) \subseteq X /\ Copied(copy) \subseteq X /\ Moved(copy, v) \in X
           /\ Closed(X, Promoted(t, v, copy))
           /\ \A o \in X : o \in Copied(copy) \/ ~(kind[o] = "arena" /\ owner[o] = t)
<1>1. v \in Objects /\ refs \in [Objects -> SUBSET Objects] /\ Copied(copy) \in SUBSET Objects
  BY DEF IInv, TypeOK, MemoryOK, ProgramOK, Copied, Free
<1>2. CASE Own(t) = {}
  <2>1. Closed(Objects, refs)
    BY <1>1 DEF Closed
  <2>2. Objects \cup Copied(copy) = Objects
    BY <1>1
  <2>3. Closed(Objects, Promoted(t, v, copy)) /\ Moved(copy, v) \in Objects
    BY <1>1, <2>1, <2>2, PromotedStays
  <2>4. \A o \in Objects : ~(kind[o] = "arena" /\ owner[o] = t)
    BY <1>2 DEF Own
  <2>. QED BY <1>1, <2>3, <2>4, SharedCloses
<1>3. CASE Own(t) # {}
  <2>1. arena[t]
    BY <1>3 DEF Own, IInv, Arenas
  <2>. DEFINE W == Walk(t, v)
              X == Shared(t) \cup Copied(copy) \cup (W \ Own(t))
  <2>2. DOMAIN copy = W \cap Own(t)
    BY <2>1 DEF Copies
  <2>3. /\ W \in SUBSET Objects /\ v \in W
        /\ \A o \in W : kind[o] = "container" \/ o \in Own(t) => refs[o] \subseteq W
    BY <1>1, Walks
  <2>4. \A o \in W : kind[o] = "arena" => o \in Own(t)
    <3>. SUFFICES ASSUME NEW o \in W, kind[o] = "arena" PROVE owner[o] = t
      BY <2>3 DEF Own
    <3>1. owner[o] \in Tasks
      BY <2>3 DEF IInv, TypeOK, MemoryOK
    <3>2. owner[o] # t => o \in Shared(owner[o])
      <4>. SUFFICES ASSUME owner[o] # t PROVE o \in Shared(owner[o])
        OBVIOUS
      <4>1. v \in Shared(owner[o])
        BY <1>1, <3>1, SharedCloses DEF Others
      <4>2. Shared(owner[o]) \in SUBSET Objects /\ Closed(Shared(owner[o]), refs)
        BY <3>1, SharedCloses
      <4>. QED BY <1>1, <4>1, <4>2, Walks
    <3>. QED BY <3>1, <3>2, SharedCloses
  <2>5. \A o \in Shared(t) : o \notin Own(t)
    BY SharedCloses DEF Own
  <2>. HIDE DEF W
  <2>6. \A q \in W : Moved(copy, q) \in X
    BY <2>2 DEF Moved, Copied
  <2>7. \A q \in Shared(t) : Moved(copy, q) \in X
    BY <2>2, <2>5 DEF Moved
  <2>8. Shared(t) \in SUBSET Objects /\ \A o \in Shared(t) : refs[o] \subseteq Shared(t)
    BY SharedCloses DEF Closed
  <2>9. ASSUME NEW o \in X PROVE Promoted(t, v, copy)[o] \subseteq X
    <3>. DEFINE g == Promoted(t, v, copy)[o]
    <3>1. o \in Objects
      BY <1>1, <2>3, <2>8
    <3>2. CASE o \in Copied(copy)
      <4>1. PICK p \in DOMAIN copy : g = {Moved(copy, q) : q \in refs[p]}
        BY <3>1, <3>2, PromotedRefs
      <4>2. refs[p] \subseteq W
        BY <2>2, <2>3
      <4>. HIDE DEF g, X
      <4>3. g \subseteq X
        BY <2>6, <4>1, <4>2
      <4>. QED BY <4>3 DEF g
    <3>3. CASE o \in Shared(t) /\ o \notin Copied(copy)
      <4>1. g = {Moved(copy, q) : q \in refs[o]} \/ g = refs[o]
        BY <3>1, <3>3, PromotedRefs
      <4>2. refs[o] \subseteq Shared(t) /\ Shared(t) \subseteq X
        BY <2>8, <3>3
      <4>. HIDE DEF g, X
      <4>3. g \subseteq X
        BY <2>7, <4>1, <4>2
      <4>. QED BY <4>3 DEF g
    <3>4. CASE o \in W \ Own(t) /\ o \notin Shared(t) /\ o \notin Copied(copy)
      <4>1. kind[o] # "record"
        BY <3>1, <3>4, SharedCloses DEF Others
      <4>2. kind[o] \in {"container", "free"} /\ (kind[o] = "free" => refs[o] = {})
        BY <2>4, <3>1, <3>4, <4>1 DEF IInv, TypeOK, MemoryOK
      <4>3. refs[o] \subseteq W
        BY <2>3, <3>4, <4>2
      <4>4. CASE DOMAIN copy = {}
        <5>1. g = refs[o]
          BY <3>1, <3>4, <4>4, PromotedRefs
        <5>2. refs[o] \subseteq X
          BY <2>2, <4>3, <4>4
        <5>. QED BY <5>1, <5>2
      <4>5. CASE DOMAIN copy # {} /\ kind[o] = "container"
        <5>1. g = {Moved(copy, q) : q \in refs[o]}
          BY <3>1, <3>4, <4>5, PromotedRefs DEF W
        <5>. HIDE DEF g, X
        <5>2. g \subseteq X
          BY <2>6, <4>3, <5>1
        <5>. QED BY <5>2 DEF g
      <4>6. CASE kind[o] = "free"
        BY <3>1, <3>4, <4>2, <4>6, PromotedRefs
      <4>. QED BY <4>2, <4>4, <4>5, <4>6
    <3>. QED BY <3>2, <3>3, <3>4
  <2>10. Closed(X, Promoted(t, v, copy))
    BY <2>9 DEF Closed
  <2>11. \A o \in X : o \in Copied(copy) \/ ~(kind[o] = "arena" /\ owner[o] = t)
    <3>1. \A o \in X : o \in Objects
      BY <1>1, <2>3, <2>8
    <3>. QED BY <2>5, <3>1 DEF Own
  <2>12. X \in SUBSET Objects /\ Shared(t) \subseteq X /\ Copied(copy) \subseteq X /\ Moved(copy, v) \in X
    BY <1>1, <2>3, <2>6, <2>8
  <2>. HIDE DEF X
  <2>. QED BY <2>10, <2>11, <2>12
<1>. QED BY <1>2, <1>3

\* SetGlobal and Send: the moved value goes in a global or in a channel.
LEMMA PromoteSteps ==
  ASSUME IInv, NEW t \in Tasks, t \in Live, NEW v \in stack[t], NEW copy \in [Copies(t, v) -> Free],
         Promote(t, v, copy),
         refs' \in [Objects -> SUBSET Objects],
         \A o \in Objects : \/ refs'[o] = Promoted(t, v, copy)[o]
                            \/ kind[o] = "record" /\ refs'[o] = Promoted(t, v, copy)[o] \cup {Moved(copy, v)},
         globals' \subseteq globals \cup {Moved(copy, v)},
         UNCHANGED <<cache, state, arena, stack, running, result>>
  PROVE  IInv'
<1>. DEFINE new == Copied(copy)
            m == Moved(copy, v)
<1>1. /\ v \in Objects /\ new \in SUBSET Objects /\ \A o \in new : kind[o] = "free"
      /\ refs \in [Objects -> SUBSET Objects]
  BY DEF IInv, TypeOK, MemoryOK, ProgramOK, Copied, Free
<1>2. /\ kind' = [o \in Objects |-> IF o \in new THEN "record" ELSE kind[o]]
      /\ marked' = marked \ new /\ owner' = owner
  BY DEF Promote, Copied
<1>3. \A o \in Objects : kind'[o] = IF o \in new THEN "record" ELSE kind[o]
  BY <1>2
<1>. HIDE DEF new
<1>4. ASSUME NEW X \in SUBSET Objects, v \in X, Closed(X, refs)
      PROVE  X \cup new \in SUBSET Objects /\ m \in X \cup new /\ Closed(X \cup new, refs')
  <2>1. m \in X \cup new /\ Closed(X \cup new, Promoted(t, v, copy))
    BY <1>1, <1>4, PromotedStays DEF new
  <2>. HIDE DEF m
  <2>. QED BY <1>1, <2>1 DEF Closed, m
<1>5. m \in Objects
  <2>1. Closed(Objects, refs)
    BY <1>1 DEF Closed
  <2>. QED BY <1>1, <1>4, <2>1
<1>6. TypeOK'
  <2>1. \A o \in Objects : kind'[o] = "free" => refs'[o] = {}
    <3>. SUFFICES ASSUME NEW o \in Objects, kind'[o] = "free" PROVE refs'[o] = {}
      OBVIOUS
    <3>1. o \notin new /\ kind[o] = "free"
      BY <1>3
    <3>2. Promoted(t, v, copy)[o] = refs[o]
      BY <3>1, PromotedRefs DEF new
    <3>. QED BY <3>1, <3>2 DEF IInv, TypeOK, MemoryOK
  <2>2. \A o \in Objects : kind'[o] = "arena" <=> owner'[o] \in Tasks
    BY <1>1, <1>2, <1>3 DEF IInv, TypeOK, MemoryOK
  <2>3. kind' \in [Objects -> {"free", "container", "record", "arena"}]
    BY <1>2 DEF IInv, TypeOK, MemoryOK
  <2>4. marked' \subseteq Objects /\ owner' \in [Objects -> Tasks \cup {None}]
    BY <1>2 DEF IInv, TypeOK, MemoryOK
  <2>5. MemoryOK'
    BY <2>1, <2>2, <2>3, <2>4 DEF MemoryOK
  <2>. HIDE DEF m
  <2>6. ProgramOK'
    BY <1>5 DEF IInv, TypeOK, ProgramOK, m
  <2>. QED BY <2>5, <2>6 DEF TypeOK
<1>7. Quiet'
  BY <1>2 DEF IInv, Quiet
<1>8. Arenas'
  BY <1>2, <1>3 DEF IInv, Arenas
<1>. HIDE DEF m
<1>9. globals' \subseteq globals \cup {m}
  BY DEF m
<1>10. \E X \in SUBSET Objects : /\ Used' \subseteq X /\ Closed(X, refs')
                                 /\ \A o \in X : kind'[o] # "free"
  <2>1. All \in SUBSET Objects /\ v \in All /\ Closed(All, refs)
    BY <1>1, AllCloses DEF Used
  <2>2. All \cup new \in SUBSET Objects /\ m \in All \cup new /\ Closed(All \cup new, refs')
    BY <1>4, <2>1
  <2>3. Used' \subseteq All \cup new
    BY <1>3, <1>9, <2>2, AllCloses DEF Used
  <2>4. \A o \in All \cup new : kind'[o] # "free"
    BY <1>1, <1>3, AllCloses
  <2>. QED BY <2>2, <2>3, <2>4
<1>11. ASSUME NEW u \in Tasks, NEW X \in SUBSET Objects, Shared(u) \subseteq X, m \in X, new \subseteq X
       PROVE  Others(u)' \subseteq X
  BY <1>3, <1>9, <1>11, SharedCloses DEF Others
<1>12. ASSUME NEW u \in Tasks
       PROVE  \E X \in SUBSET Objects : /\ Others(u)' \subseteq X /\ Closed(X, refs')
                                        /\ \A o \in X : ~(kind'[o] = "arena" /\ owner'[o] = u)
  <2>1. CASE u # t
    <3>1. /\ Shared(u) \in SUBSET Objects /\ v \in Shared(u) /\ Closed(Shared(u), refs)
          /\ \A o \in Shared(u) : ~(kind[o] = "arena" /\ owner[o] = u)
      BY <1>1, <2>1, SharedCloses DEF Others
    <3>2. /\ Shared(u) \cup new \in SUBSET Objects /\ m \in Shared(u) \cup new
          /\ Closed(Shared(u) \cup new, refs')
      BY <1>4, <3>1
    <3>3. \A o \in Shared(u) \cup new : ~(kind'[o] = "arena" /\ owner'[o] = u)
      BY <1>1, <1>2, <1>3, <3>1
    <3>4. Others(u)' \subseteq Shared(u) \cup new
      BY <1>11, <3>2
    <3>. QED BY <3>2, <3>3, <3>4
  <2>2. CASE u = t
    <3>1. PICK X \in SUBSET Objects :
            /\ Shared(t) \subseteq X /\ new \subseteq X /\ m \in X
            /\ Closed(X, Promoted(t, v, copy))
            /\ \A o \in X : o \in new \/ ~(kind[o] = "arena" /\ owner[o] = t)
      BY PromotedApart DEF new, m
    <3>2. Closed(X, refs')
      <4>1. \A o \in Objects : refs'[o] \subseteq Promoted(t, v, copy)[o] \cup {m}
        BY DEF m
      <4>. QED BY <3>1, <4>1 DEF Closed
    <3>3. \A o \in X : ~(kind'[o] = "arena" /\ owner'[o] = u)
      BY <1>2, <1>3, <2>2, <3>1
    <3>4. Others(u)' \subseteq X
      BY <1>11, <2>2, <3>1
    <3>. QED BY <3>2, <3>3, <3>4
  <2>. QED BY <2>1, <2>2
<1>. QED BY <1>6, <1>7, <1>8, <1>10, <1>12, Rearranged

\* The objects that the promoted ones point to are objects.
LEMMA PromotedTypes ==
  ASSUME IInv, NEW t \in Tasks, NEW v \in stack[t], NEW copy \in [Copies(t, v) -> Free]
  PROVE  Promoted(t, v, copy) \in [Objects -> SUBSET Objects] /\ Moved(copy, v) \in Objects
<1>1. v \in Objects /\ refs \in [Objects -> SUBSET Objects] /\ Copied(copy) \in SUBSET Objects
  BY DEF IInv, TypeOK, MemoryOK, ProgramOK, Copied, Free
<1>2. Closed(Objects, refs) /\ Objects \cup Copied(copy) = Objects
  BY <1>1 DEF Closed
<1>3. Closed(Objects, Promoted(t, v, copy)) /\ Moved(copy, v) \in Objects
  BY <1>1, <1>2, PromotedStays
<1>4. Promoted(t, v, copy) = [o \in Objects |-> Promoted(t, v, copy)[o]]
  BY DEF Promoted
<1>. QED BY <1>3, <1>4 DEF Closed

LEMMA SetGlobalSteps ==
  ASSUME IInv, NEW t \in Tasks, NEW v, NEW old, SetGlobal(t, v, old)
  PROVE  IInv'
<1>1. PICK copy \in [Copies(t, v) -> Free] :
        /\ t \in Live /\ v \in stack[t] /\ Promote(t, v, copy) /\ refs' = Promoted(t, v, copy)
        /\ globals' = (globals \ old) \cup {Moved(copy, v)}
        /\ UNCHANGED <<cache, state, arena, stack, running, result>>
  BY DEF SetGlobal
<1>2. refs' \in [Objects -> SUBSET Objects]
  BY <1>1, PromotedTypes
<1>3. globals' \subseteq globals \cup {Moved(copy, v)}
  BY <1>1
<1>4. \A o \in Objects : refs'[o] = Promoted(t, v, copy)[o]
  BY <1>1
<1>. QED BY <1>1, <1>2, <1>3, <1>4, PromoteSteps

LEMMA SendSteps ==
  ASSUME IInv, NEW t \in Tasks, NEW c \in Objects, NEW v, Send(t, c, v)
  PROVE  IInv'
<1>1. PICK copy \in [Copies(t, v) -> Free] :
        /\ t \in Live /\ v \in stack[t] /\ kind[c] = "record" /\ Promote(t, v, copy)
        /\ refs' = [Promoted(t, v, copy) EXCEPT ![c] = @ \cup {Moved(copy, v)}]
        /\ UNCHANGED <<globals, cache, state, arena, stack, running, result>>
  BY DEF Send, program
<1>2. Promoted(t, v, copy) \in [Objects -> SUBSET Objects] /\ Moved(copy, v) \in Objects
  BY <1>1, PromotedTypes
<1>3. /\ refs' \in [Objects -> SUBSET Objects]
      /\ \A o \in Objects : refs'[o] = IF o = c THEN Promoted(t, v, copy)[o] \cup {Moved(copy, v)}
                                                ELSE Promoted(t, v, copy)[o]
  BY <1>1, <1>2
<1>4. \A o \in Objects : \/ refs'[o] = Promoted(t, v, copy)[o]
                         \/ kind[o] = "record" /\ refs'[o] = Promoted(t, v, copy)[o] \cup {Moved(copy, v)}
  BY <1>1, <1>3
<1>5. globals' \subseteq globals \cup {Moved(copy, v)}
  BY <1>1
<1>6. UNCHANGED <<cache, state, arena, stack, running, result>>
  BY <1>1
<1>. QED BY <1>1, <1>3, <1>4, <1>5, <1>6, PromoteSteps

-----------------------------------------------------------------------------
(* The end of an arena, and a collection. *)

LEMMA ReapSteps == ASSUME IInv, NEW t \in Tasks, Reap(t) PROVE IInv'
<1>1. /\ state[t] = "dead" /\ stack[t] = {}
      /\ state' = [state EXCEPT ![t] = "reaped"] /\ arena' = [arena EXCEPT ![t] = FALSE]
      /\ kind' = [o \in Objects |-> IF o \in Own(t) THEN "free" ELSE kind[o]]
      /\ refs' = [o \in Objects |-> IF o \in Own(t) THEN {} ELSE refs[o]]
      /\ owner' = [o \in Objects |-> IF o \in Own(t) THEN None ELSE owner[o]]
      /\ marked' = marked \ Own(t)
      /\ UNCHANGED <<globals, cache, stack, running, result>>
  BY DEF Reap, IInv, Quiet
<1>2. \A o \in Objects : o \in Own(t) <=> kind[o] = "arena" /\ owner[o] = t
  BY DEF Own
<1>3. \A o \in Objects : /\ kind'[o] = (IF o \in Own(t) THEN "free" ELSE kind[o])
                         /\ refs'[o] = (IF o \in Own(t) THEN {} ELSE refs[o])
                         /\ owner'[o] = (IF o \in Own(t) THEN None ELSE owner[o])
  BY <1>1
<1>4. \A u \in Tasks : u # t => state'[u] = state[u] /\ arena'[u] = arena[u]
  BY <1>1 DEF IInv, TypeOK, ProgramOK
<1>5. refs \in [Objects -> SUBSET Objects]
  BY DEF IInv, TypeOK, MemoryOK
<1>6. MemoryOK'
  <2>1. /\ kind' \in [Objects -> {"free", "container", "record", "arena"}]
        /\ refs' \in [Objects -> SUBSET Objects] /\ owner' \in [Objects -> Tasks \cup {None}]
        /\ marked' \subseteq Objects
    BY <1>1 DEF IInv, TypeOK, MemoryOK
  <2>2. \A o \in Objects : /\ kind'[o] = "free" => refs'[o] = {}
                           /\ kind'[o] = "arena" <=> owner'[o] \in Tasks
    BY <1>3, HeapAssumption DEF IInv, TypeOK, MemoryOK
  <2>. QED BY <2>1, <2>2 DEF MemoryOK
<1>7. ProgramOK'
  BY <1>1 DEF IInv, TypeOK, ProgramOK
<1>8. Quiet'
  <2>1. \A u \in Tasks : state'[u] # "live" => stack[u] = {}
    BY <1>1, <1>4 DEF IInv, Quiet
  <2>. QED BY <1>1, <2>1 DEF IInv, Quiet
<1>9. Arenas'
  <2>. SUFFICES ASSUME NEW o \in Objects, kind'[o] = "arena"
                PROVE  arena'[owner'[o]] /\ state'[owner'[o]] \in {"live", "dead"}
    BY DEF Arenas
  <2>1. kind[o] = "arena" /\ owner'[o] = owner[o] /\ owner[o] # t /\ owner[o] \in Tasks
    BY <1>2, <1>3 DEF IInv, TypeOK, MemoryOK
  <2>. QED BY <1>4, <2>1 DEF IInv, Arenas
<1>10. All \in SUBSET Objects /\ Used' \subseteq All /\ Closed(All, refs') /\ \A o \in All : kind'[o] # "free"
  <2>1. Used \subseteq Others(t)
    BY <1>1 DEF Used, Others
  <2>2. All \subseteq Shared(t)
    <3>1. Others(t) \subseteq Used
      BY DEF Others, Used
    <3>2. Used = Others(t)
      BY <2>1, <3>1
    <3>. QED BY <3>2 DEF All, Shared
  <2>3. \A o \in All : o \in Objects /\ o \notin Own(t)
    BY <1>2, <2>2, SharedCloses
  <2>4. Used' \subseteq All
    BY <1>1, <1>3, AllCloses DEF Used
  <2>5. Closed(All, refs')
    BY <1>3, <2>3, AllCloses DEF Closed
  <2>. QED BY <1>3, <2>3, <2>4, <2>5, AllCloses
<1>11. ASSUME NEW u \in Tasks
       PROVE  \E X \in SUBSET Objects : /\ Others(u)' \subseteq X /\ Closed(X, refs')
                                        /\ \A o \in X : ~(kind'[o] = "arena" /\ owner'[o] = u)
  <2>1. CASE u = t
    <3>1. Others(u)' \subseteq Objects
      BY DEF Others
    <3>2. Closed(Objects, refs')
      BY <1>3, <1>5 DEF Closed
    <3>3. \A o \in Objects : ~(kind'[o] = "arena" /\ owner'[o] = u)
      BY <1>2, <1>3, <2>1
    <3>. QED BY <3>1, <3>2, <3>3
  <2>2. CASE u # t
    <3>1. Others(u)' \subseteq Shared(u)
      BY <1>1, <1>3, SharedCloses DEF Others
    <3>2. Shared(u) \in SUBSET Objects /\ Closed(Shared(u), refs')
      <4>1. \A o \in Objects : refs'[o] \subseteq refs[o]
        BY <1>3
      <4>. QED BY <4>1, SharedCloses DEF Closed
    <3>3. \A o \in Shared(u) : ~(kind'[o] = "arena" /\ owner'[o] = u)
      BY <1>3, SharedCloses
    <3>. QED BY <3>1, <3>2, <3>3
  <2>. QED BY <2>1, <2>2
<1>12. TypeOK'
  BY <1>6, <1>7 DEF TypeOK
<1>. QED BY <1>8, <1>9, <1>10, <1>11, <1>12, Rearranged

\* What a collection marks: what can be reached from where the program holds.
LEMMA Marks ==
  ASSUME Plain, IInv, Collect
  PROVE  /\ Mark = Reach(Held, refs)
         /\ \A o \in Objects : kind[o] # "arena"
<1>1. (\A t \in Tasks : state[t] # "dead") /\ \A t \in Tasks : state[t] = "live" => ~arena[t]
  BY DEF Collect, Plain, Live
<1>2. \A o \in Objects : kind[o] # "arena"
  BY <1>1 DEF IInv, TypeOK, MemoryOK, Arenas
<1>3. [o \in Objects |-> refs[o] \ marked] = refs
  BY DEF IInv, TypeOK, MemoryOK, Quiet
<1>4. Mark = Reach(Roots, refs)
  <2>1. Roots \ marked = Roots /\ marked = {}
    BY DEF IInv, Quiet
  <2>2. Mark = {} \cup Reach(Roots, refs)
    BY <1>3, <2>1 DEF Mark
  <2>. QED BY <2>2
<1>5. Roots = Held
  <2>1. UNION {stack[t] : t \in Live} = UNION {stack[t] \cup running[t] \cup result[t] : t \in Tasks}
    <3>1. \A t \in Tasks : stack[t] \cup running[t] \cup result[t] = stack[t]
      BY DEF IInv, Quiet
    <3>2. \A t \in Tasks : t \notin Live => stack[t] = {}
      BY DEF IInv, Quiet, Live
    <3>3. \A x \in UNION {stack[t] : t \in Live} :
            x \in UNION {stack[t] \cup running[t] \cup result[t] : t \in Tasks}
      BY DEF Live
    <3>4. \A x \in UNION {stack[t] \cup running[t] \cup result[t] : t \in Tasks} :
            x \in UNION {stack[t] : t \in Live}
      BY <3>1, <3>2
    <3>. QED BY <3>3, <3>4
  <2>2. cache = {}
    BY DEF IInv, Quiet
  <2>. QED BY <2>1, <2>2 DEF Roots, Held
<1>. QED BY <1>2, <1>4, <1>5

\* All that is held is in use, and what others than t hold.
LEMMA Holds ==
  ASSUME IInv
  PROVE  /\ Held \subseteq Used /\ \A t \in Tasks : Elsewhere(t) \subseteq Others(t)
         /\ globals \subseteq Held /\ \A t \in Tasks : stack[t] \subseteq Held
<1>1. /\ globals \subseteq Objects /\ cache = {}
      /\ \A t \in Tasks : running[t] = {} /\ result[t] = {} /\ stack[t] \subseteq Objects
  BY DEF IInv, TypeOK, ProgramOK, Quiet
<1>2. ASSUME NEW S \in SUBSET Tasks,
             NEW x \in UNION {stack[u] \cup running[u] \cup result[u] : u \in S}
      PROVE  \E u \in S : x \in stack[u]
  BY <1>1
<1>3. Held \subseteq Used
  BY <1>1, <1>2 DEF Held, Used
<1>4. \A t \in Tasks : Elsewhere(t) \subseteq Others(t)
  BY <1>1, <1>2 DEF Elsewhere, Others
<1>5. globals \subseteq Held /\ \A t \in Tasks : stack[t] \subseteq Held
  BY DEF Held
<1>. QED BY <1>3, <1>4, <1>5

LEMMA CollectSteps == ASSUME Plain, IInv, Collect PROVE IInv'
<1>. DEFINE R == Mark
<1>1. /\ kind' = [o \in Objects |-> IF o \in Listed \ R THEN "free" ELSE kind[o]]
      /\ refs' = [o \in Objects |-> IF o \in Listed \ R THEN {} ELSE refs[o]]
      /\ marked' = R \ Listed
      /\ UNCHANGED <<owner, globals, cache, state, arena, stack, running, result>>
  BY DEF Collect, Sweep, program
<1>2. R = Reach(Held, refs) /\ \A o \in Objects : kind[o] # "arena"
  BY Marks
<1>. HIDE DEF R
<1>3. /\ refs \in [Objects -> SUBSET Objects] /\ Held \in SUBSET Objects
      /\ Used \in SUBSET Objects
  <2>1. Used \in SUBSET Objects
    BY DEF Used
  <2>. QED BY <2>1, Holds DEF IInv, TypeOK, MemoryOK
<1>4. R \in SUBSET Objects /\ Held \subseteq R /\ Closed(R, refs)
  BY <1>2, <1>3, ReachCloses
<1>5. R \subseteq All
  <2>1. Held \subseteq All /\ All \in SUBSET Objects /\ Closed(All, refs)
    BY Holds, AllCloses
  <2>. QED BY <1>2, <2>1, ReachLeast
<1>6. \A o \in R : o \in Listed
  BY <1>2, <1>4, <1>5, AllCloses DEF Listed, IInv, TypeOK, MemoryOK
<1>7. \A o \in Objects : /\ kind'[o] = (IF o \in Listed \ R THEN "free" ELSE kind[o])
                         /\ refs'[o] = (IF o \in Listed \ R THEN {} ELSE refs[o])
  BY <1>1
<1>8. TypeOK'
  <2>1. /\ kind' \in [Objects -> {"free", "container", "record", "arena"}]
        /\ refs' \in [Objects -> SUBSET Objects] /\ owner' \in [Objects -> Tasks \cup {None}]
        /\ marked' \subseteq Objects
    BY <1>1, <1>4 DEF IInv, TypeOK, MemoryOK
  <2>2. \A o \in Objects : /\ kind'[o] = "free" => refs'[o] = {}
                           /\ kind'[o] = "arena" <=> owner'[o] \in Tasks
    BY <1>1, <1>2, <1>7 DEF IInv, TypeOK, MemoryOK
  <2>3. MemoryOK'
    BY <2>1, <2>2 DEF MemoryOK
  <2>4. ProgramOK'
    BY <1>1 DEF IInv, TypeOK, ProgramOK
  <2>. QED BY <2>3, <2>4 DEF TypeOK
<1>9. Quiet'
  <2>1. marked' = {}
    BY <1>1, <1>6
  <2>. QED BY <1>1, <2>1 DEF IInv, Quiet
<1>10. \A o \in Objects : kind'[o] # "arena"
  BY <1>2, <1>7
<1>11. Arenas'
  BY <1>10 DEF Arenas
<1>12. Used' \subseteq R
  BY <1>1, <1>4, <1>7, Holds DEF Used, Listed
<1>13. Closed(R, refs') /\ \A o \in R : kind'[o] # "free"
  BY <1>4, <1>5, <1>7, AllCloses DEF Closed
<1>14. ASSUME NEW u \in Tasks
       PROVE  Others(u)' \subseteq R /\ \A o \in R : ~(kind'[o] = "arena" /\ owner'[o] = u)
  <2>1. Others(u)' \subseteq Used'
    BY DEF Others, Used
  <2>. QED BY <1>4, <1>10, <1>12, <2>1
<1>. QED BY <1>4, <1>8, <1>9, <1>11, <1>12, <1>13, <1>14, Rearranged

-----------------------------------------------------------------------------
(* The specification. *)

LEMMA InitInv == ASSUME Init PROVE IInv
<1>1. TypeOK
  <2>1. MemoryOK
    BY HeapAssumption DEF Init, MemoryOK
  <2>2. ProgramOK
    BY DEF Init, ProgramOK
  <2>. QED BY <2>1, <2>2 DEF TypeOK
<1>2. Quiet /\ Arenas
  BY DEF Init, Quiet, Arenas
<1>3. Used = {} /\ \A t \in Tasks : Others(t) = {}
  BY DEF Init, Used, Others
<1>4. Closed({}, refs)
  BY DEF Closed
<1>5. Reach({}, refs) = {}
  BY <1>4, ReachLeast
<1>. QED BY <1>1, <1>2, <1>3, <1>5 DEF IInv, Sound, Apart

LEMMA StutterInv == ASSUME IInv, UNCHANGED vars PROVE IInv'
<1>1. UNCHANGED <<kind, refs, owner, marked, globals, cache, state, arena, stack, running, result>>
  BY DEF vars, memory, program
<1>2. TypeOK'
  BY <1>1 DEF IInv, TypeOK, MemoryOK, ProgramOK
<1>3. Quiet' /\ Arenas'
  BY <1>1 DEF IInv, Quiet, Arenas
<1>4. Used' = Used /\ \A t \in Tasks : Others(t)' = Others(t)
  BY <1>1 DEF Used, Others
<1>5. Sound'
  BY <1>1, <1>4 DEF IInv, Sound
<1>6. Apart'
  BY <1>1, <1>4 DEF IInv, Apart
<1>. QED BY <1>2, <1>3, <1>5, <1>6 DEF IInv

LEMMA MemoryInv == ASSUME Plain, IInv, NEW t \in Tasks, Memory(t) PROVE IInv'
<1>1. globals \subseteq Objects /\ stack[t] \subseteq Objects /\ running[t] \subseteq Objects
  BY DEF IInv, TypeOK, ProgramOK
<1>2. ASSUME NEW k \in {"container", "record", "arena"}, NEW S \in SUBSET stack[t], New(t, k, S) PROVE IInv'
  BY <1>2, NewSteps
<1>3. ASSUME NEW o \in Objects, Load(t, o) \/ Drop(t, o) PROVE IInv'
  BY <1>3, LoadSteps, DropSteps
<1>4. ASSUME NEW o \in stack[t] \cup running[t], NEW v \in stack[t], Store(t, o, v) \/ Send(t, o, v)
      PROVE  IInv'
  <2>1. o \in Objects /\ v \in Objects
    BY <1>1
  <2>. QED BY <1>4, <2>1, StoreSteps, SendSteps
<1>5. ASSUME NEW o \in stack[t] \cup running[t], NEW v \in Objects, Overwrite(t, o, v) PROVE IInv'
  <2>1. o \in Objects
    BY <1>1
  <2>. QED BY <1>5, <2>1, OverwriteSteps
<1>6. ASSUME NEW v, NEW old, SetGlobal(t, v, old) PROVE IInv'
  BY <1>6, SetGlobalSteps
<1>7. ASSUME NEW v \in globals, UnsetGlobal(t, v) PROVE IInv'
  <2>1. v \in Objects
    BY <1>1
  <2>. QED BY <1>7, <2>1, UnsetGlobalSteps
<1>. QED BY <1>2, <1>3, <1>4, <1>5, <1>6, <1>7 DEF Memory

LEMMA ControlInv == ASSUME Plain, IInv, NEW t \in Tasks, Control(t) PROVE IInv'
<1>1. ASSUME NEW u \in Tasks, NEW args,
             NEW closures \in {{}} \cup {c \in Singles(stack[t]) : "capture" \in Uses},
             Spawn(t, u, args, closures)
      PROVE  IInv'
  BY <1>1, SpawnSteps
<1>2. ASSUME NEW u \in Tasks, NEW args, Serve(t, u, args) PROVE IInv'
  BY <1>2, ServeSteps
<1>3. ASSUME NEW S, Return(t, S) PROVE IInv'
  BY <1>3, ReturnSteps
<1>4. CASE \/ \E u \in Tasks : Await(t, u)
           \/ \E S \in {{}} \cup Singles(stack[t]) : CacheStore(t, S)
           \/ \E S \in {{}} \cup Singles(cache) : CacheHit(t, S)
  BY <1>4, EmptySteps, StutterInv
<1>5. CASE Reap(t)
  BY <1>5, ReapSteps
<1>. QED BY <1>1, <1>2, <1>3, <1>4, <1>5 DEF Control

LEMMA NextInv == ASSUME Plain, IInv, [Next]_vars PROVE IInv'
  BY StutterInv, MemoryInv, ControlInv, CollectSteps DEF Next

\* What is in use is there, and a handler's structs are its own.
LEMMA InvHeap == ASSUME IInv PROVE HeapInv
<1>1. NoDangling
  <2>1. Held \subseteq All /\ All \in SUBSET Objects /\ Closed(All, refs)
    BY Holds, AllCloses
  <2>2. Reach(Held, refs) \subseteq All
    BY <2>1, ReachLeast
  <2>. QED BY <2>2, AllCloses DEF NoDangling
<1>2. ArenasAreOwn
  <2>. SUFFICES ASSUME NEW t \in Tasks PROVE Own(t) \cap Reach(Elsewhere(t), refs) = {}
    BY DEF ArenasAreOwn
  <2>1. Elsewhere(t) \subseteq Shared(t) /\ Shared(t) \in SUBSET Objects /\ Closed(Shared(t), refs)
    BY Holds, SharedCloses
  <2>2. Reach(Elsewhere(t), refs) \subseteq Shared(t)
    BY <2>1, ReachLeast
  <2>. QED BY <2>2, SharedCloses DEF Own
<1>. QED BY <1>1, <1>2 DEF HeapInv, IInv

\* Neither the collector nor the end of an arena frees what a program may still use,
\* and no handler's struct is reached from another task, whatever the tasks do.
THEOREM MemoryIsSafe == Plain => (Spec => []HeapInv)
<1>. SUFFICES ASSUME Plain PROVE Spec => []HeapInv
  OBVIOUS
<1>1. Init => IInv
  BY InitInv
<1>2. IInv /\ [Next]_vars => IInv'
  BY NextInv
<1>3. IInv => HeapInv
  BY InvHeap
<1>. QED BY <1>1, <1>2, <1>3, PTL DEF Spec

-----------------------------------------------------------------------------
(* All garbage. *)

\* Nothing but a collection frees what is on the collector's list.
LEMMA FreesNothing ==
  ASSUME IInv, NEW t \in Tasks, Memory(t) \/ Control(t)
  PROVE  Freed = {}
<1>. SUFFICES ASSUME NEW o \in Objects, kind[o] # "free", kind[o] # "arena" PROVE kind'[o] # "free"
  BY DEF Freed, Listed
<1>1. ASSUME NEW k \in {"container", "record", "arena"}, NEW S, New(t, k, S) PROVE kind'[o] # "free"
  <2>1. PICK p \in Free : kind' = [kind EXCEPT ![p] = k]
    BY <1>1 DEF New
  <2>2. kind'[o] = kind[o]
    BY <2>1 DEF Free, IInv, TypeOK, MemoryOK
  <2>. QED BY <2>2
<1>2. CASE kind' = kind
  BY <1>2
<1>3. ASSUME NEW v, NEW copy \in [Copies(t, v) -> Free], Promote(t, v, copy) PROVE kind'[o] # "free"
  BY <1>3 DEF Promote
<1>4. CASE Reap(t)
  BY <1>4 DEF Reap, Own
<1>5. ASSUME \E u \in Tasks, args \in {{}} \cup Singles(stack[t]) :
               \/ \E closures \in {{}} \cup {c \in Singles(stack[t]) : "capture" \in Uses} :
                    Spawn(t, u, args, closures)
               \/ Serve(t, u, args)
      PROVE  kind' = kind
  BY <1>5 DEF Spawn, Serve, Start, memory
<1>6. ASSUME \/ \E u \in Tasks : Await(t, u)
             \/ \E S \in {{}} \cup Singles(stack[t]) : CacheStore(t, S) \/ Return(t, S)
             \/ \E S \in {{}} \cup Singles(cache) : CacheHit(t, S)
      PROVE  kind' = kind
  BY <1>6 DEF Await, CacheStore, Return, CacheHit, memory
<1>7. CASE Control(t)
  BY <1>2, <1>4, <1>5, <1>6, <1>7 DEF Control
<1>8. ASSUME NEW p, NEW v, Store(t, p, v) \/ Overwrite(t, p, v) \/ Load(t, p) \/ Drop(t, p) \/ UnsetGlobal(t, v)
      PROVE  kind' = kind
  BY <1>8 DEF Store, Overwrite, Load, Drop, UnsetGlobal, memory
<1>9. ASSUME NEW p, NEW v, SetGlobal(t, v, p) \/ Send(t, p, v) PROVE kind'[o] # "free"
  BY <1>3, <1>9 DEF SetGlobal, Send
<1>10. CASE Memory(t)
  BY <1>1, <1>2, <1>8, <1>9, <1>10 DEF Memory
<1>. QED BY <1>7, <1>10

\* A collection frees all that the program cannot reach, cycles as well.
THEOREM GarbageIsCollected == Plain => (Spec => GarbageIsFreed)
<1>. SUFFICES ASSUME Plain PROVE Spec => GarbageIsFreed
  OBVIOUS
<1>1. Init => IInv
  BY InitInv
<1>2. IInv /\ [Next]_vars => IInv'
  BY NextInv
<1>3. IInv /\ [Next]_vars => [Freed # {} => Listed \ Reach(Held, refs) \subseteq Freed]_vars
  <2>. SUFFICES ASSUME IInv, Next PROVE Freed # {} => Listed \ Reach(Held, refs) \subseteq Freed
    OBVIOUS
  <2>1. CASE \E t \in Tasks : Memory(t) \/ Control(t)
    BY <2>1, FreesNothing
  <2>2. CASE Collect
    <3>1. kind' = [o \in Objects |-> IF o \in Listed \ Mark THEN "free" ELSE kind[o]]
      BY <2>2 DEF Collect, Sweep
    <3>2. Mark = Reach(Held, refs)
      BY <2>2, Marks
    <3>3. Listed \subseteq Objects
      BY DEF Listed
    <3>. QED BY <3>1, <3>2, <3>3 DEF Freed
  <2>. QED BY <2>1, <2>2 DEF Next
<1>. QED BY <1>1, <1>2, <1>3, PTL DEF Spec, GarbageIsFreed
=============================================================================

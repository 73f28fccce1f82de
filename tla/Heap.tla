-------------------------------- MODULE Heap --------------------------------
(***************************************************************************)
(* The memory of the Varian VM (src/src/vm.c): the mark-and-sweep          *)
(* collector, which runs between two passes of the scheduler, the arenas   *)
(* of HTTP handlers, whose structs no list of the collector has and which  *)
(* are reclaimed at once with their task, and escape_promote(), which      *)
(* copies such a struct to the heap when it is stored in a global or sent  *)
(* through a channel.                                                      *)
(*                                                                         *)
(* An object is an address and has a kind:                                 *)
(*   "free"       nothing is allocated there;                              *)
(*   "container"  a string, array, closure or enum: escape_promote() looks *)
(*                for structs in it;                                       *)
(*   "record"     a struct on the heap, a tuple, a channel: it does not;   *)
(*   "arena"      a struct in the arena of its owner.                      *)
(* refs has what an object points to; which field does is left out.  Tasks *)
(* are those of module Scheduler; what a program does is not modelled: in  *)
(* its turn a task may execute any of the instructions.  Uses says which   *)
(* of the ways below a program may have of keeping an object alive:        *)
(*   "capture"  a spawned closure that nothing else refers to              *)
(*   "await"    a task's result                                            *)
(*   "cache"    the result of a @cache function                            *)
(*   "defer"    an arena, in a handler that gives way                      *)
(*   "bury"     a store, other than the two above, of an arena's struct in *)
(*              a record or in what others share, or a spawn or a @cache   *)
(*              function with it                                           *)
(***************************************************************************)
EXTENDS Integers, FiniteSets

CONSTANTS Objects,   \* the addresses
          Tasks,
          Main,      \* the main script's
          MaxFields, \* bound on what an object points to
          Uses,
          None

ASSUME HeapAssumption ==
  /\ Main \in Tasks
  /\ None \notin Tasks
  /\ Uses \subseteq {"capture", "await", "cache", "defer", "bury"}

VARIABLES kind,
          refs,
          owner,    \* the task whose arena a struct is in
          marked,   \* the objects that have is_marked set
          globals,  \* what vm->globals point to
          cache,    \* what vm->cache_map points to
          state,    \* state[t]: "none", "live", "dead" (still in vm->tasks) or "reaped"
          arena,    \* arena[t]: use_arena
          stack,    \* stack[t]: what the stack of t points to
          running,  \* running[t]: the closures of its frames
          result    \* result[t]: what t->result points to

memory == <<kind, refs, owner, marked>>
program == <<globals, cache, state, arena, stack, running, result>>
vars == <<memory, program>>

\* What can be reached from the objects in R if object o points to those in g[o].
Reach(R, g) == LET closed == {S \in SUBSET Objects : R \subseteq S /\ \A o \in S : g[o] \subseteq S}
               IN  {o \in Objects : \A S \in closed : o \in S}

Live == {t \in Tasks : state[t] = "live"}
Free == {o \in Objects : kind[o] = "free"}
Listed == {o \in Objects : kind[o] \in {"container", "record"}}   \* vm->objects
Own(t) == {o \in Objects : kind[o] = "arena" /\ owner[o] = t}

Singles(S) == {{x} : x \in S}

Init == /\ kind = [o \in Objects |-> "free"]
        /\ refs = [o \in Objects |-> {}]
        /\ owner = [o \in Objects |-> None]
        /\ marked = {}
        /\ globals = {}
        /\ cache = {}
        /\ state = [t \in Tasks |-> IF t = Main THEN "live" ELSE "none"]
        /\ arena = [t \in Tasks |-> FALSE]
        /\ stack = [t \in Tasks |-> {}]
        /\ running = [t \in Tasks |-> {}]
        /\ result = [t \in Tasks |-> {}]

-----------------------------------------------------------------------------
(* What is reached how. *)

\* What others than t hold, and what t shares with them.
Elsewhere(t) == globals \cup cache \cup UNION {stack[u] \cup running[u] \cup result[u] :
                                                 u \in Tasks \ {t}}

\* What the program may still use.
Held == globals \cup cache \cup UNION {stack[t] \cup running[t] \cup result[t] : t \in Tasks}

\* Some of the objects in S are structs of t's arena, or lead to one.
Carries(t, S) == Reach(S, refs) \cap Own(t) # {}

\* Object o is a struct of t's arena, or a container that escape_promote() comes
\* through on the way to what is in it.
Private(t, o) == \/ o \in Own(t)
                 \/ /\ kind[o] = "container"
                    /\ o \notin Reach(Elsewhere(t) \cup {p \in Objects : kind[p] = "record"}, refs)

MayHold(t, o, v) == Carries(t, {v}) => "bury" \in Uses \/ Private(t, o)
MayLeave(t, S) == Carries(t, S) => "bury" \in Uses

-----------------------------------------------------------------------------
(* Allocation and the fields of objects. *)

\* allocate_object(), new_struct(): an object on t's stack with what was there in its
\* fields.  A handler's struct is in the arena while there is room.
New(t, k, S) == \E o \in Free :
  /\ t \in Live
  /\ S \subseteq stack[t] /\ Cardinality(S) <= MaxFields
  /\ k = "arena" => arena[t]
  /\ k = "record" => MayLeave(t, S)
  /\ kind' = [kind EXCEPT ![o] = k]
  /\ refs' = [refs EXCEPT ![o] = S]
  /\ owner' = [owner EXCEPT ![o] = IF k = "arena" THEN t ELSE None]
  /\ marked' = marked \ {o}
  /\ stack' = [stack EXCEPT ![t] = @ \cup {o}]
  /\ UNCHANGED <<globals, cache, state, arena, running, result>>

\* A global, a field, an element, a captured value, a receive.
Load(t, o) ==
  /\ t \in Live
  /\ o \in globals \cup UNION {refs[p] : p \in stack[t] \cup running[t]}
  /\ stack' = [stack EXCEPT ![t] = @ \cup {o}]
  /\ UNCHANGED <<memory, globals, cache, state, arena, running, result>>

Drop(t, o) == /\ t \in Live /\ o \in stack[t]
              /\ stack' = [stack EXCEPT ![t] = @ \ {o}]
              /\ UNCHANGED <<memory, globals, cache, state, arena, running, result>>

\* BC_SET_INDEX, BC_SET_MEMBER, BC_SET_UPVALUE.
Store(t, o, v) == /\ t \in Live /\ o \in stack[t] \cup running[t] /\ v \in stack[t]
                  /\ Cardinality(refs[o] \cup {v}) <= MaxFields
                  /\ MayHold(t, o, v)
                  /\ refs' = [refs EXCEPT ![o] = @ \cup {v}]
                  /\ UNCHANGED <<kind, owner, marked, program>>

\* They overwrite a field; a receive empties a place in the buffer.
Overwrite(t, o, v) == /\ t \in Live /\ o \in stack[t] \cup running[t]
                      /\ v \in refs[o]
                      /\ refs' = [refs EXCEPT ![o] = @ \ {v}]
                      /\ UNCHANGED <<kind, owner, marked, program>>

-----------------------------------------------------------------------------
(* escape_promote() *)

\* Where it goes from v: into containers and its own arena's structs.
Walk(t, v) == Reach({v}, [o \in Objects |-> IF kind[o] = "container" \/ o \in Own(t)
                                              THEN refs[o] ELSE {}])

\* It would not return from a cycle.
Acyclic(S) == \A o \in S : o \notin Reach(refs[o], refs)

Copies(t, v) == IF arena[t] THEN Walk(t, v) \cap Own(t) ELSE {}

\* The value that is stored for v once its structs have been copied: copy[o] is the
\* struct on the heap that o is copied to.  (One that two fields point to is copied
\* twice by the code.)
Moved(copy, o) == IF o \in DOMAIN copy THEN copy[o] ELSE o

\* What the objects point to afterwards: the copies, and the containers that led to
\* what was copied, point to copies.
Promoted(t, v, copy) ==
  LET moved(o) == {Moved(copy, p) : p \in refs[o]} IN
  [o \in Objects |->
     IF \E p \in DOMAIN copy : copy[p] = o
       THEN moved(CHOOSE p \in DOMAIN copy : copy[p] = o)
     ELSE IF DOMAIN copy # {} /\ kind[o] = "container" /\ o \in Walk(t, v) THEN moved(o)
     ELSE refs[o]]

Promote(t, v, copy) ==
  LET new == {copy[o] : o \in DOMAIN copy} IN
  /\ arena[t] => Acyclic(Walk(t, v))
  /\ Cardinality(new) = Cardinality(DOMAIN copy)
  /\ kind' = [o \in Objects |-> IF o \in new THEN "record" ELSE kind[o]]
  /\ marked' = marked \ new
  /\ UNCHANGED owner

\* define_global(), set_global(): in place of what is in old.
SetGlobal(t, v, old) == \E copy \in [Copies(t, v) -> Free] :
  /\ t \in Live /\ v \in stack[t]
  /\ Promote(t, v, copy)
  /\ refs' = Promoted(t, v, copy)
  /\ globals' = (globals \ old) \cup {Moved(copy, v)}
  /\ UNCHANGED <<cache, state, arena, stack, running, result>>

\* A global is set to a value that is no object.
UnsetGlobal(t, v) == /\ t \in Live /\ v \in globals
                     /\ globals' = globals \ {v}
                     /\ UNCHANGED <<memory, cache, state, arena, stack, running, result>>

\* BC_CHAN_SEND on channel c.
Send(t, c, v) == \E copy \in [Copies(t, v) -> Free] :
  /\ t \in Live /\ {c, v} \subseteq stack[t]
  /\ kind[c] = "record"
  /\ Cardinality(refs[c] \cup {Moved(copy, v)}) <= MaxFields
  /\ Promote(t, v, copy)
  /\ refs' = [Promoted(t, v, copy) EXCEPT ![c] = @ \cup {Moved(copy, v)}]
  /\ UNCHANGED program

-----------------------------------------------------------------------------
(* Tasks. *)

\* task_new() with a frame, an argument and, if it is a closure, the closure.
Start(u, args, closures, handler) ==
  /\ state[u] \in {"none", "reaped"}
  /\ state' = [state EXCEPT ![u] = "live"]
  /\ arena' = [arena EXCEPT ![u] = handler]
  /\ stack' = [stack EXCEPT ![u] = args]
  /\ running' = [running EXCEPT ![u] = closures]
  /\ result' = [result EXCEPT ![u] = {}]
  /\ UNCHANGED <<memory, globals, cache>>

\* task.spawn()
Spawn(t, u, args, closures) == /\ t \in Live
                               /\ args \cup closures \subseteq stack[t]
                               /\ MayLeave(t, args \cup closures)
                               /\ Start(u, args, closures, FALSE)

\* call_handler(), in a task that serves; the request is not in the arena yet.
Serve(t, u, args) == /\ t \in Live /\ ~arena[t]
                     /\ args \subseteq stack[t]
                     /\ Start(u, args, {}, TRUE)

\* BC_AWAIT, when task u is dead.
Await(t, u) == /\ t \in Live
               /\ state[u] \in {"dead", "reaped"}
               /\ stack' = [stack EXCEPT ![t] = @ \cup result[u]]
               /\ UNCHANGED <<memory, globals, cache, state, arena, running, result>>

\* The return of a @cache function, and a call that finds its result.
CacheStore(t, S) == /\ t \in Live
                    /\ S \subseteq stack[t] /\ MayLeave(t, S)
                    /\ S # {} => "cache" \in Uses
                    /\ cache' = cache \cup S
                    /\ UNCHANGED <<memory, globals, state, arena, stack, running, result>>

CacheHit(t, S) == /\ t \in Live
                  /\ S \subseteq cache
                  /\ stack' = [stack EXCEPT ![t] = @ \cup S]
                  /\ UNCHANGED <<memory, globals, cache, state, arena, running, result>>

\* The last return, of what is in S, or an error.
Return(t, S) == /\ t \in Live
                /\ S \subseteq stack[t]
                /\ S # {} => "await" \in Uses /\ ~arena[t]
                /\ state' = [state EXCEPT ![t] = "dead"]
                /\ result' = [result EXCEPT ![t] = S]
                /\ stack' = [stack EXCEPT ![t] = {}]
                /\ running' = [running EXCEPT ![t] = {}]
                /\ UNCHANGED <<memory, globals, cache, arena>>

\* At the end of the pass: the arena is given back.
Reap(t) == /\ state[t] = "dead"
           /\ state' = [state EXCEPT ![t] = "reaped"]
           /\ arena' = [arena EXCEPT ![t] = FALSE]
           /\ kind' = [o \in Objects |-> IF o \in Own(t) THEN "free" ELSE kind[o]]
           /\ refs' = [o \in Objects |-> IF o \in Own(t) THEN {} ELSE refs[o]]
           /\ owner' = [o \in Objects |-> IF o \in Own(t) THEN None ELSE owner[o]]
           /\ marked' = marked \ Own(t)
           /\ UNCHANGED <<globals, cache, stack, running, result>>

-----------------------------------------------------------------------------
(* gc_collect() *)

\* gc_mark_roots(): an object that is marked already is not looked into.
Roots == globals \cup UNION {stack[t] : t \in Live}

\* Mutant of Mark: gc_trace() has no case for records.
MarkContainers == marked \cup Reach(Roots \ marked, [o \in Objects |-> IF kind[o] = "record" THEN {}
                                                                        ELSE refs[o] \ marked])

\* gc_trace()
Mark == marked \cup Reach(Roots \ marked, [o \in Objects |-> refs[o] \ marked])

\* Mutant of Sweep: the marks stay.
SweepKeepsMarks(reached) == /\ kind' = [o \in Objects |-> IF o \in Listed \ reached THEN "free" ELSE kind[o]]
                            /\ refs' = [o \in Objects |-> IF o \in Listed \ reached THEN {} ELSE refs[o]]
                            /\ marked' = reached

\* gc_sweep(): what it has on its list is freed, or its mark is reset.
Sweep(reached) == /\ kind' = [o \in Objects |-> IF o \in Listed \ reached THEN "free" ELSE kind[o]]
                  /\ refs' = [o \in Objects |-> IF o \in Listed \ reached THEN {} ELSE refs[o]]
                  /\ marked' = reached \ Listed

\* Between two passes, when enough has been allocated: no task is dead and not reaped.
Collect == /\ \A t \in Tasks : state[t] # "dead"
           /\ "defer" \in Uses \/ \A t \in Live : ~arena[t]
           /\ Sweep(Mark)
           /\ UNCHANGED <<owner, program>>

-----------------------------------------------------------------------------
Memory(t) == \/ \E k \in {"container", "record", "arena"}, S \in SUBSET stack[t] : New(t, k, S)
             \/ \E o \in Objects : Load(t, o) \/ Drop(t, o)
             \/ \E o \in stack[t] \cup running[t], v \in stack[t] : Store(t, o, v) \/ Send(t, o, v)
             \/ \E o \in stack[t] \cup running[t], v \in Objects : Overwrite(t, o, v)
             \/ \E v \in stack[t], old \in {{}} \cup Singles(globals) : SetGlobal(t, v, old)
             \/ \E v \in globals : UnsetGlobal(t, v)

Control(t) == \/ \E u \in Tasks, args \in {{}} \cup Singles(stack[t]) :
                   \/ \E closures \in {{}} \cup {c \in Singles(stack[t]) : "capture" \in Uses} :
                        Spawn(t, u, args, closures)
                   \/ Serve(t, u, args)
              \/ \E u \in Tasks : Await(t, u)
              \/ \E S \in {{}} \cup Singles(stack[t]) : CacheStore(t, S) \/ Return(t, S)
              \/ \E S \in {{}} \cup Singles(cache) : CacheHit(t, S)
              \/ Reap(t)

Next == (\E t \in Tasks : Memory(t) \/ Control(t)) \/ Collect

Spec == Init /\ [][Next]_vars

-----------------------------------------------------------------------------
(* Properties. *)

MemoryOK == /\ kind \in [Objects -> {"free", "container", "record", "arena"}]
            /\ refs \in [Objects -> SUBSET Objects]
            /\ owner \in [Objects -> Tasks \cup {None}]
            /\ \A o \in Objects : /\ kind[o] = "free" => refs[o] = {}
                                  /\ kind[o] = "arena" <=> owner[o] \in Tasks
            /\ marked \subseteq Objects

ProgramOK == /\ globals \subseteq Objects /\ cache \subseteq Objects
             /\ state \in [Tasks -> {"none", "live", "dead", "reaped"}]
             /\ arena \in [Tasks -> BOOLEAN]
             /\ stack \in [Tasks -> SUBSET Objects]
             /\ running \in [Tasks -> SUBSET Objects]
             /\ result \in [Tasks -> SUBSET Objects]

TypeOK == MemoryOK /\ ProgramOK

\* Nothing that a program can still reach has been freed, by a collection or with an
\* arena.
NoDangling == \A o \in Reach(Held, refs) : kind[o] # "free"

\* No struct of a handler's arena can be reached by another task: it is copied
\* wherever it would be.
ArenasAreOwn == \A t \in Tasks : Own(t) \cap Reach(Elsewhere(t), refs) = {}

\* What is in use is there, and a handler's structs are its own.
HeapInv == TypeOK /\ NoDangling /\ ArenasAreOwn

\* A collection that frees anything frees all garbage on its list.
Freed == {o \in Listed : kind'[o] = "free"}
GarbageIsFreed == [][Freed # {} => Listed \ Reach(Held, refs) \subseteq Freed]_vars
=============================================================================

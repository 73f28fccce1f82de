------------------------------- MODULE Unwind -------------------------------
(***************************************************************************)
(* How a task of the Varian VM leaves functions: call frames, the stack of *)
(* try blocks beside them, throw, runtime errors, and the @retry and       *)
(* @cache decorators, which work by what a throw and a return do           *)
(* (src/vm.c).                                                             *)
(*                                                                         *)
(* A frame's "open" is what the compiler knows of it: how many try blocks  *)
(* its instruction pointer is in.  A record of the try stack has the index *)
(* of its frame; "fn" and "level" stand for its catch_offset, a place in   *)
(* the code of that function, in "level" outer blocks.  Uses says which of *)
(* the ways below a program may combine these:                             *)
(*   "leave"     a return or a nil propagated by ? from within a try block *)
(*   "retryTry"  a throw from within a try block of a @retry function      *)
(*   "nested"    a call from within a @cache function                      *)
(*   "throw"     a throw from within a @cache function                     *)
(*   "several"   a @cache function that returns several values, or a ?     *)
(***************************************************************************)
EXTENDS Integers, Sequences, FiniteSets

CONSTANTS Plain, Retried, Cached,  \* functions: without a decorator, @retry, @cache
          Arguments,  \* argument lists; an argument has a type and a set of bits
          Bits,
          Retries,    \* n of @retry(n)
          MaxFrames,  \* TASK_FRAMES_MAX: 64 in the code
          MaxTries,   \* TASK_TRY_MAX: 16 in the code
          Uses,
          None

Functions == {Plain, Retried, Cached}

ASSUME UnwindAssumption ==
  /\ Cardinality(Functions) = 3
  /\ Retries \in Nat
  /\ MaxFrames \in Nat \ {0}
  /\ MaxTries \in Nat \ {0}
  /\ Uses \subseteq {"leave", "retryTry", "nested", "throw", "several"}

VARIABLES frames,         \* task->frames: the activations, the outermost first
          tryStack,       \* task->try_stack
          budget,         \* the count in the metadata of the @retry function
          cacheOnReturn,  \* task->cache_on_return
          cacheKey,       \* task->cache_result_key
          cache,          \* vm->cache_map
          status,         \* what has become of the task
          hit             \* history: the last cache hit, what was asked and given

decorators == <<budget, cacheOnReturn, cacheKey, cache>>
vars == <<frames, tryStack, decorators, status, hit>>

Frame(f, args) == [fn |-> f, args |-> args, open |-> 0]

Depth == Len(frames)
Top == frames[Depth]
Tries == Len(tryStack)

Init == /\ frames = <<Frame(Plain, << >>)>>
        /\ tryStack = << >>
        /\ budget = Retries
        /\ cacheOnReturn = FALSE
        /\ cacheKey = None
        /\ cache = {}
        /\ status = "running"
        /\ hit = None

-----------------------------------------------------------------------------
(* Calls and returns. *)

\* cache_key_hash(): the types of the arguments by place, and the bits of the
\* integers among them by exclusive or.
Key(f, args) ==
  [fn |-> f,
   types |-> [i \in DOMAIN args |-> args[i].type],
   bits |-> {b \in Bits : Cardinality({i \in DOMAIN args :
                             args[i].type = "int" /\ b \in args[i].bits}) % 2 = 1}]

\* An error for which no try block is looked up: runtime_error() and return.
Fatal == status' = "dead" /\ UNCHANGED <<frames, tryStack>>

Push(f, args) == IF Depth < MaxFrames
                   THEN frames' = Append(frames, Frame(f, args)) /\ UNCHANGED <<tryStack, status>>
                   ELSE Fatal

MayCall == status = "running" /\ (Top.fn = Cached => "nested" \in Uses)

Call == \E f \in {Plain, Retried} : /\ MayCall
                                    /\ Push(f, << >>)
                                    /\ UNCHANGED <<decorators, hit>>

\* A call of a @cache function whose key has an entry, the first one counts.
CacheHit == \E args \in Arguments, e \in cache :
              /\ MayCall
              /\ e.key = Key(Cached, args)
              /\ hit' = [asked |-> args, given |-> e.of]
              /\ UNCHANGED <<frames, tryStack, decorators, status>>

\* One without: the next return stores its result.
CacheMiss == \E args \in Arguments :
               /\ MayCall
               /\ \A e \in cache : e.key # Key(Cached, args)
               /\ cacheOnReturn' = TRUE
               /\ cacheKey' = Key(Cached, args)
               /\ Push(Cached, args)
               /\ UNCHANGED <<budget, cache, hit>>

\* BC_RETURN; a return of several values, or a `?` on nil in an inner frame, does
\* not look at cache_on_return.  Nothing looks at the try stack.  (A `?` on nil in
\* the outermost frame is in module Scheduler.)
Pop == /\ frames' = SubSeq(frames, 1, Depth - 1)
       /\ status' = IF Depth = 1 THEN "done" ELSE status
       /\ UNCHANGED tryStack

MayLeave == status = "running" /\ (Top.open > 0 => "leave" \in Uses)

\* Mutant of Return: the result goes to the entry of the key whatever is armed.
ReturnUnarmed == /\ MayLeave
                 /\ Pop
                 /\ cache' = IF cacheKey # None /\ \A e \in cache : e.key # cacheKey
                               THEN cache \cup {[key |-> cacheKey, of |-> <<Top.fn, Top.args>>]}
                               ELSE cache
                 /\ cacheOnReturn' = FALSE
                 /\ UNCHANGED <<budget, cacheKey, hit>>

Return == /\ MayLeave
          /\ Pop
          /\ cache' = IF cacheOnReturn /\ \A e \in cache : e.key # cacheKey
                        THEN cache \cup {[key |-> cacheKey, of |-> <<Top.fn, Top.args>>]}
                        ELSE cache
          /\ cacheOnReturn' = FALSE
          /\ UNCHANGED <<budget, cacheKey, hit>>

ReturnOther == /\ MayLeave
               /\ Top.fn = Cached => "several" \in Uses
               /\ Pop
               /\ UNCHANGED <<decorators, hit>>

-----------------------------------------------------------------------------
(* Try blocks. *)

\* BC_TRY.
Try == /\ status = "running"
       /\ IF Tries < MaxTries
            THEN /\ tryStack' = Append(tryStack, [frame |-> Depth, fn |-> Top.fn,
                                                  level |-> Top.open])
                 /\ frames' = [frames EXCEPT ![Depth].open = @ + 1]
                 /\ UNCHANGED status
            ELSE Fatal
       /\ UNCHANGED <<decorators, hit>>

DropLast(s) == IF s = << >> THEN s ELSE SubSeq(s, 1, Len(s) - 1)

\* Mutant of EndTry: BC_POP_TRY is missing.
EndTryKeeps == /\ status = "running"
               /\ Top.open > 0
               /\ frames' = [frames EXCEPT ![Depth].open = @ - 1]
               /\ UNCHANGED <<tryStack, decorators, status, hit>>

\* BC_POP_TRY, at the end of the block.
EndTry == /\ status = "running"
          /\ Top.open > 0
          /\ frames' = [frames EXCEPT ![Depth].open = @ - 1]
          /\ tryStack' = DropLast(tryStack)
          /\ UNCHANGED <<decorators, status, hit>>

-----------------------------------------------------------------------------
(* Throws and errors. *)

\* Control goes to the catch of the last record.  If the frame at its index is no
\* longer one of its function's, it goes astray: to a frame that has been left,
\* or into the middle of the code of another function.
Unwind ==
  IF tryStack = << >>
    THEN Fatal
    ELSE LET h == tryStack[Tries] IN
         /\ tryStack' = DropLast(tryStack)
         /\ IF h.frame <= Depth /\ frames[h.frame].fn = h.fn
              THEN /\ frames' = [SubSeq(frames, 1, h.frame) EXCEPT ![h.frame].open = h.level]
                   /\ UNCHANGED status
              ELSE status' = "astray" /\ UNCHANGED frames

MayThrow == /\ status = "running"
            /\ Top.fn = Cached => "throw" \in Uses
            /\ Top.fn = Retried /\ Top.open > 0 => "retryTry" \in Uses

\* throw() in a @retry function with a budget: the function starts again.
Retry == /\ MayThrow
         /\ Top.fn = Retried
         /\ budget > 0
         /\ budget' = budget - 1
         /\ frames' = [frames EXCEPT ![Depth].open = 0]
         /\ UNCHANGED <<tryStack, cacheOnReturn, cacheKey, cache, status, hit>>

\* throw() in any other, or without a budget.
Throw == /\ MayThrow
         /\ Top.fn # Retried \/ budget = 0
         /\ Unwind
         /\ UNCHANGED <<decorators, hit>>

\* Mutant of Error: cache_on_return stays armed.
ErrorArmed == /\ status = "running"
              /\ Unwind
              /\ UNCHANGED <<decorators, hit>>

\* RAISE: an error of an instruction; a @retry function is not retried.
Error == /\ status = "running"
         /\ Unwind
         /\ cacheOnReturn' = IF tryStack = << >> THEN cacheOnReturn ELSE FALSE
         /\ UNCHANGED <<budget, cacheKey, cache, hit>>

\* runtime_error() in a native function.
NativeError == /\ status = "running"
               /\ Fatal
               /\ UNCHANGED <<decorators, hit>>

Next == \/ Call \/ CacheHit \/ CacheMiss \/ Return \/ ReturnOther
        \/ Try \/ EndTry \/ Retry \/ Throw \/ Error \/ NativeError

Spec == Init /\ [][Next]_vars

-----------------------------------------------------------------------------
(* Properties. *)

Records == [frame : 1 .. MaxFrames, fn : Functions, level : 0 .. MaxTries]

TypeOK == /\ Depth <= MaxFrames
          /\ \A i \in 1 .. Depth : /\ frames[i].fn \in Functions
                                   /\ frames[i].open \in 0 .. MaxTries
          /\ Tries <= MaxTries
          /\ \A i \in 1 .. Tries : tryStack[i] \in Records
          /\ budget \in 0 .. Retries
          /\ cacheOnReturn \in BOOLEAN
          /\ status \in {"running", "done", "dead", "astray"}

\* The records of the try stack are the try blocks that are open: each frame has
\* as many as blocks it is in, from its outermost to its innermost, and those of
\* inner frames lie above those of outer ones.
RecordsOf(i) == {r \in 1 .. Tries : tryStack[r].frame = i}
HandlersMatch ==
  /\ \A i \in 1 .. Depth : Cardinality(RecordsOf(i)) = frames[i].open
  /\ \A r \in 1 .. Tries :
       /\ tryStack[r].frame <= Depth
       /\ tryStack[r].fn = frames[tryStack[r].frame].fn
       /\ tryStack[r].level = Cardinality({q \in RecordsOf(tryStack[r].frame) : q < r})
       /\ \A q \in 1 .. r : tryStack[q].frame <= tryStack[r].frame

\* Throws, errors and returns do what module Exceptions says of them.
opens == [i \in 1 .. Depth |-> frames[i].open]
Abstract == INSTANCE Exceptions WITH stack <- opens
ThrowsPropagate == Abstract!Spec

\* A call of a @cache function that is answered from the cache gets the result of
\* that function for these arguments.
HitsAreOwn == hit # None => hit.given = <<Cached, hit.asked>>

\* The frames, the try stack and the flag of the cache agree.
UnwindInv == TypeOK /\ HandlersMatch /\ HitsAreOwn
=============================================================================

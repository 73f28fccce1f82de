# Varian in TLA+

Specifications of Varian, translated from its source: the virtual machine and
its scheduler (`src/vm.c`), the natives for tasks and HTTP (`src/lib_task.c`,
`src/lib_http.c`), the job queue written in Varian (`vn_modules/queue.vn`), and
the tool chain around them: lexer, parser, checks, compiler, formatter, language
server, release compiler and package manager. TLC checks small instances of the
modules, and TLAPS proves the theorems listed below for every value of the
constants. `PROJECT.json` has, for every definition, the lines it models, for
every property a mutant of the code that breaks it, and the hazards the
properties are for.

File names below are relative to the repository's root.

## 1. The system

Varian is a scripting language. A program is parsed, checked, compiled to
bytecode and run by one thread; a release build translates what it can prove
simple to C. Concurrency is cooperative: a task runs until it blocks, yields,
sleeps, returns or fails, and a round-robin loop visits all tasks once per pass.
Web applications run in such a VM as well: the server is a native that a task
calls again and again. A "cluster" is several threads or processes, each with a
VM of its own, that share a port and a database file.

| Component | State | Operations | How it interacts | What is hard | Correct means |
|---|---|---|---|---|---|
| Task scheduler: `vm_run`, `task_new`, `vm_register_task`, `lib_task.c` | `vm->tasks`, `vm->free_tasks`, the `Task` structs, the variables of the pass | spawn, await, yield, sleep, return, error, `?` on nil; visiting, reaping | runs everything else; an `ObjTask` is a bare pointer to a struct that is recycled | spawns in the middle of a pass, reaping while compacting, handles that outlive their task | every struct is registered or free, exactly once; a running task stays in its struct; every task gets its turn; the program ends when all have ended; an await gives the value of its task |
| Channels: `ObjChannel`, `BC_CHAN_SEND`, `BC_CHAN_RECEIVE`, `task.close`, `task.try_receive` | ring buffer, head, tail, count, closed | send, receive, try_receive, close | blocked instructions are executed again in every turn; actors' inboxes and replies are channels | wrap-around, close while others are blocked, retries | a bounded FIFO queue that drains after close; close releases all |
| Actors: `BC_DISPATCH`, `actor_scheduler_process`, `actor_spawn_native` | inboxes, reply channels, actors' fields, `had_error`, the caller's `waiting_actor_reply` | call (in several turns), processing of one message per turn | the loop of an actor is a task of the scheduler; methods run on temporary tasks | retries that must not send twice, errors, methods that give way, the end of the program | a call is a synchronous call: applied once, answered with its own result |
| Calls, exceptions, decorators: `BC_CALL`, `BC_RETURN`, `BC_TRY`, `BC_THROW`, `handle_vm_exception`, `@retry`, `@cache` | frames, try stack, `cache_on_return`, retry counts in metadata, `vm->cache_map` | call, return, return of several values, `?`, try, catch, throw, error, retry, cache hit and miss | three kinds of errors, of which one cannot be caught | a stack of handlers beside the stack of frames, one flag for whichever return comes next | a throw reaches the innermost open block; a cached result is that of its own call |
| Memory: `gc_collect`, arenas, `escape_promote` | object list, marks, roots, arenas of handlers | allocate, store, collect at the safepoint, promote, reclaim an arena with its task | every instruction stores and loads; tasks' stacks are roots | objects that only a closure, a result or a cache holds; structs that escape from an arena | nothing in use is freed; no arena's struct is reached from outside; garbage is freed |
| HTTP server: `http_serve_tick`, `poll_pending_connections`, `call_handler`, `http_finalize_deferred_response` | pool of pending connections, descriptors, io_uring operations, handlers that are tasks, shutdown flag | accept, poll, read, answer, defer, finish, time out, shut down | handlers are tasks of the scheduler, with arenas; WebSockets take descriptors over | swap-removal while iterating, descriptor numbers that are reused, pipelining, completions that come late | one owner per descriptor; requests answered once, in order, at last |
| Job queue: `queue.vn`, `zenith/jobs.vn`, `lib_sqlite.c` | table `vn_jobs` in SQLite, workers, attempts | submit, poll and claim, run, record, retry, clear, stop, crash, restart | processes meet in the table; errors of SQLite end workers | claims of several processes, retries and crashes between claim and record, stale pages | one runner per job, bounded starts, rows that agree with workers, jobs are taken |
| Lexer, parser: `lexer.c`, `parser.c`, `ast.c` | position, token, packages already included | the grammar, packages spliced into the tree | every tool below reads the tree; the formatter has a scanner of its own | a hand-written grammar with 14 levels of operators, looking ahead over `{`, `<` and `\|`; packages that use each other | the tree is grouped as the manual says; a package is in it once |
| Semantic checks, lint: `semantic.c`, `lint.c` | a stack of scopes each | declare, use, report | run before the compiler and in the editor | two walks with scopes of their own, and the compiler's as a third | a use means the innermost declaration around it |
| Bytecode compiler and interpreter: `compile_node`, `compile_expression`, `task_run` in `vm.c` | compile-time scopes, locals, captured names, jumps to patch; value stack, frames, try stack | one per kind of statement, one per opcode | the compiler counts the cells of a stack that it never sees | scopes in loops, break and continue, try in functions, closures over parameters | a program prints what its source means; locals lie in the stack |
| Formatter: `fmt.c` | flags of the writer (indent, blanks, last token) | one per kind of token | replaces the user's file | joins and splits tokens without parsing | same program, same comments, stable |
| Language server: `lsp.c` | documents, two pipes | open, change, save, close, rename | an editor with texts of its own; `semantic.c` and `lint.c` | edits and diagnostics of an older text, 32 documents | what is underlined is what is wrong with the text that is there; a rename keeps bindings |
| Release compiler: `ssa.c`, `ssa_escape.c`, `suspend_analysis.c`, `aot_native.c`, `aot.c` | blocks and values per function, types, marks, a plan | four fixpoints, then C | native functions call each other without the VM | phis of loops, mutual recursion, overflow and depth | native code gives what the source means; no function that suspends is compiled as one that does not |
| Package manager: `pkg_manager.c` | manifest, lock file, `vn_modules/` | add, remove, install, frozen, update, build | repositories whose tags move; other people's requirements | files written in place, a process killed anywhere, failures that nobody looks at, conflicts, pruning | what is taken is there, whole; the lock says so if it could be saved; only an update moves a lock |
| Everything else | see `components` in `PROJECT.json` | | | libraries, databases, web framework | not modelled; the reason is with each |

## 2. Modules

| Module | Models | Its abstract specification | Proofs | For TLC |
|---|---|---|---|---|
| `Channel` | the ring and its instructions | `FifoChannel`, a bounded queue | `ChannelProofs` | itself |
| `Scheduler` | passes, tasks, pool, handles | `Rota`, turns in the order of spawns | `SchedulerProofs` | itself |
| `Actors` | calls, inboxes, turns of actors | `SyncActor`, a synchronous call | `ActorsProofs` | `MCActors` |
| `Unwind` | frames, try stack, decorators | `Exceptions`, what throw and catch mean | `UnwindProofs` | `MCUnwind` |
| `Heap` | objects, roots, arenas, promotion | | `HeapProofs` | `MCHeap` |
| `HttpServer` | ticks, pool, handlers, kernel, clients | | `HttpServerProofs` | `MCHttpServer` |
| `JobQueue` | table, workers, processes | `DurableJobs`, the life of a job | `JobQueueProofs` | `MCJobQueue` |
| `Values` | values of the language and the operators on them | | | |
| `Compiler`, `Machine` | bytecode and its interpretation | `Meaning`, an evaluator on trees | | `MCCompiler` |
| `Lexer`, `Parser`, `Trees` | tokens, syntax trees, and the trees as programs of `Meaning` | | | |
| `Semantic`, `Lint` | what is said about a tree | `Scoping`, lexical scope on paths | | `MCLanguageServer` |
| `Formatter` | scanner and writer of `vn fmt` | `Parser` (same program) | | `MCFormatter` |
| `LspSession` | server, pipes, editor | `Diagnostics` of the editor's text | `ToolProofs` | `MCLanguageServer` |
| `LanguageServer` | what the server finds in a text, `vn run`'s check | `Scoping` | | `MCLanguageServer` |
| `Ssa`, `Kiln` | the release compiler's analyses, and native calls | `Meaning` | | `MCKiln` |
| `Packages` | the package manager, registry, repositories | | `ToolProofs` | `MCPackages` |

How they fit together. `Scheduler` is the frame of all that runs: which task may
run when. `Channel` abstracts from it, tasks interleave freely between two
channel instructions, which includes each order that the round robin gives.
`Actors` needs the order (an actor's turn, the flag `had_error`, when the program
stops), so it has the pass of `Scheduler` in it and the channels with their
content only, as `FifoChannel` promises it. `Unwind` is one task between two
turns. `Heap` has the tasks and arenas, and collections between two passes.
`HttpServer` has the server's task in detail and of the other tasks those that
own a connection. `JobQueue` uses what `Unwind` shows of errors in natives and
of returns from within a try block.

The tool chain is one chain in the models too: `Lexer` turns a string into
tokens, `Parser` into a tree (`Semantic` and `Lint` extend it, `LanguageServer`
extends `Semantic` and `LspSession`), `Trees` turns a tree
into a program of `Meaning`, and `Kiln` runs the release compiler on the tree that `Parser` made. The programs of
`MCFormatter`, `MCLanguageServer` and `MCKiln` are source text, so a fault
anywhere before an analysis shows there too. The programs of `MCCompiler` are
trees, so that what the compiler does is told apart from what the parser does.

Conventions. A variable has the name the field has in the code. A variable that
the code does not have is marked `history` in its declaration. One action is one
instruction, one message, one sweep of an analysis or one turn of a loop, with
everything it calls; what a program does is a choice among the instructions it
may execute. An instruction that retries (`ip--` and `yielded`) is a task that
stays where it is. A definition whose comment begins with "Mutant" is never
used by a specification: it is the change of the code that breaks a property.
Functions of the source that recurse over trees are operators that recurse; no
theorem is about a module that has them.

### Channel

`insn[t]` is the instruction a task is at. `Put` and `Take` are the ring;
`ChanSend`, `ChanReceive` and their closed cases the two instructions,
`TryReceive` and `CloseChannel` the natives. `task.channel(n)` with `n <= 0`
makes a buffer of one (`Capacity`). A nil is a value like any other and may be sent;
what the slots of the ring hold that were never written is another value, `None`,
which the invariant shows is never received. `sent` is history: what was put in.


### Scheduler

`phase` is what `vm_run()` does: "scan" (looking for the next task of the
pass), "turn" (a task runs), "reap" (the loop that moves dead structs to the
free list), "halted", or "crashed" (see the notes on `?` below). Handles are
numbered by the spawn that returned them, so that "the task of a handle" can be
compared with "the task in the struct the handle points to".

### Actors

A message's kind says what its method does, and `Programs` which actors and kinds
there are. An "ok" method exchanges the actor's fields with the name of its
call, so that no two orders of calls look alike. Other tasks of the scheduler
are not there, but callers yield and sleep.

### Unwind

`open` in a frame counts the try blocks the instruction pointer is in, which is
what the compiler knows; the try stack is what the VM knows. The constant `Uses`
says which ways of combining returns, try blocks and decorators programs have.

### Heap

Objects are addresses. `Uses` says which ways of keeping an object alive
programs have besides stacks, globals, channels and other objects. `Reach` is
defined by closed sets, not by recursion, so that theorems can be proved of it.

### HttpServer

`phase` is where the server's task is in a tick. Descriptors are numbers that
`accept` takes from the free ones, so a number may come back. The kernel's
operations in flight and completions are sets; bytes are requests, numbered by
client. A poll goes over the pool from the last entry to the first, and a
removal swaps the last entry into the place, as in the code. A completion that is
taken for the connection that now has its descriptor leaves bytes in a buffer that
nobody sent there (`Junk`); `RepliesInOrder` speaks of the answers before them.

### JobQueue

A poll, from `BEGIN IMMEDIATE` to `COMMIT`, is one step, for the tasks of one VM
do not give way in it and SQLite excludes other processes; a statement of a
process may fail whenever another could hold the lock (there is no busy
timeout). `Crash` and `Restart` come between any two steps.

### Compiler, Machine and Meaning

`Compiler` is `compile_expression()` and `compile_node()`: a function `c` under
construction (code, locals with their depth, captured names, pending jumps)
goes through one operator per kind of node. An instruction is a record; jumps
are indices. `Machine` steps through the code, one action per group of opcodes,
on cells of a value stack. `Meaning` is an evaluator over the same trees that
knows scopes as functions from names to cells and has no stack, no jumps and no
handlers; `Values` is shared, so only control can differ.

### Lexer, Parser, Semantic, Lint, Scoping

The lexer works on the characters of a string, the parser on the tokens, with
the source's functions as operators that take and return a state `s`. A node is
a record of its kind, its words and its kids. `Semantic` and `Lint` each walk
the tree with a stack of scopes, as the code does. `Scoping` says the same of
paths in the tree: a declaration covers a part of it, a use means the innermost
declaration that covers it.

### Formatter

`FmtScan` is the scanner in `fmt.c`; each action writes one token and updates the
flags of `fmt_format_source()`. After the last token the result may be formatted
again.

### LspSession and LanguageServer

The editor is external and has the texts; the server has its copies. Both pipes
are queues. `LspSession` is this exchange for any analysis of a text (`Diagnostics`,
`MayRename`, `Renamed` ... are constants of it); `LanguageServer` says what lsp.c
computes, and the configuration gives the constants its definitions. `didClose` is sent and falls through the chain of
methods in `lsp_main()` (`Ignore`), so a file that is opened again meets the
document that the server still has. The editor applies the edits of a rename only
if its text has not changed since it asked, as editors do with edits of a version.
`Run` is
`vn run` on the text that the editor has: it analyses and, if nothing is wrong,
resolves names as the compiler does.

### Ssa and Kiln

`Ssa` is the construction by Braun et al. as `ssa.c` has it, with sealed and
unsealed blocks, incomplete phis and trivial phis that are replaced. `Kiln` has
one phase per analysis and one action per sweep, and then calls a function from
boxed code: natively, instruction by instruction, if the plan and the types of
the arguments allow it.

### Packages

One command is a process with a queue of requirements. Each file is written in
several steps, and `Crash` may come between any two. Each step that calls for the
disk or the network may fail. Of these failures the code sees some and stops (`Fail`,
`FailedUnpacking`, `WrongDigest`, `constellation_consent`: the first leaves the disk as
it was, the others leave the package torn, unpacked or removed), and some it does
not look at: a manifest or a lock file of which less is written than should be
(`CutManifest`, `CutLock`), a lock file that cannot be opened (`lock_save`), a package
that stays when it should be removed, whole or in part (`Prune`, `Removing`). Two
variables are history: `unnoticed`, which of the last two happened in the command,
and `taken`, what an install that reported success had taken. Requirements are "any",
exact, caret, tilde or a tag of a repository; the world says which versions
there are and what each requires; `Push` moves a tag. `pending` is what the loops
over a manifest have still to pass to `queue_push_from()`, one requirement per step;
at the end of a loop the next package of the queue is fetched, or the command ends.

## 3. What the runs check

Invariants with parts (`ChannelInv`, `SchedulerInv`, ...) are conjunctions of named
parts, each a definition with its own comment.

| Run | Instance | States | Shows |
|---|---|---|---|
| `channel` | 3 tasks, a value and nil, capacity 2 | 65 000 | `ChannelInv` (types, `RingConsistent`, `LiveWindow`, `SenderReady`, `OnlySentIsReceived`, and `NilMeansDrained`: while nobody has sent a nil, a nil from a receive means closed and drained); that the ring implements `FifoChannel` (`ImplementsFifo`); with fairness, that a closed channel releases all and that two sides do not wait for each other (`Settles`) |
| `scheduler` | 3 structs, 3 spawns, sleeps of 1 | 253 000 | `SchedulerInv` (among others `PoolPartition`, `RunningInPlace`, what the loop's variables mean, and that the main script's await gives its task's value), `ElderAwaitSound` (so does the await of any task that was spawned before the one that waits); that the passes implement `Rota` (`TurnsByRota`); with fairness, `EveryoneIsServed`: turns, the end of the program, the main script's await |
| `actors` | 2 callers and 1 actor with methods that return or are missing; 2 actors with methods that fail or pause; inbox of 1 | 332 000 | `ActorsInv` (`OneMessagePerCall`, `OnlyOwnEnd`, `HaltedMeansAnswered`); calls implement `SyncActor` (`CallsAreSynchronous`) and return (`CallReturns`) |
| `unwind` | 4 frames, 3 open blocks, 2 retries, `Uses = {}` | 56 000 | `UnwindInv` (`HandlersMatch`, `HitsAreOwn`); throws implement `Exceptions` (`ThrowsPropagate`) |
| `jobqueue` | 2 processes with a worker each, 2 jobs, 3 requests, 2 attempts, 1 crash | 361 000 | `JobQueueInv` (`OneRunner`, `BoundedStarts`, `RunningIsRun`); that the queue implements `DurableJobs` (`KeepsPromise`); `JobsAreTaken` |
| `http` | 2 clients, 2 descriptors, pool of 1 or 2, with and without io_uring | 437 000 | `HttpInv` (`OneOwner`, `RepliesInOrder`, `EachPolledOnce`), `ClosedForCause`, `Answered` |
| `heap` | 3 addresses, the script and one more task, one field per object, `Uses = {}` | 255 000 | `HeapInv` (`NoDangling`, `ArenasAreOwn`), `GarbageIsFreed` |
| `compiler` | 267 programs | 48 000 | a program prints what its source means (`SourceMeaning`); locals and temporaries never share a cell (`StackDiscipline`) |
| `formatter` | 99 texts, formatted twice | 5 500 | `KeepsProgram`, `Idempotent`, `LayoutFollowsText` |
| `languageserver` | 265 programs, 2 files, room for 1 document, an editor, up to 4 messages | 58 000 | `UnderlinesAreFresh`, `NamesAreJudged`, `CleanFilesRun`, `GroupedByTable`, `EachPackageOnce`, `RenameKeepsBindings` |
| `kiln` | 296 programs | 12 000 | `PruneKeepsMeaning`, `SuspendsExactly`, `StackMeansLocal`, `NativeAgrees`, `ReturnsAsInferred` |
| `packages` | 3 packages, 50 worlds, 3 commands, 1 push, 1 crash, any failures | 2 238 000 | `PackagesInv` (`SuccessIsWhole`: what was taken is there and is what the project needs, and how far the lock and the rest of `vn_modules` agree with it), `LockPins`, `ConflictsAreReal`, `OwnRequirementsMet` |

### Bounds, and why they are enough

- `channel`: with capacity 2 the ring wraps and is empty, half full and full; a
  third task comes between a sender and a receiver. The theorems have no bound.
- `scheduler`: with three spawns the struct of the first task is recycled for the
  third while the second, or the main script, waits for the first; `MaxSleep` 1 makes
  a task miss a pass. The structs are alike, and `OrderedSpec` allocates the first of
  those that were never used: other orders are the same but for their names (a
  symmetry set would not be sound, as the run checks liveness). The theorems are
  about `Spec`, which takes any, and have no bound.
- `actors`: an inbox of one (64 in the code) makes a second call meet a full
  inbox; two actors are what an error needs to spread. Names of calls alternate,
  for nothing refers to a reply channel once its call has returned.
- `unwind`: 4 frames and 3 blocks (64 and 16) allow a throw through frames
  without blocks, blocks in several frames, and both limits to be hit. The
  theorems have no bound.
- `jobqueue`: two attempts make a retry; three requests are two jobs and a
  retry, or one job and two; `MaxTries` 2 (16) lets an idle worker die of its
  try stack in few polls; `PoolSize` 1, as workers of one process differ from
  those of two only in what they cannot do to each other. The theorems have no
  bound.
- `http`: a pool of one (1024) is full with the second client; two descriptors
  are what reuse needs; `MaxRequests` 2 (1000) ends a connection by count. A
  burst of accepts is 16 in the code, never reached by two clients.
- `heap`: three addresses with one field each make chains and cycles of three,
  and let a container that holds an arena's struct be promoted, with a copy.
- `compiler`: 8 locals, 3 captured names, 2 pending jumps, 3 nested loops,
  jumps over 90 instructions (the code counts 65535 bytes), a stack of 24, 5
  frames and 3 try blocks, which the programs reach but for those that are to
  meet a limit. Each of 21 pieces of source (together every kind of statement
  and expression the modules have) is put alone and with each other into a
  function, a method, a loop and a script, but for the three that are known to
  leave cells on the stack in a loop (section 5).
- `formatter`: 34 lines, of which each pair of tokens that the writer treats in
  a way of its own is part, at the top level, in a function and in a loop; two
  rounds, as a third would see the same flags.
- `languageserver`: 265 programs with a name at every place in and around every
  kind of scope, every pair of binary operators, and packages that use each
  other; one document that is kept (32 in the code), so that the second meets
  the limit; one new name.
- `kiln`: 8 frames of native calls; programs for every kind of statement that
  the native code has, for calls in cycles, and for values that leave a function
  in each way.
- `packages`: each of 49 pairs of requirements that the project and a dependency
  may have on one package, and an old manifest; a cycle of two packages; one
  commit that is pushed and one process that is killed, between any two steps
  of three commands, of which every step may fail: the third command meets what two
  that failed, or were passed over, left.

### Fairness

- The VM's thread runs and its loops do not stop: weak fairness of the loop's
  steps and of the turns, one by one or as a whole. A turn is finite because
  `Scheduler` and `Actors` ask of programs that they give way or end; a task that
  computes for ever stops the others in the code too.
- `channel`: weak fairness of each task's blocked instruction, as the scheduler
  gives each task its turn. A task that always finds the channel full again when
  its turn comes may starve; no property says otherwise, and the code has no
  queue of waiters (`src/vm.c:4282`).
- Clocks advance (`Tick`, `Wake`).
- `jobqueue`: strong fairness of each worker's turn, for a process that holds the
  lock disables it again and again but not for ever, and handlers end.
- `http`: weak fairness of the server's task and of the kernel's operations;
  strong fairness of the end of a deferred handler, whose turns come between
  ticks only.
- The runs of the tool chain check safety: each of their behaviours ends.

## 4. What is proved

Each proof module has lemmas about the operators of its component, one lemma per
action, and the theorems. Assumptions are those the modules state of their
constants; each module that states one is extended by the module of a passing
run. Where a theorem has a hypothesis of its own it is named here.

`ChannelProofs`, for every set of tasks and values and every requested capacity:

- `RingIsSound`: `Spec => []ChannelInv`. `ChannelInv` joins the types, `tail =
  (head + count) % Capacity`, that the `count` slots from `head` hold sent
  values, that a blocked sender has its operand, that what was received was sent
  (`OnlySentIsReceived`), and `NilMeansDrained`: if no nil was sent, a nil from a receive
  means closed and drained. The theorem has no assumption on what programs send. None of
  the parts is inductive without the others: a receive is right because the
  window holds values, and the window stays so because the tail agrees.
- `NilIsTheEnd`, `ClosedDrains`: the safety properties, from the invariant; the first
  is of the channels that no nil was sent on (section 5).
- `RingImplementsFifo`: `Spec => Fifo!Spec` under the refinement mapping that
  reads the window as a sequence. The lemmas on `Window` say that a put appends
  and a take removes the head; they carry the arithmetic modulo `Capacity`.

`SchedulerProofs`, for every number of structs and spawns:

- `SchedulerIsSound`: `Spec => []SchedulerInv`. Beside the properties it needs
  what the loop's variables mean in each phase (`LoopInv`: while reaping, the
  structs are those in `1 .. kept` and `index .. Len(tasks)`), that structs and
  handles point at each other (`StructInv`), and that the main script is first
  and that the struct of the task it waits for is registered until it has looked
  (`MainInv`).
- `PoolIsPartitioned`, `TasksStayInPlace`, `NoEarlyHalt`, `MainAwaitIsSound`:
  the properties, from the invariant.
- `ElderAwaitIsSound`: `Spec => []ElderAwaitSound`, that an await begun on a task in
  place, and spawned before the one that waits, gives that task's value. It needs
  the order of the array (as `TurnsGoByRota`): the elder is visited before in each
  pass, so when it ends the waiting one looks again in the same pass, before the
  reaping; only then may its struct go to another. The invariant says so of each phase:
  a struct that is free or recycled is not one that a younger task waits for.
- `TurnsGoByRota`: `Spec => TurnsByRota`, that every behaviour is one of `Rota`,
  which knows tasks by the number of their spawn and no array, no struct and no
  index. The mapping takes a task to be left over in a pass if it stands at a place
  that the loop's variable has not passed. Beside `SchedulerInv` this needs that the
  array stands in the order of the spawns (`InOrder`), also while the reaping loop
  has shifted a part of it: then the lowest place left is the lowest number left.
  What a program may rely on follows from `Rota` alone: a task is not given a second
  turn before every task that runs was visited, and one that is spawned in the
  middle of a pass is visited in that pass.

`UnwindProofs`, for every number of frames and try blocks, all argument lists
and retry counts. The hypothesis `Disciplined` is that of the run: `Uses = {}`
(programs leave try blocks by their end or by a throw, and `@cache` functions
are leaves that only a runtime error cuts short), and two argument lists of a
`@cache` function have different keys. Section 5 says what happens without it.

- `HandlersAreSound`: `Spec => []UnwindInv`. `HandlersMatch` counts records, and
  a count is not inductive; `IInv` says instead that the records of a frame are
  there for each of its open blocks (`Complete`), ordered by frame and by block
  (`Ordered`), each below its frame's count (`Matched`), that a key is armed only
  while the frame on top is that of the call it was made for (`Armed`), and that
  entries of the cache are of their own calls (`Entries`). That the counts follow
  is a bijection between records and block numbers.
- `ThrowsReachHandlers`: `Spec => Exceptions!Spec` with the stack of counts. The
  last record is that of the innermost open block because the order leaves no
  frame above it with a block.

`HeapProofs`, for every number of addresses and tasks, every bound on fields and
every graph of objects. The hypothesis `Plain` is that of the run, `Uses = {}`:
what a program uses is on a stack, in a global or in an object that can be
reached from there, and it gives structs of an arena away only by
`escape_promote()`. With any of the other uses both invariants are false
(section 5).

- `MemoryIsSafe`: `Spec => []HeapInv`. That nothing held is free is not inductive:
  a promotion or a store changes what can be reached from many places at once.
  `IInv` says it of all records, reachable or not (`Sound`), and that what others
  than a task hold, with all records, does not lead to its arena (`Apart`);
  further that no mark and no root of another kind is left (`Quiet`) and that an
  arena's struct has a handler that was not reaped (`Arenas`). As `Reach` is the
  least closed set, each step shows one closed set (`Rearranged`): for a
  promotion what is shared, the copies, and what `escape_promote()` walked through
  and does not copy.
- `GarbageIsCollected`: `Spec => GarbageIsFreed`, the action property: a
  collection marks just what the program holds, and no other step frees anything
  on the collector's list.

`ActorsProofs`, for every number of tasks and actors, all programs and every
capacity of the inboxes:

- `CallsAreSound`: `Spec => []ActorsInv`. `IInv` has two halves. `TurnsInv` is of
  the pass: a task is registered once, those not yet visited are alive, and a pass
  that visits no task of the program has visited actors only (`Turns`); who is at a
  call is registered (`Present`), so the program does not stop while a message is
  left, as its sender is still there. `CallsInv` is of the calls: a message is
  that of the call its task waits for (`Asked`) and is there once (`Once`), a reply
  is waited for (`Answers`), and a call without a reply has its message, unless
  its method does not exist (`Pending`). `OneMessagePerCall` counts places, and
  each part of `CallsInv` is needed to keep the count.
- `SyncImplemented`: `Spec => CallsAreSynchronous`. Only the step that runs the
  method and returns is an `Apply`; retries of the instruction stutter. It needs
  that no error is set in a program whose methods return (`Calm`).

`NoneAssumption` (the model's `None` is no call, message or reply, and no task is
an actor) is about the model's encoding of NULL only.

`HttpServerProofs`, for any connections, descriptors, sizes of the pool and limits,
with and without io_uring. The hypothesis `~WsCloses` is that of the run: handlers
that are tasks leave the closing of their sockets to the server (section 5 says what
happens otherwise).

- `ConnectionsAreSound`: `Spec => []HttpInv`. `OneOwner` counts the places that a
  descriptor is in; `IInv` says instead that the open descriptors are those of the
  pool, of handlers, of scripts and of completions of accept, which share none
  (`Partition`), that each has one entry there (`Single`) whose connection is what it
  is open on (`Known`), and that a connection has one descriptor (`Bound`). With
  io_uring it also needs that a connection has one recv in flight or completed, for
  the descriptor that it has if it is in the pool (`Operations`). That answers come
  in order follows from `Buffers`: what was answered, what is in the buffer and what
  is in a completion are, in this order, all requests that were read, until a
  completion that was for another connection; `Handling` says the same of a request
  whose handler is a task, and `Untouched` that there are none of a connection that
  comes into the pool. `EachPolledOnce` is of the swap in `pending_pool_remove()`:
  the entry that takes the place was polled already.
- `NoneClosedForAnother`: `Spec => ClosedForCause`, from the same invariant, one
  action that closes descriptors after the other.

`HttpServerAssumption` says of `None` and `Junk` that they are no connection and no
request: the model's encoding of a closed descriptor and of stray bytes.

`JobQueueProofs`, for every number of processes, workers, jobs and crashes, with
at most one process that retries jobs and pages that are up to date (the
hypothesis `OneRetries`; section 5 says what happens without it):

- `JobsAreSound`: `Spec => []JobQueueInv`. `IInv` adds that a row that is marked
  running names the run that it is of (`Marks`), that workers' runs are apart
  (`Apart`), what requests are outstanding (`Asks`, `Longer`) and that starts are
  covered by them (`Covered`). A transaction that is left open never becomes the
  table.
- `QueueImplementsLife`: `Spec => KeepsPromise`, that every behaviour is one of
  `DurableJobs`: jobs begin in order, a run ends by the worker that has it or is
  lost, a run that failed is followed by another while attempts are left, and only
  failed jobs are retried. Polls that find nothing, statements that fail, rollbacks,
  restarts and the reading half of `queue_retry()` stutter. The step that needs the
  invariant is the record at the end of a run: the attempts that the handler's
  result is decided by are those of a row read at the claim, and `Marks` says that
  they are still one less than the row's, unless the row was deleted; and the
  writing half of a retry, which finds the job failed as it was read because nobody
  else retries.
- `CompletedIsFinal`: a job that completed is never run or changed again until the
  table is cleared (`CompletedStays`), from the steps of `DurableJobs`.

`ToolProofs`, on packages, for any commands, repositories, requirements (also cyclic ones)
and versions. The invariant has two halves. `Sound` holds in every world; `Whole`
is about what is in the queue and holds if there is room for all packages. The
hypothesis `EnoughRoom` of two theorems says that no more packages exist than the
queue holds (256 in the code). Without it a requirement may be dropped (section 5),
but nothing that was recorded is wrong:

- `InstallsAreAsLocked`, `OnlyUpdatesMove`, `RefusedForAReason`, which have no
  hypothesis: what an install that reports success took is in `vn_modules`, whole, and
  nothing else unless a removal failed (`TakenIsThere`), and the lock file has just that
  unless its writing failed, when still nothing was taken at another commit than it
  says (`LockedIsThere`); the action property `LockPins`, also when a save is cut or fails;
  requirements that `ranges_compatible()` refuses are met by no version. They rest
  on `RecordsOK`, that the packages looked at so far are there and recorded in order,
  at the commit that the lock had, and that the lock agrees when the save did not fail.
- `InstallsAreWhole`: `Spec => []PackagesInv`. `SuccessIsWhole` speaks of the end of
  an install only: what it took (`taken`) is the smallest set that the project needs,
  whatever of it could be recorded. Beside `RecordsOK`, `Coverage` carries it there: what is in the
  queue or still to be put there lies within every set that contains the project's
  requirements and is closed so far, and contains what was found to be needed. At
  the end the queue is such a set, so it is the smallest (`NeededIsTaken`). That
  the queue has room for a new package is a count of names, which are there once
  (`QueueHasRoom`).
- `OwnComeFirst`: an update takes of each package that the project requires itself the
  newest version its requirement allows, whether or not the lock could be saved. The
  queue begins with the project's own requirements (`OwnFirst`), so theirs are the
  ones that stand. That finitely many versions have a newest one
  (`NewestExists`) is an induction over finite sets; the library's theorem that
  strict inclusion is well founded gives it without an operator as parameter.

`WorldsAssumption` and `CommandsAssumption` say what files, registries and command
lines there can be: a manifest or a lock file has a package once, as the commands
write it, a recorded commit exists, an index has finitely many versions, whose tags
have names.

`ToolProofs`, on a session of the language server, without any assumption on the
files, the texts, how many documents there is room for or what the analysis finds:

- `EditorIsFresh`: `SessionSpec => []UnderlinesAreFresh`, which speaks of moments when both
  pipes are empty. `SessionInv` says what the messages on their way will bring about:
  what the server will have of an open file once it read its pipe, if it keeps the
  file at all, is the editor's text (`ServerKnows`); if no text of the file is on its
  way to the server, what will be underlined once the editor read its own pipe is
  what is wrong with the editor's text (`ScreenFollows`). Closed files need nothing:
  the message that opens one again outdates what is on its way for it.
- `EditsFitTheText`: `SessionSpec => EditsAreOfTheText`. The server will have the text that
  the editor had when it asked, once it read what is before the request
  (`RenamesAreAsked`), so its answer is of that text (`EditsAreAnswers`), and there is
  one request at a time (`OnePending`). That the new text also keeps the bindings
  (`RenameKeepsBindings`) is about trees and is model-checked.

Model-checked only:

- liveness (`Settles`, `EveryoneIsServed`, `CallReturns`, `JobsAreTaken`,
  `Answered`), which like ENABLED is out of the prover's reach;
- what modules with recursive operators compute (`Compiler`, `Machine`,
  `Meaning`, `Parser`, `Formatter`, `LanguageServer`, `Ssa`, `Kiln`): an induction
  over trees cannot be stated to the provers, and no theorem is in reach of a
  RECURSIVE operator.

## 5. Where the code does not do what is said of it

The following properties are defined and no run checks them, for they are false
in the code, or hold only with the constants that the passing runs have. Change
the constants as said to see the counterexample.

| Property | Fails with | Because |
|---|---|---|
| `Scheduler!AwaitGivesResult` | 3 spawns | the handle of a task that was reaped means, after another spawn, another task (`src/vm.c:4247`). Sure of its value is an await that began while the task was in place, by the main script (`MainAwaitSound`) or by a task that was spawned after the one it waits for (`ElderAwaitSound`) |
| `Scheduler!PropagateIsReturn` | run `scheduler` | `?` on nil in the last frame leaves a task that is alive and has no frame (`src/vm.c:5413`) |
| `Actors!ErrorStaysWithItsCall` | "ok" and "fail" on two actors | `had_error` stays set after a method that failed, and the next actor of the pass replies with whatever is on its stack (`src/vm.c:3438`, `3792`) |
| `Actors!RepliesAreResults` | kinds with "pause" | a method that yields, sleeps or waits is never resumed, and its caller gets the top of its stack (`src/vm.c:3442`) |
| `Actors!EveryCallReturns` | kinds with "missing" | a message without a method is dropped, its caller waits for ever (`src/vm.c:3419`) |
| `Actors!AllAreReaped` | any | the temporary `Task` of a method is not given back |
| `Unwind!ThrowsPropagate` | `Uses` with "leave" or "retryTry" | a return out of a try block leaves its record; so does a retry |
| `Unwind!HitsAreOwn` | `Uses` with "throw", "nested" or "several", or `Arguments` of `TwoInts` or `OneString` | one flag for the next return, whichever function's (`src/vm.c:5453` does not reset it); keys are an exclusive or, and strings are not in it |
| `JobQueue!OneRunner` | `Retriers = Processes` or `StalePages = TRUE` | `queue_retry()` reads, then writes; `retry_one` has no condition |
| `JobQueue!KeepsPromise` | `Retriers = Processes` or `StalePages = TRUE` | as before: a job that runs, or has completed, is made pending |
| `JobQueue!CompletedStays` | `StalePages = TRUE` | as before |
| `JobQueue!IdleWorkersStay` | any | `queue_process_one()` returns from within its try block (`vn_modules/queue.vn:72`) and `BC_TRY` fails at the sixteenth poll |
| `HttpServer!OneOwner`, `ClosedForCause` | `WsCloses = TRUE` | `ws_close()` closes the number, which the end of the handler's task closes again |
| `HttpServer!HandlersRead`, `ClosedForCause` without its `~uring` | `Modes` with TRUE | a completion is for a number, and a recv stays in flight when the connection changes hands |
| `Heap!NoDangling` | `Uses` with "capture", "await", "cache" or "defer" | the closure a task runs (`src/vm.c:983`), `t->result` and `vm->cache_map` are no roots; an arena struct's mark is never reset |
| `Heap!ArenasAreOwn` | `Uses` with "bury" | stores in shared objects, spawns (see `docs/THE_VARIAN_BOOK.md:1374`) and tuples do not promote |

| `Channel!NilMeansDrained` without its `Nil \notin sent` | run `channel` | `ch <- nil` stores a nil (`src/vm.c:4261`), and a receive gives it from an open channel (`src/vm.c:4295`): a receiver cannot tell it from the end (`docs/CONCURRENCY.md:51` says when the end gives nil, not that nothing else does) |
| `Packages!LockedIsThere` without `"save" \notin unnoticed` | run `packages` | the result of `lock_save()` only decides what is printed (`src/pkg_manager.c:1546`), and it does not look at what `fprintf` and `fclose` say (`1089`): "dependencies successfully installed" may stand beside no lock file, an old or a cut one |
| `Packages!TakenIsThere` without `"prune" \notin unnoticed` | run `packages` | the result of `rm -rf` is not looked at (`src/pkg_manager.c:1574`): what nobody needs any more stays, also in part |

The models have the following as the code does; the programs, texts and worlds
of the runs go around them.

- Virtual machine. The retry budget of `@retry(n)` is shared by all calls of the
  function and never refilled (`Unwind!budget`, `src/vm.c:4711`); an error of a
  native cannot be caught or retried (`NativeError`); `queue.submit()` goes
  through SQLite and has no backpressure by a channel.
- Compiler. A `match` in a function can only match its first arm (`src/vm.c:1675`,
  `2345`; `docs/THE_VARIAN_BOOK.md:1735`), and `print(match ...)` at the top level
  fails. A `?` after a declared local corrupts the caller's stack (`src/vm.c:5413`;
  `docs/LANGUAGE.md:310`). A `let` of several names in a function binds wrong
  values; the locals of a `for` or a block in a module's initializer are
  overwritten. A nested `for`, or two declarations of a name in a loop, leave
  cells on the stack. `x += 1` is compiled as `x = 1` (`src/vm.c:2265`), not so by
  the release compiler (`src/ssa.c:1017`; `docs/THE_VARIAN_BOOK.md:2118`). An error
  found while a function is compiled (256 locals, 64 captured names, 64 nested loops, 65535 bytes to jump over) does not
  reach the caller; a break beyond the 64th of a loop, or outside of one, is a
  jump that is not patched. The cache of a shape's methods keeps misses. `==` is
  false of an array, a struct or a function that captures nothing even with itself
  (`src/vm.c:1158`); `Meaning` has every function as a closure, so no program compares
  functions, nor floats, of which `Values` keeps the kind only.
- Parser. A statement `{...}` needs a second brace; `comptime { )` does not
  end; errors in interpolated text are dropped; a duplicate named argument
  overwrites; a package that is used twice, once with a name, calls an
  initializer that does not exist or leaves functions out of scope; packages
  "a-b" and "a_b" are one.
- Checks. A union annotation keeps its first member only and a valid value of
  the second is reported; statement-level `comptime` is not analysed everywhere;
  functions nested in others are not known before their declaration; lint does not
  know their names at all.
- Formatter. It writes `{ return1 }` for a function on one line, `1 < < 2`,
  `x / = 2`, `it is` without its quotes; a comment behind a statement of a block
  moves; a block comment gains a space at each run; the file is overwritten in
  place (`src/fmt.c:782`; `docs/TOOLING.md:34`; `tests/formatter_test.sh:46`).
- Language server. The 33rd document is silently not kept (`src/lsp.c:60`);
  edits carry no version; columns are bytes, and behind a newline in a block comment
  they are one too high up to the next line (`src/lexer.c:234`: the column is set, then
  the newline counted), so that a rename there puts its edits in the wrong place:
  `Replaced` has the exact place, and no text has such a comment before a name; a rename leaves out interpolated
  text; a request that is not known has no answer.
- Release compiler. `continue` in a `for` skips the increment; a `while` condition
  with `&&` links its edges from the wrong block and the function is not
  translated; a catch block reads what the try block wrote; a global function
  that is reassigned is still called directly; native calls count depth one off;
  the analysis of escapes does not follow stores into parameters, elements of
  escaping literals and lambdas (`include/ssa.h:237` says otherwise; its result is
  only dumped); a native division by zero in a try block is not caught; a local
  named like a function that does not suspend makes its caller one that does not.
- Package manager. The first requirement on a package stands and later ones
  only have to be compatible (`docs/CONSTELLATION.md:188` says more);
  `--frozen` rewrites the lock when a dependency was removed and ignores
  requirements that changed (`docs/CONSTELLATION.md:124`); `vn add foo@2` with foo
  in the lock keeps the old commit; a tag that does not exist silently gives the
  newest commit; the digest is compared after the archive was unpacked and covers
  times of files (`docs/CONSTELLATION.md:91`); an old manifest is
  removed after a new one of which less was written than should be (`src/pkg_manager.c:418`),
  and `vn add` reports success with such a one (`348`); what was unpacked before a failure
  stays (`1157`, `1218`); manifest, lock and modules are
  written in place, and a lock cut in the middle of an entry makes every install
  fail until an update; a requirement
  that finds 256 packages in the queue is dropped with a message and the install
  succeeds without it (two of its theorems ask for room), and the lock file has places for
  128, which are not counted.

## 6. Not modelled, and why

`PROJECT.json` lists every component. In short: libraries are functions of data;
databases, mail and foreign code are calls that block the VM; threads of a
cluster share only the port; web framework and live pages are sequential code
within one handler. In the modelled components: TLS, parsing and routing of
requests; the limit of io_uring's submission ring; `queue_configure()` while
workers run and `cron()`; which field of an object refers to what; the scheduler
of the test runner; schemas (`src/parser.c:1024`) and the limits of the parser's
tables; lint's checks of Lumen templates and of the prelude; bit operators,
`@cache` and the boxed C code in the release compiler; python wrappers, search,
publish, a repository whose commit cannot be read (its tag is recorded in its
place, `src/pkg_manager.c:1143`), files of an older version that begin with a dot and stay
when one is replaced, files that cannot be read, lock entries that are cut other than
in their commit, the limit of 64 requirements in a manifest and the 128 places of the lock
file in the package manager.

## 7. Plan

Order of work, the most important first.

1. The test runner's scheduler, as a variant of `Scheduler` in one run with it.
2. `Dispatch`: the dispatch table, shapes and method caches against the maps
   they stand for; a cached method after a second definition.
3. `EventBus`, `Resource` (a refresh that races a mutation), `RateLimit` and
   `Migration`: two steps that others come between.

Modules that theorems are about have no RECURSIVE operator, constants with named
assumptions, one action per operation, and invariants that are conjunctions of
named parts.

## 8. Running

In this directory: `tlc -config Channel.cfg Channel`, `tlc -config MCActors.cfg MCActors` and so on (`runs` in
`PROJECT.json` pairs modules and configurations; the longest takes about four
minutes), and `tlapm ChannelProofs.tla` for each module whose name ends in
`Proofs`.

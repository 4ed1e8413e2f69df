# A TLA+ model of Lua 5.3.4

The repository holds the sources of Lua 5.3.4 (`lua-5.3.4/src`, with comments
added in Chinese), its manual (`lua-5.3.4/doc`) and build files. This directory
holds TLA+ modules translated from those sources, the TLC configurations that
check them on small instances, and proofs checked by TLAPS. Comments in the
modules name the C functions they model; `PROJECT.json` has, for every
definition, the lines of the source it stands for.

## 1. The system

Lua is a sequential program. Four things make it hard nevertheless:

* the **collector** is incremental. A few steps of it run inside almost every
  allocation, so every operation of the program is interleaved with a
  collection cycle at any point of it;
* **finalizers** (`__gc`) are Lua functions called by the collector; they
  create objects, resurrect others, collect, fail and run out of memory;
* **coroutines and errors** leave C functions half way (`longjmp`), and an
  allocation that fails runs an **emergency collection** in the middle of
  whatever operation asked for memory, before that operation is abandoned or
  goes on;
* the **compiler** makes one pass: jumps, registers and constants are decided
  before the rest of the program is known, and patched later.

### 1.1 Inventory

| component | state | operations | made right by |
|---|---|---|---|
| collector `lgc.c` | colours, `currentwhite`, `gcstate`, five gray lists, `allgc`/`finobj`/`tobefnz`, `sweepgc`, `gckind`, `gcfinnum`, debt | `luaC_step`, `luaC_fullgc`, barriers, `luaC_newobj`, `luaC_checkfinalizer`, `luaC_freeallobjects` | nothing reachable is freed; garbage is freed; weak entries vanish only with their objects; finalizers once per mark, in order |
| global and thread state `lstate.c` | `global_State`, list of `CallInfo`, stack sizes | `lua_newstate`, `lua_close`, `lua_newthread`, `luaE_extendCI`, `luaE_shrinkCI`, `luaE_setdebt` | the CallInfo list matches the calls; closing frees everything |
| calls and coroutines `ldo.c`, `lcorolib.c` | `ci`, `nny`, `nCcalls`, `status`, `errorJmp`, the stack | `luaD_call`, `luaD_pcall`, `lua_resume`, `lua_yieldk`, `luaD_reallocstack` | errors restore what they must; yields come back to the right continuation |
| closures `lfunc.c`, `OP_CLOSURE` | `openupval`, `UpVal.v`, `refcount`, `twups`, `Proto.cache` | `luaF_findupval`, `luaF_close`, `pushclosure`, `getcached`, `luaC_upvdeccount`, `lua_upvaluejoin` | closures that share a variable share it for ever; counts are exact |
| strings `lstring.c` | `strt`, `strcache` | `internshrstr`, `luaS_resize`, `luaS_remove`, `luaS_new`, `luaS_clearcache` | equal short strings have one address |
| tables `ltable.c` | array part, nodes with `next` offsets, `lastfree`, `flags` | `luaH_get*`, `luaH_newkey`, `rehash`, `luaH_next`, `luaH_getn` | every key found by its chain; a traversal meets each key once |
| memory `lmem.c` | `GCdebt` | `luaM_realloc_`, `luaM_growaux_` | a failed allocation leaves its block alone |
| tag methods `ltm.c` | `Table.flags` | `luaT_gettm`, `fasttm`, `luaT_callTM`, `luaT_callbinTM` | a cached absence is true |
| virtual machine `lvm.c` | registers, `savedpc` | `luaV_execute`, `luaV_finishOp`, `luaV_finishget/set`, `forprep` | for loops do not wrap; comparison is exact; yields in metamethods are finished |
| compiler `llex.c`, `lparser.c`, `lcode.c` | `LexState`, `FuncState`, jump lists, registers, blocks, gotos | one function per construct | each jump patched once; registers free at the end of a statement; the longest tokens |
| API `lapi.c` | the stack of the caller | `lua_*` | the barriers are called; the top stays in its limits |
| libraries `l*lib.c`, `lauxlib.c` | buffers, references, pattern state | functions called from Lua | indices stay in range; references are not handed out twice |
| streams and chunks `lzio.c`, `lundump.c`, `ldump.c` | `ZIO` | `luaZ_fill`, `luaU_dump`, `luaU_undump` | undump is the inverse of dump |
| `lua.c`, `luac.c` | the hook set by a signal | `laction`, REPL | an interrupt becomes one error |

`PROJECT.json` lists every component with what is and is not modelled, and the
hazards of the code with the properties that are about them.

### 1.2 How the parts interact

Everything that allocates calls `luaC_newobj` or `luaM_realloc_`, which may run
the collector (`luaC_condGC`, emergency). The collector reads stacks, tables,
closures, prototypes and the registry, calls finalizers through `luaD_pcall`,
and tells the string table, the string cache, the closure cache and the
upvalues what it frees. The API and the virtual machine call the barriers when
they write to an object. Threads share objects; only one runs at a time. The
lexer feeds the parser, which drives the code generator, whose code the virtual
machine runs. The libraries see all of it through the API.

## 2. The modules

Systems with a state that evolves:

| module | about | checked by |
|---|---|---|
| `LuaGC` | the incremental collector and the operations of the program on collectable objects | `MCLuaGC`, runs `gc_*`; proofs in `LuaGCSound` |
| `LuaLife` | abstract: an object marked for finalization is freed only after its finalizer | refined by `LuaGC` (proved in `LuaGCSound`) |
| `LuaGCLists` | the linked lists that own the objects, `sweepgc`, the order of finalizers, `lua_close` | `MCLuaRuntime`, run `runtime`; proofs in `LuaGCListsSound` |
| `LuaGCControl` | the C stack of `luaC_step`, `luaC_fullgc`, `runafewfinalizers`, `GCTM` and `lua_gc` | `MCLuaRuntime`, run `runtime`; proofs in `LuaGCControlSound` |
| `LuaCall` | calls, protected calls, errors, hooks, coroutines and continuations on one C stack | `MCLuaRuntime`, run `runtime`; proofs in `LuaCallSound`, `LuaCallRefines` |
| `LuaCoroutine` | abstract: coroutines as stacks of activations, some of them protected | refined by `LuaCall` (proved in `LuaCallRefines`) |
| `LuaTable` | array and hash part, rehash, traversal, length, dead keys, absent metamethods | `MCLuaRuntime`, runs `runtime`, `table_no_memory`; proofs in `LuaTableSound` |
| `LuaString` | the table of short strings and the cache of API strings | `MCLuaString`, run `string`; proofs in `LuaStringSound` |
| `LuaUpval` | open and closed upvalues, closures, moving stacks | `MCLuaUpval`, runs `upvals`, `upval_self_join`; proofs in `LuaUpvalSound` |
| `LuaVariable` | abstract: local variables as boxes shared by their references | refined by `LuaUpval` |

Algorithms, as operators with the names of the C functions:

| module | about | compared with |
|---|---|---|
| `LuaCode` | the code generator: expressions, registers, constants, jump lists | through `LuaVM` with `LuaMeaning` |
| `LuaParser` | the parser, which drives it: statements, blocks, gotos, locals, upvalues | the same |
| `LuaVM` | the instructions, calls and upvalues of a compiled program | the same |
| `LuaMeaning` | reference: what a program means by chapter 3 of the manual, and which programs are legal | |
| `LuaLex`, `LuaUtf8` | tokens with one byte of look-ahead; UTF-8 and the `utf8` library | section 3.1 of the manual and the encoding, in `AskLex` |
| `LuaNum`, `LuaMathLib` | comparison, conversion, arithmetic, numeric loops; `math`, `bit32`, `tonumber` | exact arithmetic and sets of bits, in `AskNumbers` |
| `LuaOps` | instructions with metamethods, interrupted by a yield and finished | the same operation without a yield, in `AskNumbers` |
| `LuaMatch` | `find`, `match`, `gmatch`, `gsub` | `LuaPattern`, what a pattern means by 6.4.1 of the manual, in `AskStringLib` |
| `LuaTabLib` | the table library | the manual, at every position and order function, in `AskTables` |
| `LuaPack` | `string.pack`, `packsize`, `unpack`; the length before a string is added up in `size_t`, where it may wrap, and is then refused by `lua_pushlstring` | that they invert each other, in `AskStringLib` |
| `LuaDump` | `ldump.c`, `lundump.c`, `lzio.c` | the same, in `AskChunks` |
| `LuaAux` | buffers, references, `require`, paths, files, tracebacks | the manual, in `AskStringLib`, `AskTables`, `AskChunks` |

### 2.1 LuaGC

State: an object is an address (`Table`, `Func`, `Thread`, `Str`, `Udata`);
`marked` is its colour or `"free"`; the lists are sets; `sweep` is the part of
the list being swept that `sweepgc` has not passed. References are `ref`
(metatable, user value, upvalue, stack slot), and the nodes `keys`/`vals` of
tables. One action is one operation of the program or one step of
`singlestep`; `atomic()` is broken into its loops (`apc`), since each
propagation is a choice of gray object, but the program does not run in it.
`Running` says when the program may act: not in `atomic`, and in a full
collection only as a finalizer.

The reference for correctness is `Reachable`: the least set that has the roots
and is closed under what each object keeps alive, weak tables included. The
collector never computes it; the properties compare its decisions with it:
`NoDangling`, `CondemnsOnlyGarbage`, `DropsOnlyGarbage`,
`FinalizesOnlyGarbage`, `Reclaimed`. `TriColor` and `GrayVisited` are
invariants that `lgc.h` states in prose.

`Expose` models that a Lua function's frame takes over stack slots that still
hold old values: this is why `NoDangling` speaks of all slots and why
`traversethread` clears the dead part of the stack.

The three views of the collector overlap on purpose, each abstracting what the
others have in detail. `LuaGC` has the heap but sets for lists; `LuaGCLists`
has the lists but takes any set for what is reachable; `LuaGCControl` has
neither but the C functions that call each other. `LuaGC` sweeps `tobefnz` in
one step, which is right while it has at most `GCSWEEPMAX` objects.

### 2.2 LuaGCLists and LuaGCControl

In `LuaGCLists` a C pointer to a link is a list head or an object (its field
`next`), and `link[p]` is `*p`; `sweepgc` is such a pointer. Loops are steps
(`pc`): `luaC_checkfinalizer` looking for the object, `sweeplist`,
`sweeptolive`, `separatetobefnz`. `younger` is a history of the order of marks,
and `overtaken` records that a finalizer was called for the object that
`sweepgc` points into (`Overtakes`), after which the code does not keep what a
comment says (3.3).
What a walk from a pointer meets (`Reach`, `Members`) is defined as the least
set closed under the links, without recursion, so that it can be proved about.

The state of `LuaGCControl` is the C stack: a finalizer may call
`collectgarbage` in any mode, allocate (an automatic step, or an emergency
collection) and fail; errors unwind to the Lua code that catches them
(`Catcher`) and leave the fields as they are. Three histories say what a
property depends on: `stopped`, what the program last asked for; `disturbed`,
whether a finalizer has failed or touched the switch of the collector since the
main program did; `exhausted`, whether memory has run out since the main program
last began a full collection.

### 2.3 LuaCall and LuaCoroutine

`cs` is the C stack, an entry for each C function that matters for errors and
yields: `luaV_execute`, a C function, `luaD_hook`, `luaD_pcall`, `lua_resume`,
`unroll`, the handler of an error, `luaD_throw`. `th` has what `lua_State` has:
the chain of CallInfo, `nny`, `nCcalls`, `errfunc`, `allowhook`, `status`, and
`big`, whether the part of the stack for errors is open. A `longjmp` cuts `cs`
at the entry of the last `luaD_rawrunprotected` of the thread. A step is what
runs at the top of the C stack until it enters or leaves a function; functions
call each other, protected or not, with or without continuation, resume, yield
and fail in any order. `ImplementsCoroutines` maps this to `LuaCoroutine`,
which has no C stack: each coroutine is a stack of activations (`acts`), of
which some make a protected call; it waits for the one that it has resumed
(`waits`); an error goes to the innermost protected call of its coroutine and
ends the coroutine (`dead`) when there is none. A protected call is seen in the
frame marked `CIST_YPCALL` or in the entry of `luaD_pcall` on the C stack, and
who resumed whom in the entries of `lua_resume`.

### 2.4 LuaTable

A node has key, value and the relative offset to the next of its chain. The
functions of `ltable.c` are operators on a table, written as the code has them;
a walk along a chain (`Walk`) and the searches of the length are iterated
functions, without recursion, so that they can be proved about. Hashes are given
by the configuration so that keys collide. The loops of `luaH_resize` are steps
(`phase`): before the nodes are allocated, where the collector may run and the
allocation may fail, and one step for each entry that is inserted again. The
program assigns, traverses (also while it clears fields), preallocates and looks
up metamethods; the collector makes keys without value dead, and new objects
take addresses of freed ones. `map` is the history of the assignments, the map
that the table is to be. An insertion of `luaH_resize` is enabled only if it
needs no second rehash; that one never does (`RoomForAll`) is proved (4.7), and
in the run it would be a deadlock.

`NodesFail` is a failed allocation of nodes, after the array has grown. It needs
nodes to be asked for (`nhsize > 0`): for an empty hash part `setnodevector`
takes `dummynode`. `Strands` names those failures that leave an entry where it is
no longer found (3.2). `MemoryNext` is the program without them; the run
`table_no_memory` has them.

### 2.5 LuaString

A chain is a set, and hashes are given by the configuration. `Search`, `Grow`
and `Create` are separated where memory is allocated, so that an emergency
collection or an error may come between; `list` is the address computed before
the allocation.

### 2.6 LuaUpval and LuaVariable

A stack is a block of memory with an address; `v[u]` is an address in a block
or `Own`. `Reallocate` moves the block. `pushclosure` is one step per upvalue,
split at the allocation in `luaF_findupval`. The collector is reduced to what
closures see of it: anything not in use may be condemned, `Proto.cache` is
cleared when the prototype is marked, and the sweep frees in any order.
`Variables` maps references (active locals, upvalues of live closures) to the
variables of `LuaVariable`: two references share a variable when they have the
same address. `ImplementsVariables` is the refinement, and `BehavesAsVariables`
states it of the scenes that `MCLuaUpval` checks.

### 2.7 The compiler

A program is a tree of statements and expressions; the parser of the model
reads it in the order in which `lparser.c` reads tokens, and calls the
operators of `LuaCode` as the code does. A compilation is one record that
every operator transforms: the open functions with their code, registers,
blocks and jump lists, the expression descriptor, the pending gotos and
labels, and the assertions of the code that failed. `LuaVM` runs the result:
every instruction, frames on one stack with junk in what was never set, open
upvalues. External functions take their results from a *feed* and leave their
arguments in a log, which, with how the program ended, is its behaviour.
`LuaMeaning` gives the behaviour that the manual promises, from the tree, with
cells for variables and no registers, jumps or upvalues.

A step of `MCLuaCompile` chooses one program from a family; the properties
compile it, run it with every feed and compare (`CompiledRight`), ask whether
it had to be rejected (`LegalCompiles`) and whether the code holds together
(`CodeHolds`).

### 2.8 The library

The functions here have no state between two calls, so the model is an operator
for each function and a *question* for each input. A step of `MCLuaLibrary`
asks one question (`AskFind`, `AskSort`, ... in the `Ask` modules, by topic);
the properties are about the step: what the code answers is what the manual
says. The references are written without the code's means: a pattern matches
if one of all ways to match it does, a number is its exact value, a string of
bits is a set, tokens are the longest pieces of the text.

Where a function is about memory or calls, that is part of the answer: a buffer
has its box on the stack of the caller, which must be the same afterwards;
`require` is asked with modules that require each other and loaders that fail;
a chunk is read from a reader that delivers any pieces; a metamethod yields in
the middle of a concatenation.

## 3. The runs

Bounds are the sets and numbers in the `.cfg` files and the instances of
`MCLuaRuntime`, `MCLuaUpval` and the `Ask` modules. All runs explore all states
of their instance.

| run | instance | shows |
|---|---|---|
| `gc_objects` | four scenes with a table, a closure, a string, 2 threads, 2 stack slots | both barriers at every point of a cycle; stacks without a barrier and stale slots; strings interned while dead; every operation of the program on one table |
| `gc_weak` | a weak table of each mode with a string and a closure, or with a userdata that finalizers resurrect | weak entries, the second passes of `clearvalues` and `clearkeys` |
| `gc_finalizers` | table, userdata | finalizers in every phase, full and emergency collections; refinement of `LuaLife`; garbage freed, cycles end |
| `runtime`: control | 2 objects, 6 C frames, `gcfinnum` up to 7 | nested collections, steps, finalizers and errors |
| `runtime`: lists | 1 string, 2 userdata, `GCSWEEPMAX` 1, so that a sweep stops inside every list; with `lua_close` at any point | lists well formed, sweep complete, order of finalizers; sweeps end |
| `runtime`: calls | 2 threads, C stack of 7, `LUAI_MAXCCALLS` 4 with 2 more for errors, 2 frames with 2 more for errors | counters, handlers, hooks and limits after any errors and yields; refinement of `LuaCoroutine` |
| `runtime`: tables | the integers 1 and 3 and the float 2.0, which is the integer 2, two objects that collide, 1 element preallocated: the array has up to 4 elements and there are up to 4 nodes | the map, length and absent metamethods |
| `runtime`: traversals | the same keys, without preallocation, failures of the array and look-up of metamethods | traversals, the map |
| `string` | 4 strings, chains 8 to 15, without the cache; 2 strings with a 2x2 cache | interning with growth, shrinking, collisions; the cache |
| `upvals` | 2 closures with 2 upvalues over 2 locals; 2 threads with a local each, or 2 locals, with 1 upvalue | counts, lists, cache, with memory errors; refinement of `LuaVariable` |
| `compiler` | some 6,500 programs in six families, three feeds | conditions and values of every place; jumps, labels and closures in every kind of block; multiple values; assignments that conflict; loops and upvalues; limits of registers |
| `library` | some 630,000 questions in fifteen topics | see 2.8 |

Why the bounds are enough to be interesting: each hazard in `PROJECT.json`
needs one or two objects of a kind, a full cycle, and one cycle before it (for
old colours and re-used addresses); the runs let an address be freed and used
again any number of times and have no bound on the number of cycles. Integers
have 4 or 5 bits and floats a mantissa of 3, so that every limit is met with
every other value; texts, patterns and formats are as long as the construct
with the most parts that meet in it. A mutant of the code for every property
shows that the instance is large enough for that property to fail.

`runtime` is four systems that keep to themselves, one of them chosen in the
initial state (`part`); the others stay as they are. Tables have two parts: what
is left out of `"traversals"` ends a traversal or does not touch the table, and
is in `"tables"`. Most runs are made of
*scenes*: in one scene the program uses some kinds of objects and some of its
operations, and TLC explores all of that. All operations together on enough
objects have too many states; scene `"whole"` of `gc_objects` has all of them
on one table. The collector is never cut.

Deadlock is checked in the runs of the collector, of strings, upvalues and of
`runtime`. The steps of `compiler` and `library` are one program and one
question long, and the violated runs stop at their counterexample.

### 3.1 Fairness

`LuaGC` and `LuaGCLists` assume weak fairness of the collector as a whole:
`luaC_step` is called again and again by a program that allocates, and
`luaC_fullgc` runs by itself; a loop inside a C function that has begun goes
on. Nothing is assumed about the program; it never has to do anything. `SweepEnds`
speaks of every behaviour of `LuaGCLists`, with emergency collections and
`lua_close`: a sweep that has begun ends unless the state is closed before.
`Reclaimed` and `CycleEnds` hold for behaviours in which finalizers do not
start full collections for ever (`FinalizersCalm`): a finalizer that starts one
each time it is called never ends. Safety properties need no fairness.

### 3.2 What the violated runs show

| run | the code | the text |
|---|---|---|
| `gc_allweak_meta` | an all-weak table is put aside gray in the propagation; when its metatable is replaced, the new one is never marked | `lgc.h:20-24` |
| `upval_self_join` | `lua_upvaluejoin` of an upvalue with itself frees it first | manual, `lua_upvaluejoin` |
| `compile_then_label` | `if f() then goto l; ::l:: g() end` never calls `g`: the goto becomes the conditional jump of the `if`, and the label behind it is compiled before the jump over the rest of the part | manual, 3.3.4 |
| `table_no_memory` | when the allocation of the nodes fails, the array part has grown already, and an integer key that is still in a node is no longer found: `t[o] = nil; t[1] = v; t[o] = nil`, where the second `nil` for `o` makes a rehash to an array of 1, which 1 is to move to, and one node, for which there is no memory | manual, 2.1 |

The constants `ResetAllWeakMeta` and `SelfJoin`, the families of `compiler` and
`MemoryNext` of `LuaTable` keep these cases out of the passing runs, so that
those say what holds otherwise.

Some properties are restricted because the code does not keep them in general.
`SweptWhite`, a part of `ListsSound`, looks at the colours left by a sweep unless
a finalizer has overtaken it in `tobefnz` (`overtaken`, 3.3). `CollectCompletes`
speaks of full collections in which memory does not run out (`exhausted`): an
emergency collection in a finalizer ends the cycle of the full collection below
it without calling finalizers, and `luaC_fullgc` returns with some still due.
`StopKept` and `FinalizerQuiet`, parts of `ControlSound`, speak of states in
which no finalizer has interfered (`disturbed`), because of two cases in which
the code differs from the manual (`collectgarbage`, "The collector will run only
when explicitly invoked, until a call to restart it"): `GCTM` restores
`gcrunning` after a finalizer that
stopped the collector, and an error in a finalizer leaves `LUA_GCSTEP` before
it stops the collector again. `InMarkOrder` holds in
every cycle and while the state is closed, but leaves out the pairs of which an
atomic phase has taken the object marked first and not the other (`late`, "among
those collected in that cycle"): when the state is closed,
`separatetobefnz(g, 1)` appends to what an earlier cycle left in `tobefnz`, so
that those finalizers come first, although the manual says of `lua_close` that
all follow the reverse order of the marks. `NoDangling` speaks of the entries of a table that can be read:
`clearkeys` and `clearvalues` do not look at empty entries, so an empty entry
of an all-weak table may keep the address of a freed key.

### 3.3 Known limits of the code

Cases that the runs leave out because the code does something else there, or
because C leaves it undefined:

* With more objects in `tobefnz` than `GCSWEEPMAX`, `sweepgc` may stop at an
  object of `tobefnz`; a finalizer called between two steps (`udata2finalize`)
  moves that object to `allgc`, and the rest of `tobefnz` is not swept but stays
  black until the end of the cycle, against the comment above `keepinvariant`
  ("The invariant is restored when sweep ends and all objects are white
  again"). This is `Overtakes`; without the conjunct `~overtaken` TLC finds
  `SweptWhite` violated, and `SweptWhiteAlways` proves that nothing else does it.
* A numeric `for` whose step is zero runs while `limit <= i` (`lvm.c`,
  `OP_FORLOOP`), where the manual's loop (3.3.5) runs while `i <= limit`.
  `AskLoop` leaves out the step zero, a limit that is NaN, and float limits that
  the loop's float cannot represent.
* `string.unpack` with `z` reads up to the zero behind a C string, so a last `z`
  needs no zero in the data (`AskCut`).
* After a token of look-ahead, `lastline` is the line of that token.
* In `bit32`, the negation of the smallest integer in `b_shift`, and the sum
  `f + w` in `fieldargs`, overflow (`Counts`, `AskBits`).
* A module that requires itself before it has a value is loaded until the C
  stack overflows (`RequireRight`).
* A file that begins with a part of a byte-order mark and then `#`: the `#` is
  taken for a first comment (`odd` in `FileRight`).

## 4. The proofs

### 4.1 The collector

For any sets of objects and nodes and any number of fields and slots, from the
assumption `KindsAssumption` (the kinds of objects are disjoint, the main thread
is a thread, nil and the other constants are not objects).

`LuaGCSound` proves `TypeCorrect`: `Spec => []TypeOK`. `TypeOK` is inductive as
it stands; there is one lemma for each action. It also proves `OwnedAlways` (`Spec => []Owned`) and
`ImplementsLifeAlways` (`Spec => ImplementsLife`: every step of the collector
and of the program is a step of `LuaLife` or changes no life). `Owned` is not
inductive: that the sweep frees only from `allgc`, and so never an object whose
finalizer is still due, depends on the atomic phase. The inductive invariant is
`LInv`, which adds to `TypeOK` and `Owned`

* `Phases`: `apc` and `gcstate` agree, and `entersweep` starts at the head;
* `GrayAllocated`: what the gray lists hold while marking is allocated, or a
  traversal would give a colour, and with it life, to a free address;
* `MainMarked`: the main thread, which is in no list, is marked when the white
  is flipped;
* `FinalizableMarked`: from `separatetobefnz` to the flip nothing in `finobj` or
  `tobefnz` is white;
* `DeadSwept`: only objects of `allgc` ahead of `sweepgc` are dead. The flip
  establishes it from the two before; `luaC_checkfinalizer` keeps it because it
  whitens an object that it takes out of the list being swept.

The lemmas `Recolouring`, `QuietStep` and `MarkStep` say once what every
marking step leaves alone; each action then has a lemma with a step for each
conjunct that it can disturb. TLC has checked `LInv` in all the scenes of the
`gc_*` runs.

`LuaGCSound` proves `NoDanglingAlways` and
`TriColorAlways`: for every heap, nothing that is alive refers to what was
freed or is about to be. It assumes `~ResetAllWeakMeta`: the finding of
`gc_allweak_meta` breaks both. The inductive invariant `SInv` is `LInv` with
`HeapInv`, what holds of the heap in every phase, and `MarkInv`, what the
collector knows in each:

* `NoDangling`; `Blank`: a free address holds no reference, so a new object has
  none; `Kinds`: threads are never black and strings never gray; `Chain`: the
  coroutines that resumed one another are on each other's stacks, down to the
  main thread, which is why marking the main thread and the running one in
  `atomic` marks those between them;
* `TriColor`: a black object refers to nothing white. The barriers keep it: the
  forward one by marking, the back one by making the table gray, and threads by
  never being black;
* `GrayPlaced`: a gray object will be traversed again (`Pending`: it is in
  `gray`, `grayagain` or the copy that `atomic` took), or it is `Done`: what it
  refers to is marked, except the entries of a weak table that is in one of the
  lists that `clearvalues`, `clearkeys` and `convergeephemerons` look at. While
  the program runs the only `Done` objects are in `allweak`, which is where
  `ResetAllWeakMeta` comes in;
* `Settled`: when a round over the ephemeron tables has marked nothing, no table
  that it put back has a marked key with an unmarked value;
* `Cleaned`: the tables cleared by the first `clearvalues` have marked values
  only, so that the second may skip them (`origweak`, `origall`);
* `RootsMarked`: the roots without a barrier are marked from the atomic phase
  on, and what awaits its finalizer while marking;
* `SweptPale`: outside of the marking, what the sweep has passed is white, so
  that the next cycle starts with no black object.

At the flip these say that what is alive and not white refers to nothing white,
so that everything a root reaches stays alive (`AtomicFinishSafe`); the sweep
then touches only the dead (`SweepBatchSafe`).

`LuaGCSound` also proves the other half, that the collector takes for garbage only
what is: `CondemnsOnlyGarbageAlways`, `DropsOnlyGarbageAlways`,
`FinalizesOnlyGarbageAlways` and `GrayVisitedAlways`, against the reachability
`ReachableFrom`, defined without colours. The argument (`MarkedClosed`,
`FlipClosed`): once the ephemeron tables have converged, the set of the marked
objects and the strings is closed under `Keeps`, so it has all that can be
reached. `WeakLists` is added to the invariant: a table is in `weak` or
`ephemeron` because of its mode, which cannot change before the flip.

### 4.2 The control of the collector

`LuaGCControlSound` proves, for any number of objects and any depth of calls,
from `ControlAssumption` (the bounds are natural numbers):

* `ControlTyped` and `EmergencyQuietAlways`, for every program. The inductive
  invariant `CInv` adds that each function that has begun has room on the stack for those
  that it calls (`Fits`), and that an object with a finalizer is in one of two
  lists;
* `FinNumPositiveAlways`: finalizers that are due are called by the next
  `runafewfinalizers`. This needs a condition that the run did not show:
  `gcfinnum` is doubled, and wraps around to 0 when one call of
  `runafewfinalizers` has come to half of `UINT_MAX` finalizers (`FewCalls`). It
  is not a matter of how many objects there are at a time: finalizers that mark
  objects and run nested collections can feed one call for ever. With `UIntMax`
  at 3 TLC finds the wrap; with the real one it takes 2^31 finalizers in one
  call;
* `CollectionsComplete`: unless memory runs out, the collector comes to
  `GCSpause` only with nothing due, and nothing becomes due before the next atomic
  step. When the main program begins a full collection after an emergency, something
  may still be due, but then no Lua code runs before the atomic step
  (`BeforeAtomic` in `CalmInv`);
* `StopKeptAlways` and `FinalizerQuietAlways`. Both are
  about what the frames have saved, `GCTM` in `running` and `lua_gc` in
  `oldrunning`, and not about `gcrunning` as it is: `Kept` says that the first
  saved value is what the main program has chosen, and that whatever is saved
  next above a `GCTM` is 0. It is stated of any stack, with a lemma for a push,
  for a push that saves, and for a pop (`KeptPush`, `KeptSave`, `KeptPop`); every
  action is a few of these. It is lost when a finalizer interferes, and true
  again when the main program uses the switch, with no frame left;
* `ControlSoundAlways`: all but `CollectionsComplete` together, with `FewCalls`.

### 4.3 The lists of objects

`LuaGCListsSound` proves, for any finite set of objects and any `GCSWEEPMAX`
above 0, from `ListsAssumption`: `ListsTypes`, `LinkedAlways`,
`DeadAheadAlways`, `SweptWhiteAlways` and `InMarkOrderAlways` of every behaviour
of `ListsSpec`, and `ListsSoundAlways` for the first four together.

The C code is right when pointers are changed in the right order, so the proof
needs to know what a walk along the links meets before and after two or three
of them are changed. `Reach` is a least closed set; `ReachInduct`, `ReachUnfold`
and `ReachPred` are its induction, its first step and its last. That two lists
are disjoint and have no cycles need not be assumed: it follows when no two
pointers are equal (`Injective`) and each object is met from a head, because
each object then has one predecessor (`ReachTotal`, `NoCycle`, `Disjoint`).
`UnlinkedMeets`, `InsertedMeets` and `MovedMeets` say what is met after
`*p = o->next`, after `o->next = *q; *q = o`, and after both; each action of the
program and of the loops is one of these or changes no link. `LastMet` is what
`findlast` finds.

The inductive invariant `ListsInv` adds to the four properties

* `Shape`: injective links, the allocated objects are those met from the heads;
* `Placed`: `FINALIZEDBIT` is set in `finobj` and `tobefnz` only;
* `Phases`: which loop runs in which phase, and that `sweepgc` is not `NULL`
  where a loop reads through it;
* `SweepAt`: `sweepgc` is a head or a field of an object that is still there, and
  is in `allgc` as long as `allgc` is swept;
* `Checked`: the object of `luaC_checkfinalizer` is alive, in `allgc`, already
  swept if the sweep is on, and when it is unlinked `sweepgc` does not point to
  its field `next`: this is what `sweeptolive` is for, and without it
  `DeadAhead` is lost;
* `Separating`: `p` is in `finobj`, `lastnext` at the end of `tobefnz`, and what
  an atomic phase has passed is marked;
* `Marked`: while `separatetobefnz` moves objects one by one, of two that were
  marked one after the other both have moved, none has, or only the later one.

`SweptInv` says what the sweep has passed, in `separatetobefnz` too:
`luaC_freeallobjects` calls it in the middle of a sweep and may move objects that
are not swept yet behind `sweepgc`, which is why `SweptWhite` does not look while it
runs (TLC found this with `GCSWEEPMAX` 1). TLC has checked both
invariants with 1 string and 2 userdata.

### 4.4 Strings

`LuaStringSound` proves `TableSoundAlways` and `HeldLiveAlways`, for any finite
set of addresses, any contents, hash function, sizes and cache, from
`StringAssumption`. `TableSound` says that no two short strings have the same
contents, that each is in its chain and that the pointer kept over an
allocation is good; `HeldLive` that nothing which is held or cached is freed.
Neither implies itself: `Create` makes no second string because `Search` has
found none *and* only collections have come between (`Found`), and the cache may
be filled with `memerrmsg` because that string is fixed and keeps its contents
(`FixedKept`). `SInv` is all four with `TypeOK`; each action has a lemma, with a
step for each conjunct. `LinkedShort` and `PlacedRight` are what `luaS_resize`
needs: the chains up to the old size hold all short strings, and the new vector
has each where it is looked for.

### 4.5 Upvalues

`LuaUpvalSound` proves `UpvalsSoundAlways`, `CacheLiveAlways` and the refinement
`UpvalsImplementVariables`, for any threads, any finite set of closures, any
number of locals and of upvalues in a closure, from `UpvalAssumption` and
`~SelfJoin` (the finding of `upval_self_join` breaks the counts). `UpvalsSound` (counts, lists, the place of
a new upvalue) is not inductive. `UInv` adds

* `Stacks`: threads that exist have a block each, and no two the same one. An
  upvalue is in one list only because of this (`OneList`), and
  `luaD_reallocstack` may therefore move the upvalues of one list and no others;
* `Busy`: what `pushclosure` works with is alive, and while it allocates an
  upvalue no other points to that local, so that the list stays strictly
  ordered (`LinkSound`) and the count of the new one is one;
* `CacheKept`: once the prototype is marked, its cache is; so the atomic phase,
  which condemns only what is not marked, spares it.

Counts are cardinalities of the set of slots that hold an upvalue (`Users`):
`SetUpCounts` and `FreeCounts` say how it grows by one and shrinks by the slots of a
closure, `ClosingCounts` that `luaF_close` frees exactly those without users.
`PositionOnly` says that the walk of `luaF_findupval` ends at one place, from
which `PlaceStays` follows for every step that leaves the list alone.

The refinement rests on what `UInv` says of places (`Places`): two active locals
never have one address, two slots have one exactly when they hold one upvalue
(`OpenApart`), and a slot has that of a local exactly when its upvalue is open
and points there. It needs `PlaceAssumption`, that an upvalue is not itself the
address of a local, and one more invariant, `Blank`: a closure that is not
allocated has no upvalues, so that making one adds no reference. Five lemmas say
when a step is one of `LuaVariable` or none (`NewStep`, `AssignStep`,
`ShareStep`, `ForgetStep`, `StutterStep`), and each action has its lemma.
Capturing a local that no closure has captured (`LinkShares`), one that is
captured (`FillFoundShares`) and one of the enclosing function
(`FillEnclosingShares`) are one kind of step to a program, and so is
`lua_upvaluejoin`. `CloseKeeps` is the hard lemma: after `luaF_close` the
addresses of the closed upvalues are gone, and no reference that is left can tell.
`ReallocateUnseen` says the same of a stack that moves, with all its open
upvalues and those of no other thread.

### 4.6 Calls, errors and coroutines

`LuaCallSound` proves `NestingIsCounted`, `YieldsContinue` and
`ErrorStateRestored`, for any threads and handlers and any limits of the two
stacks, from `CallAssumption` (the main thread is one, the limits are positive
and those for errors are larger). `MaxDepth`, which only stops TLC, is not
assumed to be anything.

None of the three is inductive: each says what holds of the C stack as it is,
while an error or a yield cuts it at any depth, and the code then relies on what
it had copied there long before. The invariant `CInv` therefore says of every
entry what would hold if the stack were cut at it. It is stated of values `T` of
`th` and `C` of `cs`, so that a step that does several things is proved as a
chain of smaller ones, each with a lemma (`Pushed`, `Popped`, `Tweaked`,
`Marked`, `Cleared`, `CaughtAt`, `Recovers`, ...). Its parts are

* `Shape`: which C function may be on top of which; the entries of a coroutine
  are together, and below them, once, is the `lua_resume` that runs it;
* `Frames`: how many `CallInfo` an entry and those below it own, so that what an
  error leaves of `cs` fits what it leaves of the chain; an entry of
  `luaV_execute` runs the Lua frames from its own, which is `CIST_FRESH`, to the
  next entry;
* `CountsRight`: `nCcalls` and `nny`, and every copy that a `luaD_pcall` or
  `lua_resume` has of them, count the entries below. `recover` sets `nny` to zero
  because below `lua_resume` nothing of the coroutine is counted;
* `YieldsOf`: a frame that cannot be continued belongs to a C function that is
  on the C stack and cannot be yielded across now; a frame marked
  `CIST_YPCALL` and all those below it can be continued, which is what `recover`
  relies on when it gives up the C stack above `lua_resume`;
* `HandlersOf`: `errfunc`, and what `luaD_pcall` and `lua_pcallk` have saved of it,
  is the handler of the protected call next below that point, whether it is on
  the C stack (`luaD_pcall`) or in the chain (`lua_pcallk`);
* `HooksOf`: the same of `allowhook`;
* `BoundOf`: a stack that is not open for errors has at most `LUAI_MAXSTACK`, and
  what an error returns to always does, so that `luaD_shrinkstack` may close it;
* `StatusOf`: what a coroutine that has yielded, has ended or has not started
  may look like; `lua_resume` depends on it;
* `TopRight`: what holds of the frame that runs, and of no other.

`LuaCallRefines` proves `CallsImplementCoroutines`
(`Spec => ImplementsCoroutines`) from the same invariant: each step is a step of
`LuaCoroutine` or one that does not show. `Seen`, `Resumers` and `Ended` are the
abstract state as a function of `T` and `C`. A step of the running coroutine
changes the C stack from some entry up and the frames from some level up
(`Inside`), and leaves what is seen below both (`InsideLeaves`), so that it adds
an activation (`InsideCall`), takes one away (`InsideReturn`), changes nothing
that shows (`InsideSame`), or is an error that is caught (`InsideCaught`);
leaving a coroutine (`LeftSeen`) and resuming one (`RestartSeen`) are the other
two kinds. The hard step is `luaD_throw`: the entry at which the `longjmp`
arrives must be the innermost protected call that a program knows of. When it is
`luaD_pcall`, `HandlersOf` says that no frame above its own is marked
(`PcallCatches`); when it is `lua_resume`, `Shape` says that no `luaD_pcall` of
the coroutine is left, and `findpcall` finds the last marked frame
(`RecoverCatches`) or there is none and the coroutine ends (`DeathLeaves`).
`PcallOnce` says that an activation makes one protected call at a time.

### 4.7 Tables

`LuaTableSound` proves, for any keys, hash function, sizes and limits, from
`TableAssumption` (integer keys and hashes are natural numbers, the names of
metamethods are objects, `Nil` is no value, what the program preallocates is no
more than an array may have), of every behaviour of `MemorySpec`:
`TableTypesAlways`, `HoldsMapAlways`, `ListedHasValueAlways`,
`AbsentEventsAlways`, `LengthIsBorderAlways`, `TraversalMeetsAllAlways` and
`RoomForAllAlways`. `MemorySpec` lets the allocation of the nodes fail wherever
that strands no entry; the finding of `table_no_memory` breaks `HoldsMap` and
`ListedHasValue` without that condition.

The functions of `ltable.c` walk along relative offsets, which the code changes
two or three at a time. `Chained` says of any successor function what a walk
needs: no two nodes have one successor, and no walk comes back (`Reach`, a least
closed set, with `ReachInduct`, `ReachUnfold` and `ReachOrder`). `Iterates` gives
the iterated functions of the model their values by induction over numbers, from
a smallest counterexample; `StepsMeetAll` says that as many steps as there are
nodes meet everything that can be reached, so that `Slot` finds a key if and only
if some node has it (`SlotIs`). A table is `Shaped` when every key hangs on the
chain from its main position (`Hung`): chains of different positions may have
run into each other, free nodes are on none, no live key is there twice, a used
main position has a key that belongs there (`Anchored`), and of two keys with one
address the dead one comes later (`DeadAfter`). There is one lemma for
each thing that happens to nodes: a key put in its main position (`HungOver`),
behind it (`HungAfter`), a colliding node moved out of the way, from the middle
of whatever chain it is in (`HungMoved`), a key killed (`HungKill`), new nodes
(`HungFresh`). `SetIs` puts them together: after `luaH_set` the table holds what
it held and the new entry, if there was room.

The inductive invariant `Full` is

* `TabInv`: `Shaped`, with integer keys that the array has a place for in no node
  that has a value (`Unstranded`), except before the nodes of a rehash are
  allocated;
* `ResizeInv` and `Content`: while `luaH_resize` runs, the map is what is in the
  table and what is `Left` in the vectors that it still inserts from, each entry
  once;
* `FlagsInv`: an event is cached as absent only while the map has nothing for it;
* `TravInv`: what a traversal has met is all that has a value up to the index of
  its key, and that key has a node, perhaps dead, so that `findindex` finds it
  although its object was freed;
* `FreedInv`: the map has nothing for a freed address, and no entry that waits for
  the end of a rehash is at one.

`LengthIs` follows the binary search, the doubling of `unbound_search` up to its
limit, and the linear search after it, which ends because a table cannot have a
value for more integers than it has places (`SomeIntFree`).

`RoomForAll` says that `luaH_resize` never comes to a second rehash: `rehash`
counts with the old sizes, and the insertions then take nodes of new chains in
another order. `RoomInv` counts what is still to come to a node: `Out` before the
nodes are allocated, `Awaited` while they are filled, at most as many as are free
above `lastfree`. `CountedIs` is the count of `rehash`: each candidate up to the
new array size is a place of some entry that is not `Out`. An entry with a place
in the array takes no node, any other takes one at most, whether it collides or
not (`SetSpares`).

### 4.8 What is not proved

Only model-checked are the other modules, liveness (fairness and `ENABLED` are
outside the prover), and everything not listed above. What a recursive
definition computes for every input would need induction over data, which the
installed provers cannot do; so the compiler, the virtual machine and the
library, which are recursive, stay with TLC. `LuaGC`, `LuaLife`, `LuaString`,
`LuaUpval`, `LuaGCControl`, `LuaGCLists`, `LuaCall` and `LuaTable` declare no
recursive operators. Every invariant that a passing run checks is
proved, and so is every action property and refinement but those of the compiler
and of the library; those, and the liveness properties of the collector
(`Reclaimed`, `CycleEnds`, `SweepEnds`), TLC checks.

## 5. What is not modelled

* Pacing of the collector: debt, estimate, `gcpause`, `gcstepmul`, how much a
  step does. A step of the models does some work, any amount.
* The marking of open upvalues of dead threads (`twups`, `remarkupvals`);
  `LuaUpval` has their lists and counts, `LuaGC` has no open upvalues.
* Reuse and shrinking of `CallInfo`; `luaM_growaux_`; tail calls in `LuaCall`
  (`LuaVM` has them); yields inside a hook of a C call; an error without any
  protection, which calls `lua_atpanic` and ends the process.
* Access to the stack by index in `lapi.c`, and the argument checks, messages
  and wrappers of the libraries. `string.format` apart from `%q`, hexadecimal
  floats, `strtod`, multiplication, division and powers of floats: formatting
  and the C library.
* Line information of compiled code, syntax errors in the order of tokens, the
  strings that `luaX_newstring` anchors, names of variables in messages.
* `liolib.c`, `loslib.c`, dynamic libraries in `loadlib.c`, the options and the
  prompt of `lua.c`, `luac.c`: they pass their arguments on to the C library and
  the operating system, and keep no state of their own that could go wrong.
* Sizes of objects and alignment; the text of error messages.

## 6. What could come next

`twups` and `remarkupvals` on top of the objects of `LuaGC`; pacing with bounded
integers; one instance in which `LuaCall` runs the code of `LuaVM`, so that
errors and yields cut real programs; the compiler and the virtual machine with
recursive functions in place of operators, so that what one construct compiles to
can be proved.

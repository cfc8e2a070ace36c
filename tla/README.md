# Wren in TLA+

This directory models the virtual machine of the Wren scripting language
(`src/ext/wren/`) and the small host program that embeds it (`src/main.c`,
`src/wren_util.c`, `src/wren_defs.h`, `src/vec3.h`). The modules are written
from the C source; the comments of the C code are used only to find out what
somebody promised. `PROJECT.json` lists, for every definition, the lines of
code it stands for.

## 1. The system

Wren compiles a source text to bytecode in one pass and interprets it on one
native thread. There is no preemption and nothing is persisted; what makes the
code hard is that much of its state is shared through raw pointers by parts
that call each other back.

| Component | State | Operations | Interacts with |
|---|---|---|---|
| Fibers (`wren_core.c`, `wren_vm.c`) | `vm->fiber`, and per fiber `caller`, `state`, `error`, `numFrames` | `Fiber.new call try transfer transferError yield suspend abort`, `CODE_RETURN`, `runtimeError()` | the host enters and leaves the interpreter through a fiber |
| Value stack and upvalues (`wren_vm.c`, `wren_value.c`) | `stack`, `stackTop`, `frames`, `openUpvalues`, `vm->apiStack`, the local `stackStart` | push and pop, calls, `captureUpvalue`, `closeUpvalues`, `wrenEnsureStack` | the compiler promises heights; native code moves the stack |
| Map (`wren_value.c`, `wren_core.c`) | `entries`, `capacity`, `count` | get, set, remove, clear, iterate | script loops hold an index; the registry of modules is a map |
| Garbage collector (`wren_vm.c`, `wren_value.c`) | list of objects, gray stack, temporary roots, handles | mark and sweep in any allocation | every pointer held across an allocation |
| Modules (`wren_vm.c`, `wren_compiler.c`) | `vm->modules`, `vm->lastModule`, module variables | import, compile, run a body, look up a variable | host callbacks resolve and load; bodies run as calls |
| Classes (`wren_vm.c`, `wren_value.c`) | method tables, `numFields`, superclass | create, bind methods, construct | the compiler's field indices; host callbacks bind |
| Host API (`wren_vm.c`, `wren.h`) | API slots, handles | `wrenInterpret`, `wrenCall`, slots, handles | fibers and stack |
| Compiler (`wren_compiler.c`) | scopes, locals, upvalue lists, slot counts | one pass over the text | module variables, the collector (`wrenMarkCompiler`) |
| Core library (`wren_core.c`, `wren_primitive.c`, `wren_core.wren`) | none of its own | lists, ranges, strings, numbers; combinators written in Wren | - |
| Optional modules (`optional/`) | state of a random generator | `Meta.compile`, `Random` | frames of the running fiber, modules |
| Host program (`main.c`, `wren_util.c`) | the handles of `main.c` | names and loads modules, runs two scripts, calls methods, binds foreign classes | the host API, imports |

What is hard here, and what a module is asked to show about it:

- *Control between fibers.* A fiber keeps one link to its caller, and five
  primitives and two exits from the interpreter change it. Control must always
  have somewhere to go, an error must find the right `try`, and the host must
  get back an idle machine.
- *Pointers into a stack that moves.* Frames, upvalues, the API stack and a
  local variable of the interpreter point into an array that a call or the host
  may reallocate.
- *Sharing by upvalues.* Two closures over one variable must see one variable,
  before and after its scope is left.
- *A table that changes under a loop*, and that tells open entries from deleted
  ones by the value they hold.
- *Partial failure of imports*: a module is registered before it has run.
- *Roots*: what a C function holds in a local is not seen by the collector.
- *One pass*: the compiler emits code for names, loops and classes before it has
  seen the end of them, keeps count of a stack it never sees, and leaves field
  offsets to be corrected, in place, when a class is created.
- *Boundaries*: ranges that count from the end, bytes that are no code points,
  paths that walk out of a directory.

The hazards, at their lines and with the properties that cover them, are in
`PROJECT.json`.

## 2. Modules

### WrenFibers, MCFibers, WrenFibersProofs

One action per primitive of class `Fiber` (`FiberNew`, `FiberCall`, `FiberTry`,
`FiberTransfer`, `FiberTransferError`, `FiberYield`, `FiberSuspend`), one for a
call and one for `CODE_RETURN`, `Abort` for anything that sets the error of the
current fiber, one turn of the loop of `runtimeError()` (`Unwind`, `Uncaught`),
and the host's `WrenInterpret`, `WrenEnsureSlots`, `WrenCall`. `Dispatch` is
what the interpreter does after a primitive returned false. The variables are
the fields of the same name; `pc` says who executes, and becomes `"crashed"`
where the code would read a frame that is not there or follow a null pointer.
Of the stacks only the misplaced slot is kept (`skew`).

Scripts are not given: at any time the running fiber may execute any
primitive. `UsesTransfer` tells two kinds of scripts apart, because much of what
holds for `call`, `try` and `yield` is lost with `transfer`.

### WrenStack, WrenScopes, WrenStackProofs, WrenScopesProofs, MCStack

`WrenStack` is the stack of one fiber. An address is a pair of the array it
points into and an index; each reallocation may start a new array, as
`realloc()` may move or not. The actions are the instructions that move values
between the stack, locals and upvalues, calls and returns, `CODE_CLOSURE` with
each capture a step of its own, native code that asks for slots, and a
collection of upvalues. A function may execute any instruction that the
compiler could have emitted there: `Push` keeps to the count of slots that
`emitOp()` reserves, `Pop` may omit the closing of upvalues only where the slot
is not captured, arguments are temporaries. `counted` is the height the compiler
counts on; it is not in the code, and only actions that stand for compiled code
change it.

`WrenScopes` is what a script sees: variables that belong to a call until a
closure captures them, and boxes shared from then on. It has no stack. The
refinement `IsScopes` maps an upvalue to a box, and a slot an open upvalue
points at to a shared variable; closing an upvalue and moving the stack change
neither.

### WrenMap, WrenDict, WrenMapProofs, MCMap

`WrenMap` is the hash table with its operations and a `for` loop over it. A
resize is a loop of `CopyEntry` steps between `StartResize` and `FinishResize`.
`visited`, `unvisited` and `rehashed` observe the loop and are not in the code.
`WrenDict` is a dictionary; `IsDict` shows that the table implements it, with the
steps of a resize stuttering.

### WrenModules, WrenModulesProofs, MCModules

`WrenModules` compiles and runs sources. `Compile` is `compileInModule()`:
registration first, then the effect of a source on the module's variables, which
stays when the source has errors. A source is only what it does to each name,
use or define; the two operators `Used` and `Defined` are `name()` and
`wrenDefineVariable()`, and `Compiles` collects the errors. Sources come from
`WrenInterpret`, `ImportSource` and `MetaEval`. `frames` is the chain of frames
from the host's fiber down to the running one, with a mark where a fiber begins,
so that an error can be cut off at the right `try`; a fiber that yields moves its
frames to `suspended`. An import statement stays in `importing` from
`IMPORT_MODULE` until its last `IMPORT_VARIABLE`. `bodies` and `cut` observe and
are not in the code: the bodies that imports started, and the modules with a source
that was not compiled or did not run to its end.

### WrenHeap, WrenHeapProofs, WrenHeapSafety, MCHeap

`WrenHeap` is `wrenReallocate()` with `wrenCollectGarbage()` behind it, and the C
code that allocates. An object is a record of the pointers that its `blacken...()`
function may follow; `Collect` grays the roots, blackens what they lead to
(`dark`), sweeps from `vm->first`, and calls finalizers. An instruction that
allocates once, with its operands on the stack, is one action. A C function that
allocates several times, or after it took a value off the stack (`wrenNewClass`,
`createClass`, `CODE_CLOSURE`, `range_toString`, `compileInModule`,
`importModule`, the fiber of `wrenInterpret`, handles), is a sequence of steps:
`native` holds what is left of it and its C locals, and a collection may come
before each step that allocates. The model goes no further where the code would
use a freed object, since anything may follow; the property says which pointers
can get there. (`OnlyKnownDangling` also says that the variables hold objects that
are there, so a type invariant would add nothing.) The list of open upvalues of a fiber
is a set, because only what is on it matters here; its order is in `WrenStack`. `root`
is the state `FIBER_ROOT`: without it a script could call the fiber it was entered
with, and the fibers that wait would no longer form a chain. `script` picks which
features a behaviour uses; it only divides the run.

### WrenCompiler, WrenCode, MCCode

`WrenCompiler` is the compiler from `definition()` down. The parser's recursion
is a stack of work (`todo`); where the code looks at the next token, the model
chooses any production it still has (`left`), so a run compiles every source with
at most so many loops, functions, names. The variables are the chain of
`Compiler` structs with their locals, upvalues, loop and code, and the finished
functions. An instruction has its operand and, in `means`, what the reader of the
source meant by it; `scopes` and `declared` keep the account of that, by lexical
scoping alone, and are not in the code.

`WrenCode` runs each finished function on a stack of declarations instead of
values, along every path, and creates the classes of the source in any order, any
number of times and with any superclass: `CreateClass` is `createClass()`,
`wrenBindSuperclass()`, `wrenBindMethod()` for each method, and the in-place
`wrenBindMethodCode()` (`BindMethodCode`).

### WrenText, WrenPaths, MCLibrary

`WrenText` has the algorithms on indexes, ranges, bytes and UTF-8 as operators,
and `String.split()` and `String.replace()` as the loops they are, one action a
turn. What the code reads or returns without having written it is `Junk` or
`Undefined`. `WrenPaths` is a chain of imports: `RunFileName` and `ResolveModule`
name modules as the host does, and `place` is where the file system leads if
each import is followed from its importer's directory. The two have nothing to do
with each other; `MCLibrary` lets a behaviour be of either.

### Mistakes

An operator `X_Y` is `X` with the mistake `Y`. No specification uses it: each is
what a run has to notice when it takes the place of `X` (`PROJECT.json`,
`mutants`).

## 3. Runs

| Run | Bounds | Shows |
|---|---|---|
| `fibers_calls` | 4 fibers, 2 errors, 2 frames, no transfers | the chain of callers never breaks, failed fibers never run, an error is set once |
| `fibers_transfer` | 3 fibers, 1 error, 2 frames, transfers | the host's view stays right and unwinding ends whatever scripts do |
| `fibers_dangling` | the same | finding: returning into a fiber that is gone |
| `map` | 4 keys, 3 of which collide or wrap around, capacities 4 and 8, one loop | the table is a dictionary; a loop visits every key once while nothing resizes |
| `stack_scopes` | 2 upvalues, functions of 3 slots, 2 frames, 1 capture | closures implement scopes, through growth of the stack |
| `stack_native` | the same with 2 arguments and native code that asks for 2 or 4 slots | pointers follow the stack, heights are those compiled |
| `stack_growth` | native code that asks for 4 slots | finding: `stackStart` goes stale |
| `modules` | 2 modules, one of them run by the host again and again, a local name and a name of the core module, 3 frames | import clauses read the module they name, bodies run once, no variable is unset without a reason, and only refused sources leave line numbers |
| `heap` | 7 sets of features, 6 to 10 objects, 3 slots, 1 handle | nothing that is still used is freed but behind four pointers; temporary roots are popped by the function that pushed them; classes outlive the finalizers of their objects; all garbage goes |
| `compiler` | 16 sets of productions, each used up to 3 times, 2 names, 4 locals, 2 fields, 2 classes | names, heights, captured variables, fields and methods are as the source says |
| `classes_rebound` | the same | finding: code bound twice addresses fields that are not there |
| `library` | strings of up to 4 bytes out of 5 and two longer ones, 8 strings to search for, every range from one before to one past both ends; 8 scripts, chains of 3 imports out of 9 | slices are loops, searches find the first occurrence, relative imports lead to the file beside the importer |

Why the bounds are enough: four fibers make a chain of three callers with a
bystander, the longest that a step of these actions looks at (a fiber, its
caller, the caller's caller); two errors tell a kept error from a replaced one;
with two frames a return either ends a fiber or does not. In the map the load
factor lets a table of 4 hold 3 keys, so the fourth key makes it grow and
removals make it shrink; capacity 4 fills with tombstones. The array of a
fiber's stack starts at 4 slots here, and a single nested call outgrows it; two
upvalues are needed for order in the list. Two modules are enough for a cycle of
imports and for `lastModule` to be the wrong one; the third frame makes room for
code in another fiber, or an evaluated source, inside the body of an import. One
name is local and may not be used before its definition, the other is defined by
the core module and becomes definable again once a script stores a number in it.
A set of features of `heap` holds the objects that refer to each other; each has
room for one use of every feature after what the machine itself allocates, and a
collection looks at one allocation at a time. The productions of `compiler` are
grouped by the fields of `Compiler` they share: two functions inside each other
are needed for an upvalue of an upvalue, two names for hiding, a second break
for a loop in a loop, two classes for a superclass or a definition executed
twice, and with 4 locals and 2 fields both limits are met. Among the five bytes
of `library` are a whole code point of two bytes and one of three, each also cut
off, and the greatest byte; four of them are enough for a delimiter at both ends,
and for two that touch. Three imports walk out of the working directory and
back.

Deadlock is checked for the map, which always has another operation. A fiber
ends and the host may stop, the models run out of fibers and objects, and a
compilation, a split or a chain of imports is over at some point, so the other
runs do not check it.

### Fairness

Only `runtimeError()` needs any: `Unwind` and `Uncaught` are weakly fair, since
they are the turns of one C loop that calls nothing but itself. Nothing is
assumed of scripts or of the host, which may stop for ever at any point.

## 4. Findings

Three disagreements between the code and what it says of itself have a run:

- `fibers_dangling`: transferring to a called fiber whose caller has finished
  makes the interpreter load frame -1, or dereference NULL while it unwinds.
- `stack_growth`: a foreign method or allocator that makes the stack move leaves
  `runInterpreter()` with a dangling `stackStart`.
- `classes_rebound`: a class definition that is executed twice, or stands inside
  a method of another class, has the inherited fields added to its code more than
  once, and its methods address fields the instance does not have.

Others are in the models without a run of their own:

- `WrenFibers.ResumeSlotAligned` does not hold: the value a root fiber is resumed
  with after `Fiber.yield(value)` goes to the wrong slot (`KeepsArgument`).
- With `AllocatorSlots = {3}`, `HeightAsCompiled` of `WrenStack` does not hold: an
  allocator that calls `wrenEnsureSlots()` changes the receiver of the initializer.
- With `EarlyReturn = TRUE`, `ImportsFromImported` does not hold: after
  `import "m" for X`, where the body of `m` executes `return` at its top level,
  `X` is looked up in the module that ended before.
- `WrenModules.LinesRefused` allows a source that is refused to leave line numbers in
  variables: a source compiled later into that module reads them as values, since
  `wrenCompile()` reports only names the source itself declared.
- `WrenHeap.OnlyKnownDangling` names four pointers that may dangle: the class of a
  foreign object, the fiber's stack under an open upvalue, the superclass in
  `createClass()`, and the first token of a source before `vm->compiler` is set.
- `WrenCode.LocalsFit`: `forStatement()` makes sure of two locals and declares
  three.
- `WrenText`: the byte 255 has no entry in the shift table; slices of malformed
  strings have unwritten bytes; four bytes that decode to more than 0x10ffff
  cannot be encoded.
- `WrenPaths.outside`: the name of a script above the working directory, or given
  by an absolute path, loses its beginning, and imports relative to it are looked
  for elsewhere; an import of an absolute path is taken as relative unless the
  importer's name has no directory, and a file in the root has none.

And these were met on the way and are not modelled: a block argument after 16
arguments makes `CODE_CALL_16 + 1`, which is `CODE_SUPER_0` (`methodCall`);
`addUpvalue()` never tests `MAX_UPVALUES`; a static method with the signature of a
constructor replaces it silently; `TakeSequence` keeps its count in the sequence,
so two loops over it at once disturb each other; `importModule()` goes on with a
null name when the host cannot resolve one, harmlessly, as the error is tested
first; `bindForeignClass()` of `main.c` returns a struct it never initialised when
no class matches; Meta.compile called by the host looks below the first frame.

The comment on `FiberState` in `wren_value.h` is inverted (it says that a fiber
without a caller was invoked with `call()`), which no run is needed to see.

## 5. Proofs

`WrenFibersProofs` proves theorems of `Spec` for any set of fibers and errors
and any `MaxFrames`, from the assumption `FiberAssumption` on the constants.

*With transfers or without.* `GInv` is the type invariant, with what makes it
inductive: the running fiber has a frame, `runtimeError()` starts from a fiber,
the fiber the host holds is idle, a fiber that was never created is blank and is
nobody's caller, and a root fiber has no caller. `TypeCorrect`, `ApiStackCorrect`
and `RootCorrect` follow.

*Without transfers.* The properties the run checks are not inductive: between
the turns of `runtimeError()` the fiber it is about to abort has an error or
not, but still holds its link. `ChainInv` treats that fiber like a live one
(`Linked`), and says that linked fibers have live callers, distinct fibers
distinct ones, that only a root awaits nobody, and that a `FIBER_TRY` mark comes
with a link. `ChainCorrect` proves it invariant; the theorems
`CallersWaitCorrect`, `OneCalleeCorrect`, `UncalledCorrect`, `TryCorrect`,
`NeverCrashesCorrect` and the action property `ErrorIsFinalCorrect` follow. They
assume `~UsesTransfer`, and the run `fibers_dangling` shows that they must.

`WrenModulesProofs` proves theorems of `WrenModules` for any modules, names and
`MaxFrames`, from `ModulesAssumption`. The inductive invariant is `Data /\ Calls`.
`Data` is the type of the variables with `BodyOnce`, which needs that a module with
a body that was started is registered. It needs
`Calls` only to know that the running code belongs to a registered module. `Calls`
is the shape of the frames (`Stacked`): the frame above one in the middle of an
import statement is the body of the module it names, in the same fiber. This is
not among the properties, but `ImportsFromImported` is not inductive without it:
when a body ends, what is below it on the stack must be what imported it.
Lemmas show that pushing, dropping, and suspending and resuming frames keep the
shape; `NextKeeps` has one lemma per action. `ImportsCorrect` assumes
`~EarlyReturn`, and must (section 4).
`DefinedStaysCorrect` and `LinesCorrect` are action properties and follow from the
same invariant; for the second, a new line means a name that `Compiles` finds
unresolved (`CompileFacts`), and an error drops at least the top frame.
`UnsetCorrect` needs the invariant only for types; what it adds is, for each way
frames are moved, where the code that still owes a variable its value is found
afterwards (the lemmas on `Owed`): a step that sets a variable to null pushes the
frame that owes it, and one that loses frames puts their modules into `cut`.

`WrenMapProofs` proves theorems of `WrenMap` for any keys, values and hashes, any
minimal capacity, load factor below one and growth factor that `MapAssumption`
admits. The heart of its invariant is `Findable`: on the way from where a key
hashes to, to where its entry is, there is neither an open slot nor that key.
`FindsEntry` alone would not do, since it speaks of the result of a whole search,
and an insertion has to be shown to keep the results of all others; it also
follows from `Findable` only by taking the first slot at which a search may stop,
and a free slot is there because a table keeps its load below its capacity.
`Copied` is the same for the array that a resize fills, with what it has copied so
far, and says that the new capacity will satisfy the bounds once the operation
that resizes is done. `Iterated` puts the keys a loop has visited before its
index and the others after it. From these follow `EntriesFound`, `TablesLoaded`,
the action property `LoopsVisitEach`, and `ImplementsDict`: each action is a step
of `WrenDict` or a stutter, under the mapping the run checks. `Hash` is only
assumed to be a natural number for each key; a probe sequence is the arithmetic
of `Probe`, and `ProbeSlots` shows that it comes by every slot once.

`WrenStackProofs` proves theorems of `WrenStack` for any functions, upvalues,
depth of calls and requests of native code, from `StackAssumption`. `NoDangling`
looks inductive and is not: that the addresses stay valid when the stack moves
needs to know that the C code finds them all, which takes the shape of frames
(`Laid`: the first begins at slot 0, each begins above the one below it and the
last below the top) and of the list of upvalues (`Linked`: sorted, so that each
is met once, and none points above the top or into the window of a foreign method
that is about to be discarded). `Alive` says that what a closure refers to was not
collected, without which a captured upvalue could be one that is not there.
`StackNoDangling`, `UpvaluesSorted` and `PushesInBounds` follow without any
assumption on native code.

`WrenStackProofs` goes on with what is in the slots (`Wrote`) and how many there
are (`AsCounted`). `HeightCounted` and `StackTypes` assume `Modest`: an allocator
asks for no more than the slot it has. They must, since the slots it adds are
never taken off (section 4); foreign methods may ask for any number.
`CallsNeverCrash` assumes `Still`, that foreign methods do not ask for slots
either, and the run `stack_growth` shows that it must. What it proves is that
calls, which may move the stack as well, always reload `stackStart`.

`WrenScopesProofs` proves `ScopesImplemented`, that `WrenStack` implements
`WrenScopes`, under `Modest` too (a slot an allocator leaves behind displaces
every temporary above it). The invariant is that of `WrenStackProofs` with
`Fresh`: the slots the compiler counts are written and belong to the running
frame, no upvalue points above them, and a closure that is being made refers to
nothing but what its function has captured or its scope shares, so that it is a
legal value when it becomes a temporary. The argument is about one slot at a
time. `BoxOf` is the open upvalue of a slot, at most one since the list is
sorted; `Closes` shows that an upvalue that is closed holds what its slot held,
`SharesOne` that one that is opened takes over what its slot holds and nothing
else, `WritesShared` that a write to a slot that is captured is seen by all that
share it, `CollectGarbageForgets` that what the collector frees no call and no
box can lead to. `ScopeKept` and `TopChanges` carry this to whole calls. With
that every action is one step of `WrenScopes` (`CallEnters`, `ReturnReturns`,
`PopLeaves`, ...) or a stutter, and `StepMaps` puts them together.

`WrenNumbers` has what these need about numbers: a set of natural numbers has a
least element (by the well-foundedness of strict inclusion among finite sets),
so a search has a first slot at which it stops, and `wrenPowerOf2Ceil()` has a
result.

`WrenHeapProofs` proves `FinalizersCorrect` and `RootsCorrect` for any scripts
and any number of objects, from `HeapAssumption`. For the first, the collector
frees the youngest object first, so a finalizer finds its class if the class is
`Older`; the invariant `FInv` says so of every foreign object, and what makes it
inductive is where the class of an object may be written at all. A foreign
object gets its class when it is allocated, from a slot of the stack. Only
`wrenNewClass()` writes the class of an object that is there, and `Creating`
says that it is the class it is creating, which is not foreign, even if the
collector has freed it and a later step would use it. This is a fact about every
C function that is modelled as a sequence of steps (`ClassPrograms`,
`SmallPrograms` and `SourcePrograms`). Nothing is assumed of what the collector
marks. For the second, `Rooted` says that the steps that are left of the C
function in progress lead from the temporary roots there are to none (`Runs`),
with no number in between that does not fit; `Joined` shows that this composes
as calls do, so that the same lemmas follow each function from what it calls.
None of those that are modelled has more than two.

`WrenHeapSafety` proves `NothingElseDangles`, that `OnlyKnownDangling` holds for any
scripts and any number of objects, from `HeapAssumption` alone: the collector never
frees what a script, the host or a C function still uses. `OnlyKnownDangling` is not
inductive, since it says nothing of why the objects are kept. The invariant `LInv`
(`Over` once the machine is freed, `Lives` before) has three parts for this. The heap is
`Good`: what the collector follows is allocated or `None`, each open upvalue is on
the list of the fiber whose slot it points at, closures hold upvalues, and the
fibers that wait form a chain in which no two wait for the same one; with that a
return or a yield finds its slot in the caller. What the machine refers to is
allocated. And `Stands` says where the C function in progress is in its program: each
local that a later step names is a temporary root, or is kept by an anchor (the
stack, a handle, the compiler, the variable of the module), or is bare, in which case
the next step does not allocate. `Path` is the account of this along the steps of a
program; `PathJoined` composes it as calls do, and there is one lemma for each
program (`NewClassPath`, `HandlePaths`, `CompilePath`, ...), which is where a missing
`wrenPushRoot()` would fail. A collection keeps all of this because what it marks is
closed under the pointers it follows (`Marks`): each round of the marking adds an
object or is the last, and there are no more than `MaxObjects`. `CollectLeaves` and
`CollectLives` draw the conclusion for the heap and for the locals, one lemma per
action shows that the others keep `Lives`, and `LivesIsSafe` that it implies the
property, by following `Reachable` from what is held (`KnownPointers`).

`GarbageCollected` proves the converse, `CollectsAll`, from the same invariant: what a
collection leaves can be got to, or is a temporary root. `Marks` also says that what is
marked is the least set that is closed under what the collector follows, and all of
that is among the pointers (`MarkedPointers`), so it is enough that what a temporary
root keeps can be got to (`Reaches`) or is a string, which points at nothing
(`RootsHeld`). A root that stayed until after its last use would break this. That none
does is a part of `Path` (`Lasts`): wherever a C function allocates, a local that is
rooted is named by this step or a later one, or holds a string, or is the metaclass in
`wrenNewClass()`, whose root outlives its last use there but which the new class points
at by then; `Serves`, the fourth part of `Lives`, says what these locals hold. Every other
step that leaves a machine running frees nothing (`OnlyCollects`). `Iterated` and `Settled` are about any set that
grows in rounds, and serve the marking and `Reachable` alike.

Only model-checked:

- the properties of `WrenCompiler`, `WrenCode` and `WrenText`, which declare recursive
  operators that TLC evaluates on small inputs and the provers do not accept, and
  `ResolvesBeside` of `WrenPaths`, about a fold over the parts of a path: what a
  recursive definition or a fold computes on every input is out of reach, as the
  induction theorems of the library cannot be instantiated;
- `UnwindEnds`, which is liveness under fairness.

## 6. Plan and what is not modelled

Done: `WrenFibers` and `WrenModules`, `WrenMap` over `WrenDict`,
`WrenStack` over `WrenScopes`, `WrenHeap`, `WrenCompiler` with `WrenCode`,
`WrenText` and `WrenPaths`.

Also done: proofs of the invariants of `WrenStack` and of `WrenMap` with their
refinements, of all properties of `WrenModules`, and, for `WrenHeap`, of the order in
which objects are finalized and classes freed, of the balance of temporary roots, and
of the collector: what is still used is never freed, but for the pointers that
`OnlyKnownDangling` names, and what nobody can get to is freed.

Not modelled:

- the lexer, precedences, constants, parameters and signatures, and the limits
  on them: sequential text processing that keeps no state another part relies on;
- foreign methods as the compiler binds them, and the count of bytes that
  triggers a collection (any allocation may collect in `WrenHeap`);
- insertion into lists, sorting, arithmetic, the other combinators written in
  Wren, numbers as text;
- debug output, the random generator and reading files;
- the driver `main.c`, a fixed sequence of API calls, with its foreign structs.

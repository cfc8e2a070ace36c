------------------------------ MODULE WrenHeap ------------------------------
(***************************************************************************)
(* The garbage collector against the C code that allocates.  Any allocation *)
(* may collect, and the collector sees only the registry of modules, the    *)
(* temporary roots, the current fiber, the handles, the compilers and the   *)
(* method names: what a C function holds in a local must be reachable from  *)
(* these for as long as it is used.                                         *)
(*                                                                         *)
(* Objects are numbered in the order of their allocation, so the list       *)
(* vm->first is the allocated ones in descending order.  None stands for    *)
(* every value that is not on the heap, and for the objects that are never  *)
(* collected: the classes of the core module, the code of the script and    *)
(* its constants.                                                           *)
(*                                                                         *)
(* Instructions and API functions that allocate once, while their operands  *)
(* are on the stack, are single actions, and a collection may come before   *)
(* them.  A C function that allocates more than once, or after it took a    *)
(* value off the stack, is a sequence of steps (`native`).                  *)
(*                                                                         *)
(* A step that would use a freed object is not taken: what the machine does *)
(* after that is undefined.  An operator X_Y is X with the mistake Y.       *)
(***************************************************************************)
EXTENDS Naturals, Sequences, FiniteSets, SequencesExt

CONSTANTS
  None,           (* a value that is not a collectable object               *)
  Scripts,        (* the kinds of scripts and hosts that are explored: what *)
                  (* they use, and how many objects are ever allocated      *)
  MaxStack,       (* the most slots of a fiber that are explored            *)
  MaxHandles      (* the most handles the host holds                        *)

Features == {"class", "closure", "fiber", "container", "range", "handle", "import", "interpret"}

ASSUME HeapAssumption ==
  /\ \A s \in Scripts : /\ s.uses \subseteq Features
                         /\ s.objects \in Nat /\ s.objects >= 4
                         /\ None \notin 1..s.objects
  /\ MaxStack \in Nat \ {0} /\ MaxHandles \in Nat

VARIABLES
  script,         (* which of Scripts this is                               *)
  heap,           (* the allocated objects                                  *)
  next,           (* the number of the next object                          *)
  fiber,          (* vm->fiber                                              *)
  modules,        (* the values of vm->modules                              *)
  methodNames,    (* vm->methodNames                                        *)
  handles,        (* the values of vm->handles                              *)
  tempRoots,      (* vm->tempRoots                                          *)
  compiler,       (* what wrenMarkCompiler() finds from vm->compiler        *)
  dark,           (* the objects with isDark                                *)
  native,         (* the rest of the C function in progress and its locals  *)
  blind           (* a finalizer ran after its class was freed by the same  *)
                  (* collection; this is not in the code                    *)

roots == <<fiber, modules, methodNames, handles, tempRoots, compiler>>
vars == <<script, heap, next, roots, dark, native, blind>>

MaxObjects == script.objects
Allocated == DOMAIN heap
Idle == [code |-> <<>>, locals |-> <<>>]

WREN_MAX_TEMP_ROOTS == 8

Is(o, kind) == o \in Allocated /\ heap[o].kind = kind

-----------------------------------------------------------------------------
(* Objects.                                                                 *)

NewString == [kind |-> "string"]
NewSingleClass(name) ==
  [kind |-> "class", class |-> None, superclass |-> None, name |-> name,
   methods |-> {}, foreign |-> FALSE]
NewInstance(class) == [kind |-> "instance", class |-> class, fields |-> <<None>>]
NewForeign(class) == [kind |-> "foreign", class |-> class]
NewList == [kind |-> "list", elements |-> <<>>]
NewMap == [kind |-> "map", entries |-> <<>>]
NewModule(name) == [kind |-> "module", name |-> name, variables |-> <<None>>]
NewFunction == [kind |-> "fn", constants |-> {}]
NewClosure(fn) == [kind |-> "closure", fn |-> fn, upvalues |-> <<>>]
\* root is the state FIBER_ROOT.  The list of open upvalues is a set, as its order makes
\* no difference here.
NewFiber(closure) ==
  [kind |-> "fiber", stack |-> <<closure>>, frames |-> <<closure>>,
   openUpvalues |-> {}, caller |-> None, root |-> FALSE]

\* An upvalue that is open points at a slot of a fiber's stack.
NewUpvalue(f, i) == [kind |-> "upvalue", fiber |-> f, slot |-> i, closed |-> None]

-----------------------------------------------------------------------------
(* Marking.  Each operator is the set of objects the function grays.        *)

Objects(s) == s \ {None}

BlackenClass(o) ==
  {heap[o].class, heap[o].superclass, heap[o].name} \cup heap[o].methods

BlackenClosure(o) == {heap[o].fn} \cup ToSet(heap[o].upvalues)
BlackenFiber(o) ==
  ToSet(heap[o].frames) \cup ToSet(heap[o].stack)
    \cup heap[o].openUpvalues \cup {heap[o].caller}
BlackenFn(o) == heap[o].constants
BlackenForeign(o) == {}
BlackenInstance(o) == {heap[o].class} \cup ToSet(heap[o].fields)
BlackenList(o) == ToSet(heap[o].elements)
BlackenMap(o) == UNION {{e.key, e.value} : e \in ToSet(heap[o].entries)}
BlackenModule(o) == ToSet(heap[o].variables) \cup {heap[o].name}
BlackenUpvalue(o) == {heap[o].closed}

BlackenObject(o) ==
  CASE heap[o].kind = "class" -> BlackenClass(o)
    [] heap[o].kind = "closure" -> BlackenClosure(o)
    [] heap[o].kind = "fiber" -> BlackenFiber(o)
    [] heap[o].kind = "fn" -> BlackenFn(o)
    [] heap[o].kind = "foreign" -> BlackenForeign(o)
    [] heap[o].kind = "instance" -> BlackenInstance(o)
    [] heap[o].kind = "list" -> BlackenList(o)
    [] heap[o].kind = "map" -> BlackenMap(o)
    [] heap[o].kind = "module" -> BlackenModule(o)
    [] heap[o].kind = "string" -> {}
    [] heap[o].kind = "upvalue" -> BlackenUpvalue(o)

\* An object that is dark already is not put on the gray stack.
GrayObj(s) == (Objects(s) \cap Allocated) \ dark

MarkCompiler == compiler

GrayRoots ==
  GrayObj(modules \cup ToSet(tempRoots) \cup {fiber} \cup ToSet(handles)
            \cup MarkCompiler \cup methodNames)

\* What is dark when the gray stack, which holds s, is empty: after n rounds,
\* all that is n pointers away.
BlackenObjects(s) ==
  LET grayed[n \in 0..MaxObjects] ==
        IF n = 0 THEN s
        ELSE LET before == grayed[n - 1]
             IN before \cup GrayObj(UNION {BlackenObject(o) : o \in before})
  IN dark \cup grayed[MaxObjects]

-----------------------------------------------------------------------------
(* Freeing.                                                                 *)

\* What is freed before o, in the order of vm->first.
FreedBefore_OldestFirst(o, freed) == {p \in freed : p < o}

FreedBefore(o, freed) == {p \in freed : p > o}

\* wrenFinalizeForeign() looks the finalizer up in the class of the object.
Finalizes(freed) ==
  blind' = (blind \/ \E o \in freed : /\ heap[o].kind = "foreign"
                                       /\ heap[o].class \in FreedBefore(o, freed))

Without(freed) == [o \in Allocated \ freed |-> heap[o]]

\* The flags are cleared for the next collection.
Unmarked_Never(marked) == marked

Unmarked(marked) == {}

\* The next step of a C function allocates, or an instruction does.
Allocating == {"string", "class", "fn", "closure", "module", "map", "upvalue", "grow"}

MayCollect == native.code # <<>> => Head(native.code).do \in Allocating

CollectGarbage ==
  /\ fiber # None
  /\ MayCollect
  /\ LET marked == BlackenObjects(GrayRoots)
         freed == Allocated \ marked
     IN /\ freed # {}
        /\ heap' = Without(freed)
        /\ dark' = Unmarked(marked)
        /\ Finalizes(freed)
  /\ UNCHANGED <<next, roots, native>>

-----------------------------------------------------------------------------
(* C functions as sequences of steps.  A step names the local it is about   *)
(* and the local it reads; a local that no later step names is dead.        *)

Step(do, x, y) == [do |-> do, x |-> x, y |-> y]

PushRoot(x) == <<Step("root", x, x)>>
PopRoot == <<Step("unroot", "", "")>>
Grow(x) == <<Step("grow", x, x)>>

WrenNewSingleClass(x, name) == <<Step("class", x, name)>> \o PushRoot(x) \o PopRoot

\* The method table grows between the assignment and the copying.
WrenBindSuperclass(x, superclass) ==
  <<Step("superclass", x, superclass), Step("grow", x, superclass),
    Step("methods", x, superclass)>>

WrenNewClass_NoRoot ==
  <<Step("string", "metaclassName", "")>> \o PushRoot("metaclassName")
    \o WrenNewSingleClass("metaclass", "metaclassName") \o PopRoot
    \o WrenBindSuperclass("metaclass", "classClass")
    \o WrenNewSingleClass("classObj", "name") \o PushRoot("classObj")
    \o <<Step("metaclass", "classObj", "metaclass")>>
    \o WrenBindSuperclass("classObj", "superclass") \o PopRoot

WrenNewClass ==
  <<Step("string", "metaclassName", "")>> \o PushRoot("metaclassName")
    \o WrenNewSingleClass("metaclass", "metaclassName") \o PopRoot
    \o PushRoot("metaclass")
    \o WrenBindSuperclass("metaclass", "classClass")
    \o WrenNewSingleClass("classObj", "name") \o PushRoot("classObj")
    \o <<Step("metaclass", "classObj", "metaclass")>>
    \o WrenBindSuperclass("classObj", "superclass")
    \o PopRoot \o PopRoot

\* The allocator and the finalizer are added to the method table.
BindForeignClass == <<Step("foreign", "classObj", "")>> \o Grow("classObj")

WrenSymbolTableAdd(x) ==
  <<Step("string", x, "")>> \o PushRoot(x) \o Grow(x) \o PopRoot
    \o <<Step("symbol", x, "")>>

WrenMakeHandle(x) ==
  PushRoot(x) \o Grow(x) \o PopRoot \o <<Step("handle", x, "")>>

\* The debug information of a function is allocated before the function.
WrenNewFunction(x) == Grow("") \o <<Step("fn", x, "")>>

\* The handle keeps the function while its closure is allocated, and the
\* closure while the code is written.
WrenMakeCallHandle ==
  WrenSymbolTableAdd("method") \o WrenNewFunction("fn") \o WrenMakeHandle("fn")
    \o <<Step("closure", "closure", "fn"), Step("rehandle", "closure", "fn")>>
    \o Grow("closure")

\* Only the compiler's tables refer to the function until it is finished.
AddConstant(fn, x) ==
  PushRoot(x) \o Grow(fn) \o PopRoot \o <<Step("constant", fn, x)>>

\* The first two tokens are read before vm->compiler is set.  A string token
\* holds a string: "a%(b)" begins with two of them if b is one.
WrenCompile(strings) ==
  (IF strings >= 1 THEN <<Step("string", "token1", "")>> ELSE <<>>)
    \o (IF strings = 2 THEN <<Step("string", "token2", "")>> ELSE <<>>)
    \o (IF strings >= 1 THEN <<Step("compiler", "token1", "")>> ELSE <<>>)
    \o (IF strings = 2 THEN <<Step("compiler", "token2", "")>> ELSE <<>>)
    \o WrenNewFunction("fn") \o <<Step("compiler", "fn", "")>>
    \o (IF strings >= 1 THEN AddConstant("fn", "token1") ELSE <<>>)
    \o Grow("fn") \o <<Step("endCompiler", "fn", "")>>

\* A module is rooted until it is in the registry, whose table may grow, and
\* the finished function until it has a closure.
CompileInModule(strings) ==
  <<Step("module", "module", "name")>> \o PushRoot("module") \o PopRoot
    \o PushRoot("module") \o Grow("module") \o PopRoot
    \o <<Step("register", "module", "")>>
    \o WrenCompile(strings)
    \o PushRoot("fn") \o <<Step("closure", "closure", "fn")>> \o PopRoot

ImportModule_NoPop(strings) ==
  <<Step("string", "name", "")>> \o PushRoot("name") \o CompileInModule(strings)
    \o <<Step("push", "closure", "")>>

ImportModule(strings) ==
  <<Step("string", "name", "")>> \o PushRoot("name") \o CompileInModule(strings)
    \o PopRoot \o <<Step("push", "closure", "")>>

\* The entry is cleared before the table shrinks.
MapRemoveKey ==
  PushRoot("value") \o Grow("") \o PopRoot \o <<Step("push", "value", "")>>

ListRemoveAt ==
  PushRoot("removed") \o Grow("") \o PopRoot \o <<Step("push", "removed", "")>>

RangeToString ==
  <<Step("string", "from", "")>> \o PushRoot("from")
    \o <<Step("string", "to", "")>> \o PushRoot("to")
    \o <<Step("grow", "from", "to"), Step("string", "result", "")>>
    \o PopRoot \o PopRoot \o <<Step("push", "result", "")>>

\* CODE_CLOSURE: the closure is on the stack before its upvalue is allocated.
MakeClosure ==
  <<Step("closure", "closure", "fn"), Step("push", "closure", ""),
    Step("upvalue", "upvalue", "closure"), Step("capture", "closure", "upvalue")>>

-----------------------------------------------------------------------------
(* The steps of a C function.                                               *)

Now == Head(native.code)
Doing(do) == native.code # <<>> /\ Now.do = do
Local(x) == IF x \in DOMAIN native.locals THEN native.locals[x] ELSE None

\* A local of C is used: the object must still be there.
Usable(v) == v = None \/ v \in Allocated

\* The locals that later steps name.
Names(code) == UNION {{code[k].x, code[k].y} : k \in DOMAIN code}

\* On to the next step, with the value v in the local x.
Proceed(x, v) ==
  LET rest == Tail(native.code)
      locals == [n \in DOMAIN native.locals \cup {x} |->
                   IF n = x THEN v ELSE native.locals[n]]
  IN native' = [code |-> rest,
                locals |-> [n \in DOMAIN locals \cap Names(rest) |-> locals[n]]]

Continue == Proceed(Now.x, Local(Now.x))

Objectful(code) == Len(SelectSeq(code, LAMBDA s : s.do \in Allocating \ {"grow"}))

Begin(code, locals) ==
  /\ native.code = <<>>
  /\ next + Objectful(code) - 1 <= MaxObjects
  /\ native' = [code |-> code, locals |-> locals]

\* initObj()
With(record) == [o \in Allocated \cup {next} |-> IF o = next THEN record ELSE heap[o]]

Allocate ==
  /\ native.code # <<>> /\ next <= MaxObjects
  /\ Usable(Local(Now.y))
  /\ \/ Doing("string") /\ heap' = With(NewString)
     \/ Doing("class") /\ heap' = With(NewSingleClass(Local(Now.y)))
     \/ Doing("fn") /\ heap' = With(NewFunction)
     \/ Doing("closure") /\ heap' = With(NewClosure(Local(Now.y)))
     \/ Doing("module") /\ heap' = With(NewModule(Local(Now.y)))
     \/ Doing("fiber") /\ heap' = With(NewFiber(Local(Now.y)))
  /\ next' = next + 1
  /\ Proceed(Now.x, next)
  /\ UNCHANGED <<roots, dark, blind>>

Reallocate ==
  /\ Doing("grow")
  /\ Usable(Local(Now.x)) /\ Usable(Local(Now.y))
  /\ Continue
  /\ UNCHANGED <<heap, next, roots, dark, blind>>

\* wrenPushRoot() and wrenPopRoot()
Root ==
  /\ \/ Doing("root") /\ tempRoots' = Append(tempRoots, Local(Now.x))
     \/ Doing("unroot") /\ tempRoots' = Front(tempRoots)
  /\ Continue
  /\ UNCHANGED <<heap, next, fiber, modules, methodNames, handles, compiler, dark, blind>>

Write ==
  /\ native.code # <<>>
  /\ LET x == Local(Now.x)
         y == Local(Now.y)
     IN /\ Usable(y)
        /\ \/ Doing("superclass") /\ heap' = [heap EXCEPT ![x].superclass = y]
           \/ /\ Doing("methods")
              /\ heap' = [heap EXCEPT ![x].methods =
                            @ \cup IF y = None THEN {} ELSE heap[y].methods]
           \/ Doing("metaclass") /\ heap' = [heap EXCEPT ![x].class = y]
           \/ Doing("foreign") /\ heap' = [heap EXCEPT ![x].foreign = TRUE]
           \/ Doing("constant") /\ heap' = [heap EXCEPT ![x].constants = @ \cup {y}]
           \/ Doing("capture") /\ heap' = [heap EXCEPT ![x].upvalues = Append(@, y)]
  /\ Continue
  /\ UNCHANGED <<next, roots, dark, blind>>

\* The new object becomes known to the machine.  runInterpreter() makes the fiber
\* that it enters a root fiber.
Publish ==
  /\ native.code # <<>>
  /\ LET x == Local(Now.x)
     IN /\ Usable(x)
        /\ \/ /\ Doing("register") /\ modules' = modules \cup {x}
              /\ UNCHANGED <<methodNames, handles, compiler, fiber, heap>>
           \/ /\ Doing("symbol") /\ methodNames' = methodNames \cup {x}
              /\ UNCHANGED <<modules, handles, compiler, fiber, heap>>
           \/ /\ Doing("handle") /\ handles' = Append(handles, x)
              /\ UNCHANGED <<modules, methodNames, compiler, fiber, heap>>
           \/ /\ Doing("rehandle") /\ handles' = Append(Front(handles), x)
              /\ UNCHANGED <<modules, methodNames, compiler, fiber, heap>>
           \/ /\ Doing("compiler") /\ compiler' = compiler \cup {x}
              /\ UNCHANGED <<modules, methodNames, handles, fiber, heap>>
           \/ /\ Doing("endCompiler") /\ compiler' = {}
              /\ UNCHANGED <<modules, methodNames, handles, fiber, heap>>
           \/ /\ Doing("enter") /\ fiber' = x /\ heap' = [heap EXCEPT ![x].root = TRUE]
              /\ UNCHANGED <<modules, methodNames, handles, compiler>>
  /\ Continue
  /\ UNCHANGED <<next, tempRoots, dark, blind>>

Stack == heap[fiber].stack
Top == Last(Stack)

Push ==
  /\ native.code # <<>>
  /\ \/ Doing("push") /\ heap' = [heap EXCEPT ![fiber].stack = Append(@, Local(Now.x))]
     \/ Doing("top") /\ heap' = [heap EXCEPT ![fiber].stack = Append(Front(@), Local(Now.x))]
  /\ Continue
  /\ UNCHANGED <<next, roots, dark, blind>>

\* captureUpvalue(): the list of open upvalues is searched first.
Opens(i) == {u \in heap[fiber].openUpvalues : heap[u].slot = i}

CaptureUpvalue ==
  /\ Doing("upvalue")
  /\ \E i \in 1..Len(Stack) - 1 :
       \/ /\ Opens(i) # {}
          /\ \E u \in Opens(i) : Proceed(Now.x, u)
          /\ UNCHANGED <<heap, next>>
       \/ /\ Opens(i) = {} /\ next <= MaxObjects
          /\ heap' = [With(NewUpvalue(fiber, i)) EXCEPT ![fiber].openUpvalues = @ \cup {next}]
          /\ next' = next + 1
          /\ Proceed(Now.x, next)
  /\ UNCHANGED <<roots, dark, blind>>

NativeStep ==
  Allocate \/ Reallocate \/ Root \/ Write \/ Publish \/ Push \/ CaptureUpvalue

-----------------------------------------------------------------------------
(* Instructions.                                                            *)

Ready == native.code = <<>> /\ fiber # None
Starts == Ready /\ UNCHANGED <<next, roots, dark, blind>>
Room == Len(Stack) < MaxStack

SetStack(s) == heap' = [heap EXCEPT ![fiber].stack = s]

Load ==
  /\ Starts /\ Room /\ UNCHANGED native
  /\ \/ SetStack(Append(Stack, heap[1].variables[1]))
     \/ \E i \in DOMAIN Stack : Stack[i] # None /\ SetStack(Append(Stack, Stack[i]))

StoreModuleVar ==
  /\ Starts /\ UNCHANGED native
  /\ heap' = [heap EXCEPT ![1].variables[1] = Top]

\* CODE_POP, and CODE_CLOSE_UPVALUE if the slot is captured.
Closed(s, f, i) ==
  [o \in Allocated |->
     IF o \in s THEN [kind |-> "upvalue", fiber |-> None, slot |-> i,
                      closed |-> heap[f].stack[heap[o].slot]]
     ELSE heap[o]]

Pop ==
  /\ Starts /\ UNCHANGED native
  /\ Len(Stack) > 1
  /\ LET closing == Opens(Len(Stack))
     IN heap' = [Closed(closing, fiber, 0) EXCEPT
                   ![fiber].stack = Front(@),
                   ![fiber].openUpvalues = @ \ closing]

StoreField(i) ==
  /\ Starts /\ UNCHANGED native
  /\ Is(Stack[i], "instance")
  /\ heap' = [heap EXCEPT ![Stack[i]].fields[1] = Top]

CodeClosure ==
  /\ Starts /\ Room
  /\ Begin(MakeClosure, [fn |-> None])
  /\ UNCHANGED heap

\* A closure on top of the stack is called and returns its variable.
CallClosure ==
  /\ Starts /\ UNCHANGED native
  /\ Is(Top, "closure") /\ Len(heap[Top].upvalues) = 1
  /\ LET u == heap[Top].upvalues[1]
     IN \/ heap[u].fiber = None /\ SetStack(Append(Front(Stack), heap[u].closed))
        \/ /\ Is(heap[u].fiber, "fiber")
           /\ SetStack(Append(Front(Stack), heap[heap[u].fiber].stack[heap[u].slot]))

\* createClass(): the superclass leaves the stack, the name stays in its slot.
CreateClass(foreign) ==
  /\ Starts
  /\ Top # None => Is(Top, "class") /\ ~heap[Top].foreign /\ ~foreign
  /\ SetStack(Append(Front(Stack), None))
  /\ Begin(WrenNewClass \o <<Step("top", "classObj", "")>>
             \o IF foreign THEN BindForeignClass ELSE <<>>,
           [superclass |-> Top, classClass |-> None, name |-> None])

\* CODE_METHOD_INSTANCE: the method is below the class, and both are popped.  They
\* are temporaries, which no closure captures.
BindMethod ==
  /\ Starts /\ UNCHANGED native
  /\ Len(Stack) > 2
  /\ Is(Top, "class") /\ Is(Stack[Len(Stack) - 1], "closure")
  /\ Opens(Len(Stack)) = {} /\ Opens(Len(Stack) - 1) = {}
  /\ heap' = [heap EXCEPT ![Top].methods = @ \cup {Stack[Len(Stack) - 1]},
                          ![fiber].stack = Front(Front(@))]

\* Instructions that allocate one object and keep their operands on the stack
\* until it is there.
Makes(record, s) ==
  /\ Ready /\ next <= MaxObjects
  /\ heap' = [With(record) EXCEPT ![fiber].stack = s]
  /\ next' = next + 1
  /\ UNCHANGED <<roots, native, dark, blind>>

Construct ==
  /\ Is(Top, "class") /\ ~heap[Top].foreign
  /\ Makes(NewInstance(Top), Append(Front(Stack), next))

FiberNew == Is(Top, "closure") /\ Makes(NewFiber(Top), Append(Front(Stack), next))

-----------------------------------------------------------------------------
(* Fibers: which one runs, and who keeps the others.                        *)

Switches == Ready /\ UNCHANGED <<next, modules, methodNames, handles, tempRoots,
                                 compiler, native, dark, blind>>

FiberCall ==
  /\ Switches
  /\ Is(Top, "fiber") /\ Top # fiber
  /\ heap[Top].caller = None /\ ~heap[Top].root /\ heap[Top].frames # <<>>
  /\ heap' = [heap EXCEPT ![Top].caller = fiber]
  /\ fiber' = Top

\* The value replaces the fiber on the caller's stack.
Gives(f, v) == [heap EXCEPT ![f].stack = Append(Front(@), v)]

FiberYield ==
  /\ Switches
  /\ LET caller == heap[fiber].caller
     IN /\ caller # None
        /\ heap' = [Gives(caller, Top) EXCEPT ![fiber].caller = None]
        /\ fiber' = caller

\* CODE_RETURN from the last frame closes the upvalues.
FiberReturn ==
  /\ Switches
  /\ LET caller == heap[fiber].caller
         open == heap[fiber].openUpvalues
     IN /\ caller # None
        /\ heap' = [o \in Allocated |->
                      CASE o \in open -> Closed(open, fiber, 0)[o]
                        [] o = fiber -> [heap[o] EXCEPT !.stack = <<>>, !.frames = <<>>,
                                           !.openUpvalues = {}, !.caller = None]
                        [] o = caller -> Gives(caller, Top)[o]
                        [] OTHER -> heap[o]]
        /\ fiber' = caller

-----------------------------------------------------------------------------
(* The host: what a foreign method does with slots and handles.  The        *)
(* primitives of lists and maps have the same effects on the heap.          *)

Slots == DOMAIN Stack \ {1}
Slot(i, v) == [Stack EXCEPT ![i] = v]

SetSlot(i) ==
  /\ i \in Slots
  /\ \/ Starts /\ UNCHANGED native /\ Stack[i] # None /\ SetStack(Slot(i, None))
     \/ Makes(NewString, Slot(i, next))
     \/ Makes(NewList, Slot(i, next))
     \/ Makes(NewMap, Slot(i, next))

SetSlotNewForeign(i) ==
  /\ i \in Slots
  /\ Is(Stack[i], "class") /\ heap[Stack[i]].foreign
  /\ Makes(NewForeign(Stack[i]), Slot(i, next))

GetSlotHandle(i) ==
  /\ Starts
  /\ Len(handles) < MaxHandles /\ Stack[i] # None
  /\ Begin(WrenMakeHandle("value"), [value |-> Stack[i]])
  /\ UNCHANGED heap

SetSlotHandle(i) ==
  /\ Starts /\ UNCHANGED native
  /\ i \in Slots
  /\ \E v \in ToSet(handles) : v # Stack[i] /\ SetStack(Slot(i, v))

ReleaseHandle(k) ==
  /\ Ready
  /\ k \in DOMAIN handles
  /\ handles' = RemoveAt(handles, k)
  /\ UNCHANGED <<heap, next, fiber, modules, methodNames, tempRoots, compiler,
                 native, dark, blind>>

MakeCallHandle ==
  /\ Starts
  /\ Len(handles) < MaxHandles
  /\ Begin(WrenMakeCallHandle, <<>>)
  /\ UNCHANGED heap

InsertInList(i, j) ==
  /\ Starts /\ UNCHANGED native
  /\ Is(Stack[i], "list") /\ heap[Stack[i]].elements = <<>>
  /\ heap' = [heap EXCEPT ![Stack[i]].elements = <<Stack[j]>>]

GetListElement(i, j) ==
  /\ Starts /\ UNCHANGED native
  /\ j \in Slots
  /\ Is(Stack[i], "list") /\ heap[Stack[i]].elements # <<>>
  /\ SetStack(Slot(j, heap[Stack[i]].elements[1]))

SetListElement(i, j) ==
  /\ Starts /\ UNCHANGED native
  /\ Is(Stack[i], "list") /\ heap[Stack[i]].elements # <<>>
  /\ heap' = [heap EXCEPT ![Stack[i]].elements[1] = Stack[j]]

RemoveFromList(i) ==
  /\ Starts /\ Room
  /\ Is(Stack[i], "list") /\ heap[Stack[i]].elements # <<>>
  /\ heap' = [heap EXCEPT ![Stack[i]].elements = <<>>]
  /\ Begin(ListRemoveAt, [removed |-> heap[Stack[i]].elements[1]])

SetMapValue(i, j, k) ==
  /\ Starts /\ UNCHANGED native
  /\ Is(Stack[i], "map") /\ heap[Stack[i]].entries = <<>>
  /\ Stack[j] # None => Is(Stack[j], "string")
  /\ heap' = [heap EXCEPT ![Stack[i]].entries = <<[key |-> Stack[j], value |-> Stack[k]]>>]

GetMapValue(i, j) ==
  /\ Starts /\ UNCHANGED native
  /\ j \in Slots
  /\ Is(Stack[i], "map") /\ heap[Stack[i]].entries # <<>>
  /\ SetStack(Slot(j, heap[Stack[i]].entries[1].value))

RemoveMapValue(i) ==
  /\ Starts /\ Room
  /\ Is(Stack[i], "map") /\ heap[Stack[i]].entries # <<>>
  /\ heap' = [heap EXCEPT ![Stack[i]].entries = <<>>]
  /\ Begin(MapRemoveKey, [value |-> heap[Stack[i]].entries[1].value])

RangeString == Starts /\ Room /\ Begin(RangeToString, <<>>) /\ UNCHANGED heap

\* wrenGetVariable(): the name of the module is a temporary string.
GetVariable ==
  /\ Starts /\ Room
  /\ Begin(<<Step("string", "moduleName", "")>> \o PushRoot("moduleName") \o PopRoot
             \o <<Step("push", "value", "")>>, [value |-> heap[1].variables[1]])
  /\ UNCHANGED heap

Import(strings) ==
  Starts /\ Room /\ Begin(ImportModule(strings), <<>>) /\ UNCHANGED heap

\* wrenInterpret(), with the fiber of the last call still in vm->fiber.
Interpret(strings) ==
  /\ Starts
  /\ heap[fiber].caller = None
  /\ Begin(<<Step("string", "name", "")>> \o PushRoot("name") \o WrenCompile(strings)
             \o PushRoot("fn") \o <<Step("closure", "closure", "fn")>> \o PopRoot
             \o PopRoot \o PushRoot("closure") \o Grow("closure")
             \o <<Step("fiber", "fiber", "closure")>> \o PopRoot
             \o <<Step("enter", "fiber", "")>>, <<>>)
  /\ UNCHANGED heap

\* wrenFreeVM(): everything goes, in the order of the list.
FreeVM ==
  /\ Ready
  /\ handles = <<>>
  /\ heap' = Without(Allocated)
  /\ Finalizes(Allocated)
  /\ fiber' = None /\ modules' = {} /\ methodNames' = {}
  /\ UNCHANGED <<next, handles, tempRoots, compiler, native, dark>>

-----------------------------------------------------------------------------
(* A script with one module and a class, whose metaclass is older, in a     *)
(* local variable.                                                          *)
Init ==
  /\ script \in Scripts
  /\ \E foreign \in BOOLEAN :
       heap = <<NewModule(None), [NewFiber(None) EXCEPT !.stack = <<None, 4>>, !.root = TRUE],
                NewSingleClass(None),
                [NewSingleClass(None) EXCEPT !.class = 3, !.foreign = foreign]>>
  /\ next = 5
  /\ fiber = 2 /\ modules = {1} /\ methodNames = {} /\ handles = <<>>
  /\ tempRoots = <<>> /\ compiler = {} /\ dark = {} /\ native = Idle /\ blind = FALSE

Uses(feature) == feature \in script.uses

Classes ==
  /\ Uses("class")
  /\ \/ Construct \/ BindMethod
     \/ \E foreign \in BOOLEAN : CreateClass(foreign)
     \/ \E i \in DOMAIN Stack : StoreField(i) \/ SetSlotNewForeign(i)

Closures == Uses("closure") /\ (CodeClosure \/ CallClosure)

Fibers == Uses("fiber") /\ (FiberNew \/ FiberCall \/ FiberYield \/ FiberReturn)

Containers ==
  /\ Uses("container")
  /\ \E i \in DOMAIN Stack :
       \/ SetSlot(i) \/ RemoveFromList(i) \/ RemoveMapValue(i)
       \/ \E j \in DOMAIN Stack :
            \/ InsertInList(i, j) \/ GetListElement(i, j)
            \/ SetListElement(i, j) \/ GetMapValue(i, j)
            \/ \E k \in DOMAIN Stack : SetMapValue(i, j, k)

Ranges == Uses("range") /\ RangeString

Handles ==
  /\ Uses("handle")
  /\ \/ MakeCallHandle
     \/ \E k \in DOMAIN handles : ReleaseHandle(k)
     \/ \E i \in DOMAIN Stack : GetSlotHandle(i) \/ SetSlotHandle(i)

Sources ==
  \/ Uses("import") /\ GetVariable
  \/ \E strings \in 0..2 :
       \/ Uses("import") /\ Import(strings)
       \/ Uses("interpret") /\ Interpret(strings)

Next ==
  /\ \/ CollectGarbage
     \/ NativeStep
     \/ /\ Ready
        /\ \/ Load \/ StoreModuleVar \/ Pop \/ FreeVM
           \/ Classes \/ Closures \/ Fibers \/ Containers \/ Ranges \/ Handles \/ Sources
  /\ UNCHANGED script

Spec == Init /\ [][Next]_vars

-----------------------------------------------------------------------------
(* Properties.                                                              *)

\* Every pointer in an object, whatever the collector makes of it.
Pointers(o) ==
  LET r == heap[o]
  IN Objects(
       CASE r.kind = "string" -> {}
         [] r.kind = "class" -> {r.class, r.superclass, r.name} \cup r.methods
         [] r.kind = "instance" -> {r.class, r.fields[1]}
         [] r.kind = "foreign" -> {r.class}
         [] r.kind = "list" -> ToSet(r.elements)
         [] r.kind = "map" -> UNION {{e.key, e.value} : e \in ToSet(r.entries)}
         [] r.kind = "module" -> {r.name} \cup ToSet(r.variables)
         [] r.kind = "fn" -> r.constants
         [] r.kind = "closure" -> {r.fn} \cup ToSet(r.upvalues)
         [] r.kind = "upvalue" -> {r.fiber, r.closed}
         [] r.kind = "fiber" -> {r.caller} \cup ToSet(r.stack) \cup ToSet(r.frames)
                                  \cup r.openUpvalues)

Locals == {native.locals[x] : x \in DOMAIN native.locals}

\* What the program, the host and the C function in progress can get to.
Held == Objects({fiber} \cup modules \cup methodNames \cup ToSet(handles)
                  \cup compiler \cup Locals)

Reachable ==
  LET within[n \in 0..MaxObjects] ==
        IF n = 0 THEN Held
        ELSE LET nearer == within[n - 1]
             IN nearer \cup UNION {Pointers(o) : o \in nearer \cap Allocated}
  IN within[MaxObjects]

\* However C functions call each other, temporary roots fit into their array, one
\* that is popped was pushed, and all are popped when the functions have returned.
RootsFit ==
  /\ Len(tempRoots) <= WREN_MAX_TEMP_ROOTS
  /\ Doing("unroot") => tempRoots # <<>>
  /\ native.code = <<>> => tempRoots = <<>>

\* Pointers the collector does not follow: the class of a foreign object, and
\* the slot that an open upvalue points at.
Unfollowed(o, p) ==
  \/ heap[o].kind = "foreign" /\ p = heap[o].class
  \/ heap[o].kind = "upvalue" /\ p = heap[o].fiber

\* Locals that are not rooted while they are used: the superclass that
\* createClass() took off the stack, and the first token of a source.
Unrooted == {"superclass", "token1"}

\* Whatever is collected and whenever, an object that is still used is there,
\* but for what the four pointers above lead to.
OnlyKnownDangling ==
  /\ \A o \in Reachable \cap Allocated : \A p \in Pointers(o) :
       p \in Allocated \/ Unfollowed(o, p)
  /\ \A x \in DOMAIN native.locals :
       native.locals[x] \in Allocated \cup {None} \/ x \in Unrooted
  /\ Objects({fiber} \cup modules \cup methodNames \cup ToSet(handles) \cup compiler)
       \subseteq Allocated

\* A finalizer is found through the class of the object, which is never freed
\* before it by the same collection, or when the machine is freed.
FinalizersSeeClass == ~blind

\* A collection frees everything that nobody can get to any more: nothing is
\* kept by a handle that was released, a root that was popped, a fiber that
\* returned or a mark of the collection before.
CollectsAll ==
  [][fiber' # None /\ ~(Allocated \subseteq DOMAIN heap')
       => DOMAIN heap' \subseteq Reachable \cup ToSet(tempRoots)]_vars

=============================================================================

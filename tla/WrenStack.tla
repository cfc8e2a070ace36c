----------------------------- MODULE WrenStack -----------------------------
(***************************************************************************)
(* The value stack of one fiber: call frames that overlap on it, closures   *)
(* that capture its slots through upvalues, and the array it lives in,      *)
(* which is reallocated when a call or the host asks for more slots.        *)
(*                                                                         *)
(* Everything that points into the stack is an address, <<array, index>>;   *)
(* `array` counts how often the stack has moved, and an address into an     *)
(* earlier array dangles.  What was left above the top of the stack is not  *)
(* kept, as nothing reads it before it is written; only the host, which may *)
(* raise the top, sees it, as Junk.  A closure is the sequence of its       *)
(* upvalues.  The                                                           *)
(* instructions of a function may come in any order that respects what the  *)
(* compiler guarantees: a function uses the slots that were counted for it  *)
(* and a captured variable is dropped by CODE_CLOSE_UPVALUE.                *)
(*                                                                         *)
(* An operator X_Y is X with the mistake Y, which a property must notice.   *)
(***************************************************************************)
EXTENDS Integers, Sequences, FiniteSets, SequencesExt

CONSTANTS
  Data,           (* values that are not closures                           *)
  Junk,           (* what is in a slot that was never written               *)
  None,           (* NULL, and an upvalue or a cell that is not in use      *)
  MaxSlots,       (* ObjFn.maxSlots                                         *)
  MaxArgs,        (* the most slots a call passes, the receiver included    *)
  MaxCaptures,    (* the most upvalues of a function                        *)
  MaxFrames,      (* the deepest call stack that is explored                *)
  Upvalue,        (* the identities upvalue objects are allocated from      *)
  MethodSlots,    (* the numbers of slots foreign methods may ask           *)
                  (* wrenEnsureSlots() for; empty if there are none         *)
  AllocatorSlots  (* the same for the allocators of foreign classes         *)

Closure == UNION {[1..n -> Upvalue] : n \in 0..MaxCaptures}
Value == Data \cup Closure

\* Closures, other values, addresses and upvalue objects are told apart.
ASSUME StackAssumption ==
  /\ Data # {} /\ Junk \notin Value /\ None \notin Value \cup {Junk}
  /\ Data \cap Closure = {}
  /\ None \notin Int \X Int
  /\ None \notin [value : Int \X Int, closed : Value \cup {Junk, None}]
  /\ MaxSlots \in Nat \ {0} /\ MaxArgs \in Nat \ {0} /\ MaxFrames \in Nat \ {0}
  /\ MaxCaptures \in Nat /\ IsFiniteSet(Upvalue) /\ None \notin Upvalue
  /\ MethodSlots \subseteq Nat /\ AllocatorSlots \subseteq Nat

VARIABLES
  pc,             (* "run", filling the upvalues of a new "closure", in the *)
                  (* native code of a "method" or an "allocator", "done",   *)
                  (* or "crashed" after the use of a dangling address       *)
  array,          (* which array ObjFiber.stack is                          *)
  capacity,       (* ObjFiber.stackCapacity                                 *)
  stack,          (* the slots below ObjFiber.stackTop                      *)
  frames,         (* ObjFiber.frames: stackStart and closure, and how many  *)
                  (* slots the compiler has counted for the function        *)
  stackStart,     (* the local variable of runInterpreter()                 *)
  apiStack,       (* vm->apiStack                                           *)
  openUpvalues,   (* the list of open upvalues, as a sequence               *)
  upvalue,        (* ObjUpvalue: `value` is an address while it is open     *)
  counted         (* how many slots of the stack the compiler counts to be  *)
                  (* in use; the code has no such variable at run time      *)

memory == <<array, capacity, stack>>
pointers == <<frames, stackStart, apiStack, openUpvalues, upvalue>>
vars == <<pc, memory, pointers, counted>>

Closed == <<-1, -1>>

At(index) == <<array, index>>
Index(address) == address[2]
Valid(address) == address[1] = array
Slot(address) == stack[Index(address) + 1]
Plus(address, n) == <<address[1], address[2] + n>>
Written(address, v) == [stack EXCEPT ![Index(address) + 1] = v]

stackTop == At(Len(stack))
Frame == frames[Len(frames)]
Peek == Slot(Plus(stackTop, -1))

\* wrenPowerOf2Ceil()
PowerOf2Ceil(n) == CHOOSE p \in {2^k : k \in 0..n} : p >= n /\ p < 2 * n

-----------------------------------------------------------------------------
(* The array grows.                                                        *)

\* wrenEnsureStack(): the array is made larger when it must be; the allocator
\* may extend it in place or move it.
EnsureStack(needed) ==
  IF capacity >= needed THEN UNCHANGED <<array, capacity>>
  ELSE /\ capacity' = PowerOf2Ceil(needed)
       /\ array' \in {array, array + 1}

\* Where wrenEnsureStack() makes an address point to when the array has moved.
Moved_Forgets(address) == address

Moved(address) == <<array', Index(address)>>

MovedUpvalues ==
  [u \in Upvalue |-> IF u \in Range(openUpvalues)
                     THEN [upvalue[u] EXCEPT !.value = Moved(@)] ELSE upvalue[u]]

MovedFrames ==
  [k \in DOMAIN frames |-> [frames[k] EXCEPT !.stackStart = Moved(@)]]

-----------------------------------------------------------------------------
(* Upvalues.                                                               *)

\* closeUpvalues(): the upvalues at the head of the list that point at `last`
\* or above take their value with them.
Above(u, last) == Index(upvalue[u].value) >= Index(last)

Closing(last) ==
  {k \in DOMAIN openUpvalues : \A j \in 1..k : Above(openUpvalues[j], last)}

StillOpen(last) ==
  SubSeq(openUpvalues, Cardinality(Closing(last)) + 1, Len(openUpvalues))

ClosedUpvalues(last, contents) ==
  [u \in Upvalue |->
     IF \E k \in Closing(last) : openUpvalues[k] = u
     THEN [value |-> Closed,
           closed |-> contents[Index(upvalue[u].value) + 1]]
     ELSE upvalue[u]]

\* captureUpvalue(): the list is walked from the top of the stack down to the
\* place of `local`; the upvalue there is used if it is the local's, or else a
\* new one is linked in.
Place_First(local) == 1

Place(local) ==
  CHOOSE k \in 1..Len(openUpvalues) + 1 :
    /\ k <= Len(openUpvalues) => Index(upvalue[openUpvalues[k]].value) <= Index(local)
    /\ \A j \in 1..k - 1 : Index(upvalue[openUpvalues[j]].value) > Index(local)

Finds_Never(k, local) == FALSE

Finds(k, local) == k <= Len(openUpvalues) /\ upvalue[openUpvalues[k]].value = local

Captured(i) ==
  LET local == Plus(Frame.stackStart, i)
      k == Place(local)
      Add(u) == stack' = Written(Plus(stackTop, -1), Append(Peek, u))
  IN IF Finds(k, local)
     THEN Add(openUpvalues[k]) /\ UNCHANGED <<openUpvalues, upvalue>>
     ELSE \E new \in Upvalue :
            /\ upvalue[new] = None
            /\ Add(new)
            /\ openUpvalues' = InsertAt(openUpvalues, k, new)
            /\ upvalue' = [upvalue EXCEPT ![new] = [value |-> local, closed |-> None]]

-----------------------------------------------------------------------------
(* Instructions.                                                           *)

Height == Len(stack) - Index(Frame.stackStart)
Locals == 0..Height - 1
IsClosure(v) == v \notin Data \cup {Junk, None}
Temporary(i) ==
  \A k \in DOMAIN openUpvalues : Index(upvalue[openUpvalues[k]].value) # i

Push(v) ==
  /\ Height < Frame.height
  /\ stack' = Append(stack, v)

\* CODE_CONSTANT and its like, CODE_LOAD_LOCAL and CODE_LOAD_UPVALUE.
Load ==
  /\ pc = "run"
  /\ \/ \E d \in Data : Push(d)
     \/ /\ Valid(stackStart)
        /\ \E i \in Locals : Push(Slot(Plus(stackStart, i)))
     \/ \E i \in DOMAIN Frame.closure :
          LET u == upvalue[Frame.closure[i]]
          IN Push(IF u.value = Closed THEN u.closed ELSE Slot(u.value))
  /\ counted' = counted + 1
  /\ UNCHANGED <<pc, array, capacity, frames, stackStart, apiStack, openUpvalues,
                 upvalue>>

\* CODE_STORE_LOCAL
StoreLocal(i) ==
  /\ pc = "run"
  /\ i \in Locals /\ Height > 1
  /\ Valid(stackStart)
  /\ stack' = Written(Plus(stackStart, i), Peek)
  /\ UNCHANGED <<pc, array, capacity, pointers, counted>>

\* CODE_STORE_UPVALUE
StoreUpvalue(i) ==
  LET u == Frame.closure[i]
  IN /\ pc = "run"
     /\ i \in DOMAIN Frame.closure /\ Height > 1
     /\ IF upvalue[u].value = Closed
        THEN /\ upvalue' = [upvalue EXCEPT ![u].closed = Peek]
             /\ UNCHANGED stack
        ELSE /\ stack' = Written(upvalue[u].value, Peek)
             /\ UNCHANGED upvalue
     /\ UNCHANGED <<pc, array, capacity, frames, stackStart, apiStack,
                    openUpvalues, counted>>

\* CODE_CONSTRUCT
Construct(d) ==
  /\ pc = "run"
  /\ Valid(stackStart)
  /\ stack' = Written(stackStart, d)
  /\ UNCHANGED <<pc, array, capacity, pointers, counted>>

\* CODE_POP, and CODE_CLOSE_UPVALUE for a variable that may be captured.
Pop ==
  /\ pc = "run"
  /\ Height > 1
  /\ stack' = Front(stack)
  /\ counted' = counted - 1
  /\ \/ /\ Temporary(Len(stack) - 1)
        /\ UNCHANGED <<openUpvalues, upvalue>>
     \/ /\ openUpvalues' = StillOpen(Plus(stackTop, -1))
        /\ upvalue' = ClosedUpvalues(Plus(stackTop, -1), stack)
  /\ UNCHANGED <<pc, array, capacity, frames, stackStart, apiStack>>

\* CODE_CLOSURE pushes the closure before its upvalues are there, and then
\* captures a local of this call or takes an upvalue of this closure for each.
NewClosure ==
  /\ pc = "run"
  /\ Push(<<>>)
  /\ pc' = "closure"
  /\ UNCHANGED <<array, capacity, frames, stackStart, apiStack, openUpvalues, upvalue,
                 counted>>

CaptureLocal(i) ==
  /\ pc = "closure"
  /\ Len(Peek) < MaxCaptures
  /\ i \in Locals /\ i < Height - 1
  /\ Captured(i)
  /\ UNCHANGED <<pc, array, capacity, frames, stackStart, apiStack, counted>>

CaptureOuter(i) ==
  /\ pc = "closure"
  /\ Len(Peek) < MaxCaptures
  /\ i \in DOMAIN Frame.closure
  /\ stack' = Written(Plus(stackTop, -1), Append(Peek, Frame.closure[i]))
  /\ UNCHANGED <<pc, array, capacity, pointers, counted>>

ClosureDone ==
  /\ pc = "closure"
  /\ pc' = "run"
  /\ counted' = counted + 1
  /\ UNCHANGED <<memory, pointers>>

-----------------------------------------------------------------------------
(* Calls.                                                                  *)

\* n slots on top of the stack, none of which a closure refers to, are the
\* receiver and the arguments of a call.
Arguments(n) ==
  /\ n < Height
  /\ \A i \in 1..n : Temporary(Len(stack) - i)

\* What wrenCallFunction() asks the array to hold.
Needed_IgnoresStack(n) == n + MaxSlots

Needed(n) == Len(stack) + MaxSlots

\* A function is called: wrenCallFunction() and LOAD_FRAME().
Call(n) ==
  LET callee == Slot(Plus(stackTop, -n))
  IN /\ pc = "run"
     /\ Len(frames) < MaxFrames
     /\ Arguments(n)
     /\ IsClosure(callee)
     /\ EnsureStack(Needed(n))
     /\ stackStart' = Plus(Moved(stackTop), -n)
     /\ frames' = Append(MovedFrames,
                         [stackStart |-> stackStart', closure |-> callee,
                          height |-> MaxSlots + n - 1])
     /\ upvalue' = MovedUpvalues
     /\ UNCHANGED <<pc, stack, apiStack, openUpvalues, counted>>

\* CODE_RETURN: the result replaces the receiver once the upvalues are closed.
\* After the last frame there is no fiber to return to.
Return ==
  LET result == Peek
      rest == Front(frames)
      base == Index(Frame.stackStart)
  IN /\ pc = "run"
     /\ Height > 1
     /\ Valid(stackStart)
     /\ openUpvalues' = StillOpen(stackStart)
     /\ upvalue' = ClosedUpvalues(stackStart, stack)
     /\ frames' = rest
     /\ IF rest = <<>>
        THEN /\ stack' = <<result>>
             /\ pc' = "done"
             /\ counted' = 0
             /\ UNCHANGED stackStart
        ELSE /\ stack' = SubSeq(Written(stackStart, result), 1, base + 1)
             /\ stackStart' = rest[Len(rest)].stackStart
             /\ counted' = base + 1
             /\ UNCHANGED pc
     /\ UNCHANGED <<array, capacity, apiStack>>

-----------------------------------------------------------------------------
(* Native code of the host.                                                *)

\* callForeign(), up to the call.
CallMethod(n) ==
  /\ pc = "run"
  /\ MethodSlots # {}
  /\ Arguments(n)
  /\ apiStack' = Plus(stackTop, -n)
  /\ pc' = "method"
  /\ UNCHANGED <<memory, frames, stackStart, openUpvalues, upvalue,
                 counted>>

\* CODE_FOREIGN_CONSTRUCT, createForeign() up to the call.
CallAllocator ==
  /\ pc = "run"
  /\ AllocatorSlots # {}
  /\ Valid(stackStart)
  /\ apiStack' = stackStart
  /\ pc' = "allocator"
  /\ UNCHANGED <<memory, frames, stackStart, openUpvalues, upvalue,
                 counted>>

\* wrenEnsureSlots(), called by native code that the interpreter called.
WrenEnsureSlots(n) ==
  /\ \/ pc = "method" /\ n \in MethodSlots
     \/ pc = "allocator" /\ n \in AllocatorSlots
  /\ Len(stack) - Index(apiStack) < n
  /\ EnsureStack(Index(apiStack) + n)
  /\ apiStack' = Moved(apiStack)
  /\ stack' = stack \o [i \in 1..(Index(apiStack) + n - Len(stack)) |-> Junk]
  /\ frames' = MovedFrames
  /\ upvalue' = MovedUpvalues
  /\ UNCHANGED <<pc, stackStart, openUpvalues, counted>>

\* Native code writes its result to slot 0 and returns.  The arguments and the
\* temporaries of a method are discarded.
MethodTop_Keeps == Len(stack)

MethodTop == Index(apiStack) + 1

MethodReturns(d) ==
  /\ pc = "method"
  /\ stack' = SubSeq(Written(apiStack, d), 1, MethodTop)
  /\ apiStack' = None
  /\ counted' = Index(apiStack) + 1
  /\ pc' = "run"
  /\ UNCHANGED <<array, capacity, frames, stackStart, openUpvalues, upvalue>>

AllocatorReturns(d) ==
  /\ pc = "allocator"
  /\ stack' = Written(apiStack, d)
  /\ apiStack' = None
  /\ pc' = "run"
  /\ UNCHANGED <<array, capacity, frames, stackStart, openUpvalues, upvalue,
                 counted>>

\* An instruction reads or writes through `stackStart` after the array it
\* points into was freed.
WildAccess ==
  /\ pc = "run"
  /\ ~Valid(stackStart)
  /\ pc' = "crashed"
  /\ UNCHANGED <<memory, pointers, counted>>

-----------------------------------------------------------------------------
(* The garbage collector, as far as upvalues go: blackenFiber(),            *)
(* blackenClosure() and blackenUpvalue() keep what the fiber leads to.      *)

UpvaluesOf(v) == IF IsClosure(v) THEN Range(v) ELSE {}

Marked ==
  Range(openUpvalues)
    \cup (UNION {UpvaluesOf(stack[i]) : i \in DOMAIN stack})
    \cup (UNION {Range(frames[k].closure) : k \in DOMAIN frames})

Unreached(S) ==
  /\ S \cap Marked = {}
  /\ \A u \in Upvalue \ S : upvalue[u] # None => UpvaluesOf(upvalue[u].closed) \cap S = {}

CollectGarbage ==
  LET garbage == UNION {S \in SUBSET {u \in Upvalue : upvalue[u] # None} : Unreached(S)}
  IN /\ garbage # {}
     /\ upvalue' = [u \in Upvalue |-> IF u \in garbage THEN None ELSE upvalue[u]]
     /\ UNCHANGED <<pc, memory, frames, stackStart, apiStack,
                    openUpvalues, counted>>

-----------------------------------------------------------------------------

\* wrenNewFiber() for a function without parameters.
Init ==
  /\ pc = "run"
  /\ array = 0
  /\ capacity = PowerOf2Ceil(MaxSlots + 1)
  /\ stack = << <<>> >>
  /\ frames = <<[stackStart |-> At(0), closure |-> <<>>, height |-> MaxSlots]>>
  /\ stackStart = At(0)
  /\ apiStack = None
  /\ openUpvalues = <<>>
  /\ upvalue = [u \in Upvalue |-> None]
  /\ counted = 1

Next ==
  \/ Load \/ Pop \/ NewClosure \/ ClosureDone \/ Return
  \/ \E i \in 0..MaxSlots + MaxArgs :
       StoreLocal(i) \/ StoreUpvalue(i) \/ CaptureLocal(i) \/ CaptureOuter(i)
  \/ \E n \in 1..MaxArgs : Call(n) \/ CallMethod(n)
  \/ \E d \in Data : Construct(d) \/ MethodReturns(d) \/ AllocatorReturns(d)
  \/ \E n \in MethodSlots \cup AllocatorSlots : WrenEnsureSlots(n)
  \/ CallAllocator
  \/ WildAccess
  \/ CollectGarbage

Spec == Init /\ [][Next]_vars

-----------------------------------------------------------------------------
(* Correctness.                                                            *)

Addresses == {<<a, i>> : a \in 0..array, i \in 0..capacity}

\* The variables have their types, and every slot below the top of the stack
\* has been written, but for those native code has just asked for: collecting
\* then marks whatever is in them.
TypeOK ==
  /\ pc \in {"run", "closure", "method", "allocator", "done", "crashed"}
  /\ array \in Nat /\ capacity \in Nat
  /\ stack \in Seq(Value \cup {Junk})
  /\ stackTop \in Addresses /\ stackStart \in Addresses
  /\ apiStack \in Addresses \cup {None}
  /\ frames \in Seq([stackStart : Addresses, closure : Value \ Data, height : Nat])
  /\ openUpvalues \in Seq(Upvalue)
  /\ upvalue \in [Upvalue -> [value : Addresses \cup {Closed}, closed : Value \cup {None}]
                               \cup {None}]
  /\ counted \in Nat
  /\ pc \notin {"method", "allocator"}
       => \A i \in DOMAIN stack : stack[i] # Junk

\* Whenever wrenEnsureStack() is over, the addresses kept in the VM and in the
\* fiber point into the array the stack is in by then.
NoDangling ==
  /\ \A k \in DOMAIN frames : Valid(frames[k].stackStart)
  /\ apiStack # None => Valid(apiStack)
  /\ \A k \in DOMAIN openUpvalues : Valid(upvalue[openUpvalues[k]].value)

\* No instruction goes through an address of an array that is gone.
NeverCrashes == pc # "crashed"

\* The list of open upvalues goes strictly down the stack, so each slot has at
\* most one, and stays below its top, and holds every upvalue that is not
\* closed.
OpenUpvaluesSorted ==
  /\ \A j, k \in DOMAIN openUpvalues :
       j < k => Index(upvalue[openUpvalues[k]].value) < Index(upvalue[openUpvalues[j]].value)
  /\ \A u \in Upvalue :
       upvalue[u] # None /\ upvalue[u].value # Closed
         => u \in Range(openUpvalues) /\ Index(upvalue[u].value) < Len(stack)

\* The frames follow each other up the stack, and the array holds all the slots
\* that were counted for each of them: no push is out of bounds.
FramesFit ==
  \A k \in DOMAIN frames :
    /\ Index(frames[k].stackStart) + frames[k].height <= capacity
    /\ k > 1 => Index(frames[k - 1].stackStart) < Index(frames[k].stackStart)

\* Every instruction has the effect on the height of the stack that the
\* compiler counts on, so slots below the top are the ones it means.
HeightAsCompiled == pc = "run" => Len(stack) = counted

-----------------------------------------------------------------------------
(* The stack implements the scopes: an upvalue is a box, and a slot that an *)
(* open upvalue points at is a variable that is shared.                     *)

BoxOf(i) ==
  LET at == {u \in Range(openUpvalues) : Index(upvalue[u].value) = i - 1}
  IN IF at = {} THEN None ELSE CHOOSE u \in at : TRUE

LocalOf(i) == [value |-> IF BoxOf(i) = None THEN stack[i] ELSE None, box |-> BoxOf(i)]

ScopeOf(k) ==
  LET first == Index(frames[k].stackStart)
      last == IF k = Len(frames) THEN counted ELSE Index(frames[k + 1].stackStart)
  IN [locals |-> [i \in 1..last - first |-> LocalOf(first + i)],
      captured |-> frames[k].closure]

ContentOf(u) ==
  IF upvalue[u] = None THEN None
  ELSE IF upvalue[u].value = Closed THEN upvalue[u].closed
  ELSE stack[Index(upvalue[u].value) + 1]

Contents == [u \in Upvalue |-> ContentOf(u)]
Calls == [k \in DOMAIN frames |-> ScopeOf(k)]

Scopes == INSTANCE WrenScopes WITH
  Box <- Upvalue, content <- Contents, scopes <- Calls

\* Every closure sees, and assigns, the very variable it captured, before and
\* after the scope that declared the variable is gone.
IsScopes == Scopes!Spec

=============================================================================

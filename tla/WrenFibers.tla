----------------------------- MODULE WrenFibers -----------------------------
(***************************************************************************)
(* Fibers of the Wren virtual machine: how control moves between them, and  *)
(* how the host enters and leaves the interpreter.                          *)
(*                                                                         *)
(* Everything runs on one native thread, so at most one fiber (vm->fiber)   *)
(* runs at a time.  A fiber that calls or tries another one waits in its    *)
(* `caller` link; yielding, returning and failing walk that link back.      *)
(* Transferring leaves no link at all.  The host alternates with the        *)
(* interpreter through wrenInterpret(), wrenEnsureSlots() and wrenCall().   *)
(*                                                                         *)
(* Values are left out, but for errors: a slot is only counted, to know     *)
(* whether the slot a resumed fiber takes its value from is the one the     *)
(* suspended call left for it (`skew`).                                     *)
(*                                                                         *)
(* An operator X_Y is X with the mistake Y, which a property must notice;    *)
(* the specification itself never uses it.                                  *)
(***************************************************************************)
EXTENDS Naturals

CONSTANTS
  Fiber,        (* the identities fibers are allocated from                 *)
  Error,        (* the error values a script or a primitive raises          *)
  None,         (* NULL, and the null value of `error`                      *)
  MaxFrames,    (* the deepest call stack of a fiber that is explored       *)
  UsesTransfer  (* whether scripts use transfer(), transfer(_) and          *)
                (* transferError(_), or only call, try, yield and suspend   *)

ASSUME FiberAssumption ==
  /\ None \notin Fiber
  /\ None \notin Error
  /\ Error # {}
  /\ MaxFrames \in Nat \ {0}
  /\ UsesTransfer \in BOOLEAN

VARIABLES
  pc,           (* who executes: the host, the bytecode loop, the loop of   *)
                (* runtimeError(), or nobody after undefined behaviour      *)
  fiber,        (* vm->fiber                                                *)
  apiStack,     (* the fiber whose stack vm->apiStack points into           *)
  unwinding,    (* `current` in the loop of runtimeError()                  *)
  state,        (* ObjFiber.state, or "unused" before wrenNewFiber()        *)
  numFrames,    (* ObjFiber.numFrames                                       *)
  caller,       (* ObjFiber.caller                                          *)
  error,        (* ObjFiber.error                                           *)
  skew,         (* the outermost frame of the fiber with a slot left over   *)
                (* above the result slot of a suspended call, 0 if none     *)
  entry         (* the function the host entered the interpreter by         *)

vars == <<pc, fiber, apiStack, unwinding, state, numFrames, caller, error,
          skew, entry>>

States == {"unused", "TRY", "ROOT", "OTHER"}

Init ==
  /\ pc = "host"
  /\ fiber = None
  /\ apiStack = None
  /\ unwinding = None
  /\ state = [f \in Fiber |-> "unused"]
  /\ numFrames = [f \in Fiber |-> 0]
  /\ caller = [f \in Fiber |-> None]
  /\ error = [f \in Fiber |-> None]
  /\ skew = [f \in Fiber |-> 0]
  /\ entry = "wrenInterpret"

-----------------------------------------------------------------------------
(* The interpreter loop.                                                   *)

\* wrenNewFiber(): `frames` is 1 for the frame of a closure, or 0 without one.
NewFiber(f, frames) ==
  /\ state[f] = "unused"
  /\ numFrames' = [numFrames EXCEPT ![f] = frames]

\* What the interpreter does when a primitive has returned false: stop when
\* there is no fiber any more, handle the error of the fiber, or load its
\* topmost frame, which is out of bounds when it has none.
Dispatch_IgnoresError(f, err) ==
  /\ fiber' = f
  /\ pc' = IF f = None THEN "host"
           ELSE IF numFrames[f] = 0 THEN "crashed"
           ELSE "run"
  /\ unwinding' = None

Dispatch(f, err) ==
  /\ fiber' = f
  /\ pc' = IF f = None THEN "host"
           ELSE IF err[f] # None THEN "unwind"
           ELSE IF numFrames[f] = 0 THEN "crashed"
           ELSE "run"
  /\ unwinding' = IF f # None /\ err[f] # None THEN f ELSE None

\* The fiber gives up the link to its caller.
Unhook_KeepsLink(f) == caller

Unhook(f) == [caller EXCEPT ![f] = None]

\* The topmost frame of the current fiber is discarded.
PopFrame_Twice == [numFrames EXCEPT ![fiber] = @ - 2]

PopFrame == [numFrames EXCEPT ![fiber] = @ - 1]

\* A block method or a function is called: wrenCallFunction() pushes a frame.
CallFunction ==
  /\ pc = "run"
  /\ numFrames[fiber] < MaxFrames
  /\ numFrames' = [numFrames EXCEPT ![fiber] = @ + 1]
  /\ UNCHANGED <<pc, fiber, apiStack, unwinding, state, caller, error, skew,
                 entry>>

\* CODE_RETURN pops a frame, and with it whatever was left on its part of the
\* stack.  The last frame gives control back to the caller if there is one,
\* without a look at the caller's error; else the interpreter exits and
\* wrenCall() points the API stack at the fiber that holds the result.
Return ==
  LET frames == PopFrame
      resuming == caller[fiber]
  IN
  /\ pc = "run"
  /\ numFrames' = frames
  /\ skew' = [skew EXCEPT ![fiber] = IF @ = numFrames[fiber] THEN 0 ELSE @]
  /\ \/ /\ frames[fiber] # 0
        /\ UNCHANGED <<pc, fiber, apiStack, caller>>
     \/ /\ frames[fiber] = 0
        /\ resuming # None
        /\ caller' = Unhook(fiber)
        /\ fiber' = resuming
        /\ pc' = IF frames[resuming] = 0 THEN "crashed" ELSE "run"
        /\ UNCHANGED apiStack
     \/ /\ frames[fiber] = 0
        /\ resuming = None
        /\ pc' = "host"
        /\ apiStack' = IF entry = "wrenCall" THEN fiber ELSE apiStack
        /\ UNCHANGED <<fiber, caller>>
  /\ UNCHANGED <<unwinding, state, error, entry>>

\* A primitive, a foreign method or a failed method lookup sets the error of
\* the current fiber: Fiber.abort(_), wrenAbortFiber(), RETURN_ERROR().
Abort(e) ==
  /\ pc = "run"
  /\ error' = [error EXCEPT ![fiber] = e]
  /\ Dispatch(fiber, error')
  /\ UNCHANGED <<apiStack, state, numFrames, caller, skew, entry>>

\* One turn of the loop of runtimeError(): the fiber fails with the error of
\* vm->fiber.  A fiber that was tried hands the error to its caller, which
\* resumes; any other is unhooked, and the loop goes on with its caller.
Unwind ==
  /\ pc = "unwind"
  /\ unwinding # None
  /\ error' = [error EXCEPT ![unwinding] = error[fiber]]
  /\ IF state[unwinding] = "TRY"
     THEN /\ fiber' = caller[unwinding]
          /\ unwinding' = None
          /\ pc' = IF fiber' = None \/ numFrames[fiber'] = 0
                   THEN "crashed" ELSE "run"
          /\ UNCHANGED caller
     ELSE /\ caller' = Unhook(unwinding)
          /\ unwinding' = caller[unwinding]
          /\ UNCHANGED <<pc, fiber>>
  /\ UNCHANGED <<apiStack, state, numFrames, skew, entry>>

\* runtimeError() has run off the chain of callers: nothing caught the error.
Uncaught ==
  /\ pc = "unwind"
  /\ unwinding = None
  /\ pc' = "host"
  /\ fiber' = None
  /\ apiStack' = None
  /\ UNCHANGED <<unwinding, state, numFrames, caller, error, skew, entry>>

-----------------------------------------------------------------------------
(* The primitives of class Fiber.  A value passed along is an extra slot    *)
(* above the result slot; runFiber() drops it whenever it switches.         *)

\* Fiber.new(_).
FiberNew(f) ==
  /\ pc = "run"
  /\ NewFiber(f, 1)
  /\ state' = [state EXCEPT ![f] = "OTHER"]
  /\ UNCHANGED <<pc, fiber, apiStack, unwinding, caller, error, skew, entry>>

\* The checks of runFiber(), in their order: `caller` is assigned between the
\* third and the fourth, whatever the outcome of the fourth.
CannotCall_AllowsCalled(f) == state[f] = "ROOT"
CannotCall_AllowsRoot(f) == caller[f] # None

CannotCall(f) == caller[f] # None \/ state[f] = "ROOT"

Refused(f, isCall) ==
  \/ error[f] # None
  \/ isCall /\ CannotCall(f)
  \/ numFrames[f] = 0

CallerSet(f) ==
  IF error[f] # None \/ CannotCall(f)
  THEN caller
  ELSE [caller EXCEPT ![f] = fiber]

\* call(), call(_): the callee remembers who runs it.
FiberCall(f, e) ==
  /\ pc = "run"
  /\ state[f] # "unused"
  /\ caller' = CallerSet(f)
  /\ IF Refused(f, TRUE)
     THEN /\ error' = [error EXCEPT ![fiber] = e]
          /\ Dispatch(fiber, error')
     ELSE /\ Dispatch(f, error)
          /\ UNCHANGED error
  /\ UNCHANGED <<apiStack, state, numFrames, skew, entry>>

\* try(), try(_): a call whose callee is marked once it is the current fiber.
FiberTry(f, e) ==
  /\ pc = "run"
  /\ state[f] # "unused"
  /\ caller' = CallerSet(f)
  /\ IF Refused(f, TRUE)
     THEN /\ error' = [error EXCEPT ![fiber] = e]
          /\ Dispatch(fiber, error')
          /\ UNCHANGED state
     ELSE /\ state' = [state EXCEPT ![f] = "TRY"]
          /\ Dispatch(f, error)
          /\ UNCHANGED error
  /\ UNCHANGED <<apiStack, numFrames, skew, entry>>

\* transfer(), transfer(_): no link back, and no check on the link there is.
FiberTransfer(f, e) ==
  /\ UsesTransfer
  /\ pc = "run"
  /\ state[f] # "unused"
  /\ IF Refused(f, FALSE)
     THEN /\ error' = [error EXCEPT ![fiber] = e]
          /\ Dispatch(fiber, error')
     ELSE /\ Dispatch(f, error)
          /\ UNCHANGED error
  /\ UNCHANGED <<apiStack, state, numFrames, caller, skew, entry>>

\* The fiber keeps its extra argument slot when control leaves it.
KeepsArgument == [skew EXCEPT ![fiber] = IF @ = 0 THEN numFrames[fiber] ELSE @]

\* transferError(_) overwrites the error of whichever fiber is current once
\* runFiber() is done: the target, or the caller itself if it was refused.
\* A null error then undoes the refusal, and the argument slot stays.
FiberTransferError(f, e) ==
  LET target == IF Refused(f, FALSE) THEN fiber ELSE f IN
  /\ UsesTransfer
  /\ pc = "run"
  /\ state[f] # "unused"
  /\ error' = [error EXCEPT ![target] = e]
  /\ Dispatch(target, error')
  /\ skew' = IF Refused(f, FALSE) THEN KeepsArgument ELSE skew
  /\ UNCHANGED <<apiStack, state, numFrames, caller, entry>>

\* A fiber that yields is no longer being tried.
StateOnYield_KeepsTry == state

StateOnYield == [state EXCEPT ![fiber] = "OTHER"]

\* Fiber.yield(), Fiber.yield(_): back to the caller, or out to the host if
\* there is none, in which case the argument slot is not dropped.
FiberYield(hasValue) ==
  /\ pc = "run"
  /\ caller' = Unhook(fiber)
  /\ state' = StateOnYield
  /\ skew' = IF hasValue /\ caller[fiber] = None THEN KeepsArgument ELSE skew
  /\ Dispatch(caller[fiber], error)
  /\ UNCHANGED <<apiStack, numFrames, error, entry>>

\* Fiber.suspend(): stop the interpreter and leave every fiber as it is.
FiberSuspend ==
  /\ pc = "run"
  /\ Dispatch(None, error)
  /\ apiStack' = None
  /\ UNCHANGED <<state, numFrames, caller, error, skew, entry>>

-----------------------------------------------------------------------------
(* The host.                                                               *)

\* runInterpreter() takes the fiber over as the root of the chain of callers.
\* Both of its callers have cleared the API stack.
RunInterpreter_NotRoot(f, function) ==
  /\ state' = [state EXCEPT ![f] = "OTHER"]
  /\ fiber' = f
  /\ apiStack' = None
  /\ entry' = function
  /\ pc' = "run"

RunInterpreter_KeepsApiStack(f, function) ==
  /\ state' = [state EXCEPT ![f] = "ROOT"]
  /\ fiber' = f
  /\ apiStack' = apiStack
  /\ entry' = function
  /\ pc' = "run"

RunInterpreter(f, function) ==
  /\ state' = [state EXCEPT ![f] = "ROOT"]
  /\ fiber' = f
  /\ apiStack' = None
  /\ entry' = function
  /\ pc' = "run"

\* wrenInterpret() of a source that compiles.
WrenInterpret(f) ==
  /\ pc = "host"
  /\ NewFiber(f, 1)
  /\ RunInterpreter(f, "wrenInterpret")
  /\ UNCHANGED <<unwinding, caller, error, skew>>

\* wrenEnsureSlots() makes a fiber for the API when it has no stack.
WrenEnsureSlots(f) ==
  /\ pc = "host"
  /\ apiStack = None
  /\ NewFiber(f, 0)
  /\ state' = [state EXCEPT ![f] = "OTHER"]
  /\ fiber' = f
  /\ apiStack' = f
  /\ UNCHANGED <<pc, unwinding, caller, error, skew, entry>>

\* wrenCall() pushes the frame of the call stub on vm->fiber, whose stack the
\* API slots are on, and runs it.  Nothing else of the fiber is reset.
WrenCall ==
  /\ pc = "host"
  /\ apiStack # None
  /\ numFrames' = [numFrames EXCEPT ![fiber] = @ + 1]
  /\ RunInterpreter(fiber, "wrenCall")
  /\ UNCHANGED <<unwinding, caller, error, skew>>

-----------------------------------------------------------------------------
Next ==
  \/ CallFunction
  \/ Return
  \/ \E e \in Error : Abort(e)
  \/ Unwind
  \/ Uncaught
  \/ \E f \in Fiber : FiberNew(f)
  \/ \E f \in Fiber, e \in Error : FiberCall(f, e)
  \/ \E f \in Fiber, e \in Error : FiberTry(f, e)
  \/ \E f \in Fiber, e \in Error : FiberTransfer(f, e)
  \/ \E f \in Fiber, e \in Error \cup {None} : FiberTransferError(f, e)
  \/ \E hasValue \in BOOLEAN : FiberYield(hasValue)
  \/ FiberSuspend
  \/ \E f \in Fiber : WrenInterpret(f)
  \/ \E f \in Fiber : WrenEnsureSlots(f)
  \/ WrenCall

\* The loop of runtimeError() is not preempted.
Fairness == WF_vars(Unwind) /\ WF_vars(Uncaught)

Spec == Init /\ [][Next]_vars /\ Fairness

-----------------------------------------------------------------------------
TypeOK ==
  /\ pc \in {"host", "run", "unwind", "crashed"}
  /\ fiber \in Fiber \cup {None}
  /\ apiStack \in Fiber \cup {None}
  /\ unwinding \in Fiber \cup {None}
  /\ state \in [Fiber -> States]
  /\ numFrames \in [Fiber -> Nat]
  /\ caller \in [Fiber -> Fiber \cup {None}]
  /\ error \in [Fiber -> Error \cup {None}]
  /\ skew \in [Fiber -> Nat]
  /\ entry \in {"wrenInterpret", "wrenCall"}

\* A fiber that has frames to run and has not failed.
Live(f) == numFrames[f] > 0 /\ error[f] = None

\* A fiber control will come back to: the running one, or the caller of a
\* fiber that is still live.
Awaited(g) ==
  \/ pc = "run" /\ g = fiber
  \/ \E f \in Fiber : Live(f) /\ caller[f] = g

(* What keeps control from being lost between fibers, for scripts that do   *)
(* not transfer.                                                            *)

\* Giving control back is always possible: the caller of a fiber that can
\* still finish, yield or fail has a frame to resume, has not failed, and is
\* not itself the fiber that runs (CODE_RETURN, fiber_yield, runtimeError).
CallersWait ==
  \A f \in Fiber :
    Live(f) /\ caller[f] # None =>
      /\ Live(caller[f])
      /\ pc = "run" => caller[f] # fiber

\* No two live fibers wait to give control back to the same suspended call:
\* the second one would deliver its result into the wrong expression.
OneCallee ==
  \A f, g \in Fiber :
    Live(f) /\ Live(g) /\ caller[f] = caller[g] /\ caller[f] # None => f = g

\* Only the fiber the interpreter was entered with has nobody to go back to,
\* so the check for the root fiber in runFiber() is enough to keep the chain
\* of callers from closing into a cycle.
UncalledIsRoot ==
  \A g \in Fiber : Awaited(g) /\ caller[g] = None => state[g] = "ROOT"

\* runtimeError() follows the caller of a fiber marked FIBER_TRY without a
\* test for NULL: the mark never outlives the link while the fiber is live.
TryHasCaller ==
  \A f \in Fiber :
    state[f] = "TRY" /\ (Live(f) \/ f = unwinding) => caller[f] # None

\* The interpreter never loads a frame that is not there, and runtimeError()
\* never follows a null caller.
NeverCrashes == pc # "crashed"

\* A fiber that runs has not failed: an error that was raised in a fiber is
\* never followed by more of that fiber's code.
AbortedNeverRuns == pc = "run" => error[fiber] = None

\* A fiber fails once: its error is never cleared or replaced, neither by a
\* later error of a fiber it called nor by a new attempt to run it.
ErrorIsFinal ==
  [][\A f \in Fiber : error[f] # None => error'[f] = error[f]]_vars

-----------------------------------------------------------------------------
(* What holds whatever scripts do.                                          *)

\* The assertions of callForeign() and wrenCall(): there is no API stack while
\* bytecode runs, and when the host has one it is that of the current fiber,
\* which has no frames left and nobody to return to.
ApiStackIsIdle ==
  /\ pc # "host" => apiStack = None
  /\ pc = "host" /\ apiStack # None =>
       /\ apiStack = fiber
       /\ numFrames[fiber] = 0
       /\ caller[fiber] = None

\* A fiber the host entered the interpreter with never gets a caller, so the
\* result of wrenInterpret() and wrenCall() never ends up in a script's fiber.
RootHasNoCaller == \A f \in Fiber : state[f] = "ROOT" => caller[f] = None

\* runtimeError() terminates, even if the callers form a cycle: it unhooks
\* every fiber it passes.
UnwindEnds == pc = "unwind" ~> pc # "unwind"

\* The slot a suspended fiber gets its value in is the result slot of the call
\* it is suspended in (the comments of fiber_yield1 and runFiber).
ResumeSlotAligned == \A f \in Fiber : skew[f] = 0

=============================================================================

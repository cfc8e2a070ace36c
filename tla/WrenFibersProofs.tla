-------------------------- MODULE WrenFibersProofs --------------------------
(***************************************************************************)
(* Proofs about WrenFibers, for any set of fibers, of errors and any depth  *)
(* of call stacks.                                                          *)
(*                                                                         *)
(* GInv is inductive whatever scripts do.  ChainInv, the discipline of the  *)
(* chain of callers, is inductive for scripts that do not transfer; it      *)
(* treats the fiber runtimeError() is about to abort like a live one, since *)
(* its link has not been given up yet.                                      *)
(***************************************************************************)
EXTENDS WrenFibers, TLAPS

RunningHasFrames == pc = "run" => fiber \in Fiber /\ numFrames[fiber] > 0

UnwindHasFiber ==
  /\ pc = "unwind" => fiber \in Fiber
  /\ unwinding # None => pc = "unwind"

HostIdle ==
  /\ pc # "host" => apiStack = None
  /\ apiStack # None => apiStack = fiber
  /\ pc = "host" /\ fiber # None => numFrames[fiber] = 0 /\ caller[fiber] = None

UnusedIsBlank ==
  \A f \in Fiber :
    state[f] = "unused" =>
      /\ numFrames[f] = 0 /\ caller[f] = None /\ error[f] = None
      /\ f # fiber /\ f # unwinding
      /\ \A g \in Fiber : caller[g] # f

GInv ==
  /\ TypeOK
  /\ RunningHasFrames
  /\ UnwindHasFiber
  /\ HostIdle
  /\ UnusedIsBlank
  /\ RootHasNoCaller

\* GInv holds initially and every step of the machine keeps it.
LEMMA GInvInit == Init => GInv
  BY FiberAssumption
  DEF Init, GInv, TypeOK, States, RunningHasFrames, UnwindHasFiber, HostIdle,
      UnusedIsBlank, RootHasNoCaller

LEMMA GInvStep == GInv /\ [Next]_vars => GInv'
<1> SUFFICES ASSUME GInv, [Next]_vars
             PROVE  GInv'
  OBVIOUS
<1> USE FiberAssumption
    DEF Unhook, PopFrame, StateOnYield, RunInterpreter, GInv, TypeOK, States, RunningHasFrames, UnwindHasFiber, HostIdle,
        UnusedIsBlank, RootHasNoCaller
<1>1. CASE CallFunction
  BY <1>1 DEF CallFunction
<1>2. CASE Return
  BY <1>2 DEF Return
<1>3. ASSUME NEW e \in Error, Abort(e)
      PROVE  GInv'
  BY <1>3 DEF Abort, Dispatch
<1>4. CASE Unwind
  BY <1>4 DEF Unwind
<1>5. CASE Uncaught
  BY <1>5 DEF Uncaught
<1>6. ASSUME NEW f \in Fiber, FiberNew(f)
      PROVE  GInv'
  BY <1>6 DEF FiberNew, NewFiber
<1>7. ASSUME NEW f \in Fiber, NEW e \in Error, FiberCall(f, e)
      PROVE  GInv'
  BY <1>7 DEF FiberCall, CallerSet, CannotCall, Refused, Dispatch
<1>8. ASSUME NEW f \in Fiber, NEW e \in Error, FiberTry(f, e)
      PROVE  GInv'
  BY <1>8 DEF FiberTry, CallerSet, CannotCall, Refused, Dispatch
<1>9. ASSUME NEW f \in Fiber, NEW e \in Error, FiberTransfer(f, e)
      PROVE  GInv'
  BY <1>9 DEF FiberTransfer, Refused, Dispatch
<1>10. ASSUME NEW f \in Fiber, NEW e \in Error \cup {None},
              FiberTransferError(f, e)
       PROVE  GInv'
  BY <1>10 DEF FiberTransferError, Refused, Dispatch, KeepsArgument
<1>11. ASSUME NEW hasValue \in BOOLEAN, FiberYield(hasValue)
       PROVE  GInv'
  BY <1>11 DEF FiberYield, Dispatch, KeepsArgument
<1>12. CASE FiberSuspend
  BY <1>12 DEF FiberSuspend, Dispatch
<1>13. ASSUME NEW f \in Fiber, WrenInterpret(f)
       PROVE  GInv'
  BY <1>13 DEF WrenInterpret, NewFiber
<1>14. ASSUME NEW f \in Fiber, WrenEnsureSlots(f)
       PROVE  GInv'
  BY <1>14 DEF WrenEnsureSlots, NewFiber
<1>15. CASE WrenCall
  BY <1>15 DEF WrenCall
<1>16. CASE UNCHANGED vars
  BY <1>16 DEF vars
<1>17. QED
  BY <1>1, <1>2, <1>3, <1>4, <1>5, <1>6, <1>7, <1>8, <1>9, <1>10, <1>11,
     <1>12, <1>13, <1>14, <1>15, <1>16 DEF Next

\* Every variable keeps its type, with and without transfers.
THEOREM TypeCorrect == Spec => []TypeOK
<1>1. GInv => TypeOK
  BY DEF GInv
<1>2. QED
  BY <1>1, GInvInit, GInvStep, PTL DEF Spec

\* The API stack is NULL while bytecode runs, and otherwise that of a fiber
\* with nothing left to run.
THEOREM ApiStackCorrect == Spec => []ApiStackIsIdle
<1>1. GInv => ApiStackIsIdle
  BY FiberAssumption DEF GInv, HostIdle, ApiStackIsIdle
<1>2. QED
  BY <1>1, GInvInit, GInvStep, PTL DEF Spec

\* A root fiber is never called.
THEOREM RootCorrect == Spec => []RootHasNoCaller
<1>1. GInv => RootHasNoCaller
  BY DEF GInv
<1>2. QED
  BY <1>1, GInvInit, GInvStep, PTL DEF Spec

-----------------------------------------------------------------------------
(* The chain of callers, for scripts that do not transfer.                 *)

\* A fiber that holds on to its link: a live one, and the one runtimeError()
\* has come to.
Linked(f) == Live(f) \/ f = unwinding

LinkedCallersWait ==
  \A f \in Fiber :
    Linked(f) /\ caller[f] # None =>
      /\ Live(caller[f])
      /\ pc = "run" => caller[f] # fiber
      /\ caller[f] # unwinding

LinkedOneCallee ==
  \A f, g \in Fiber :
    Linked(f) /\ Linked(g) /\ caller[f] = caller[g] /\ caller[f] # None => f = g

LinkedUncalledIsRoot ==
  \A g \in Fiber :
    \/ pc = "run" /\ g = fiber
    \/ g = unwinding
    \/ \E f \in Fiber : Linked(f) /\ caller[f] = g
    => (caller[g] = None => state[g] = "ROOT")

LinkedTryHasCaller ==
  \A f \in Fiber : Linked(f) /\ state[f] = "TRY" => caller[f] # None

\* Who runs, or whose error is being handled, and which fibers have failed.
ErrorsAreFresh ==
  /\ pc = "run" => error[fiber] = None
  /\ pc = "unwind" => error[fiber] # None
  /\ unwinding # None /\ unwinding # fiber => Live(unwinding)
  /\ unwinding # None => numFrames[unwinding] > 0
  /\ pc = "host" /\ fiber # None => error[fiber] = None

ChainInv ==
  /\ GInv
  /\ LinkedCallersWait
  /\ LinkedOneCallee
  /\ LinkedUncalledIsRoot
  /\ LinkedTryHasCaller
  /\ ErrorsAreFresh
  /\ NeverCrashes

LEMMA ChainInit == Init => ChainInv
  BY FiberAssumption, GInvInit
  DEF Init, ChainInv, LinkedCallersWait, LinkedOneCallee,
      LinkedUncalledIsRoot, LinkedTryHasCaller, ErrorsAreFresh, NeverCrashes,
      Linked, Live

LEMMA ChainStep == ~UsesTransfer /\ ChainInv /\ [Next]_vars => ChainInv'
<1> SUFFICES ASSUME ~UsesTransfer, ChainInv, [Next]_vars
             PROVE  ChainInv'
  OBVIOUS
<1>0. GInv'
  BY GInvStep DEF ChainInv
<1> USE <1>0, FiberAssumption
    DEF Unhook, PopFrame, StateOnYield, RunInterpreter, ChainInv, GInv, TypeOK, States, RunningHasFrames, UnwindHasFiber,
        HostIdle, UnusedIsBlank, LinkedCallersWait, LinkedOneCallee,
        LinkedUncalledIsRoot, LinkedTryHasCaller, ErrorsAreFresh,
        NeverCrashes, Linked, Live
<1>1. CASE CallFunction
  BY <1>1 DEF CallFunction
<1>2. CASE Return
  BY <1>2 DEF Return
<1>3. ASSUME NEW e \in Error, Abort(e)
      PROVE  ChainInv'
  BY <1>3 DEF Abort, Dispatch
<1>4. CASE Unwind
  BY <1>4 DEF Unwind
<1>5. CASE Uncaught
  BY <1>5 DEF Uncaught
<1>6. ASSUME NEW f \in Fiber, FiberNew(f)
      PROVE  ChainInv'
  BY <1>6 DEF FiberNew, NewFiber
<1>7. ASSUME NEW f \in Fiber, NEW e \in Error, FiberCall(f, e)
      PROVE  ChainInv'
  BY <1>7 DEF FiberCall, CallerSet, CannotCall, Refused, Dispatch
<1>8. ASSUME NEW f \in Fiber, NEW e \in Error, FiberTry(f, e)
      PROVE  ChainInv'
  BY <1>8 DEF FiberTry, CallerSet, CannotCall, Refused, Dispatch
<1>9. ASSUME NEW f \in Fiber, NEW e \in Error \cup {None},
             FiberTransfer(f, e) \/ FiberTransferError(f, e)
      PROVE  ChainInv'
  BY <1>9 DEF FiberTransfer, FiberTransferError
<1>10. ASSUME NEW hasValue \in BOOLEAN, FiberYield(hasValue)
       PROVE  ChainInv'
  BY <1>10 DEF FiberYield, Dispatch
<1>11. CASE FiberSuspend
  BY <1>11 DEF FiberSuspend, Dispatch
<1>12. ASSUME NEW f \in Fiber, WrenInterpret(f)
       PROVE  ChainInv'
  BY <1>12 DEF WrenInterpret, NewFiber
<1>13. ASSUME NEW f \in Fiber, WrenEnsureSlots(f)
       PROVE  ChainInv'
  BY <1>13 DEF WrenEnsureSlots, NewFiber
<1>14. CASE WrenCall
  BY <1>14 DEF WrenCall
<1>15. CASE UNCHANGED vars
  BY <1>15 DEF vars
<1>16. QED
  BY <1>1, <1>2, <1>3, <1>4, <1>5, <1>6, <1>7, <1>8, <1>9, <1>10, <1>11,
     <1>12, <1>13, <1>14, <1>15 DEF Next

\* The discipline holds at every moment of every run without transfers.
LEMMA ChainCorrect ==
  ASSUME ~UsesTransfer
  PROVE  Spec => []ChainInv
<1>1. ChainInv /\ [Next]_vars => ChainInv'
  BY ChainStep
<1>2. QED
  BY <1>1, ChainInit, PTL DEF Spec

\* Control can always be given back: callers have a frame and no error.
THEOREM CallersWaitCorrect ==
  ASSUME ~UsesTransfer
  PROVE  Spec => []CallersWait
<1>1. ChainInv => CallersWait
  BY DEF ChainInv, LinkedCallersWait, CallersWait, Linked
<1>2. QED
  BY <1>1, ChainCorrect, PTL

\* A suspended call is resumed by one fiber only.
THEOREM OneCalleeCorrect ==
  ASSUME ~UsesTransfer
  PROVE  Spec => []OneCallee
<1>1. ChainInv => OneCallee
  BY DEF ChainInv, LinkedOneCallee, OneCallee, Linked
<1>2. QED
  BY <1>1, ChainCorrect, PTL

\* Only the root of the chain of callers has nobody to go back to.
THEOREM UncalledCorrect ==
  ASSUME ~UsesTransfer
  PROVE  Spec => []UncalledIsRoot
<1>1. ChainInv => UncalledIsRoot
  BY DEF ChainInv, LinkedUncalledIsRoot, UncalledIsRoot, Awaited, Linked
<1>2. QED
  BY <1>1, ChainCorrect, PTL

\* A fiber marked FIBER_TRY always has the caller that tried it.
THEOREM TryCorrect ==
  ASSUME ~UsesTransfer
  PROVE  Spec => []TryHasCaller
<1>1. ChainInv => TryHasCaller
  BY DEF ChainInv, LinkedTryHasCaller, TryHasCaller, Linked
<1>2. QED
  BY <1>1, ChainCorrect, PTL

\* No frame is loaded that is not there and no null caller is followed, and no
\* code of a fiber runs after an error in it.
THEOREM NeverCrashesCorrect ==
  ASSUME ~UsesTransfer
  PROVE  Spec => [](NeverCrashes /\ AbortedNeverRuns)
<1>1. ChainInv => NeverCrashes /\ AbortedNeverRuns
  BY DEF ChainInv, ErrorsAreFresh, AbortedNeverRuns
<1>2. QED
  BY <1>1, ChainCorrect, PTL

\* The error of a fiber is never cleared or replaced.
THEOREM ErrorIsFinalCorrect ==
  ASSUME ~UsesTransfer
  PROVE  Spec => ErrorIsFinal
<1> DEFINE Step == \A f \in Fiber : error[f] # None => error'[f] = error[f]
<1>1. ChainInv /\ [Next]_vars => [Step]_vars
  <2> SUFFICES ASSUME ChainInv, Next, NEW f \in Fiber, error[f] # None
               PROVE  error'[f] = error[f]
    BY DEF vars
  <2> USE DEF ChainInv, GInv, TypeOK, ErrorsAreFresh, RunningHasFrames,
              UnwindHasFiber, Live
  <2>1. ASSUME NEW e \in Error, Abort(e)
        PROVE  error'[f] = error[f]
    BY <2>1 DEF Abort
  <2>2. CASE Unwind
    BY <2>2, FiberAssumption DEF Unwind
  <2>3. ASSUME NEW g \in Fiber, NEW e \in Error, FiberCall(g, e) \/ FiberTry(g, e)
        PROVE  error'[f] = error[f]
    BY <2>3 DEF FiberCall, FiberTry
  <2>4. QED
    BY <2>1, <2>2, <2>3
    DEF Next, CallFunction, Return, Uncaught, FiberNew, FiberTransfer,
        FiberTransferError, FiberYield, FiberSuspend, WrenInterpret,
        WrenEnsureSlots, WrenCall
<1>2. QED
  BY <1>1, ChainInit, ChainStep, PTL DEF Spec, ErrorIsFinal

=============================================================================

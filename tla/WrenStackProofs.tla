-------------------------- MODULE WrenStackProofs ---------------------------
(***************************************************************************)
(* Proofs about WrenStack, for any functions, depth of calls and requests   *)
(* of native code.                                                          *)
(*                                                                         *)
(* The inductive invariant is in four parts: the types of the variables     *)
(* (Shape), how the frames lie on the array (Laid), what the list of open   *)
(* upvalues has to do with the stack (Linked), and that what a closure      *)
(* refers to was not collected (Alive).  A foreign method or allocator that *)
(* makes the stack move breaks none of these; the local variable stackStart *)
(* of the interpreter is not among the addresses they call valid.           *)
(*                                                                         *)
(* What is in the slots, and their number, comes after.  Native code that   *)
(* asks for more slots leaves Junk in them.  A method's are gone when it    *)
(* returns; an allocator's stay, because CODE_FOREIGN_CONSTRUCT does not    *)
(* reset the top of the stack.  So the theorems on the height and the       *)
(* contents of the stack assume that allocators are content with the slot   *)
(* they have (Modest), and the one on the local variable stackStart that no *)
(* native code makes the stack move (Still).                                *)
(***************************************************************************)
EXTENDS WrenStack, WrenNumbers, SequenceTheorems

Content == Value \cup {Junk}
Address == Nat \X Nat
FrameType == [stackStart : Address, closure : Closure, height : Nat]
OpenOrClosed == [value : Address, closed : {None}] \cup [value : {Closed}, closed : Content]

Shape ==
  /\ pc \in {"run", "closure", "method", "allocator", "done", "crashed"}
  /\ array \in Nat /\ capacity \in Nat /\ counted \in Int
  /\ stack \in Seq(Content)
  /\ frames \in Seq(FrameType)
  /\ stackStart \in Address /\ stackStart[1] <= array
  /\ apiStack \in Address \cup {None}
  /\ openUpvalues \in Seq(Upvalue)
  /\ upvalue \in [Upvalue -> OpenOrClosed \cup {None}]

\* The frames stand on the array, the running one on top, and a fiber without
\* frames is done; native code has its own window on the running frame.
Laid ==
  /\ frames = <<>> <=> pc = "done"
  /\ frames # <<>> => /\ Index(frames[1].stackStart) = 0
                      /\ Index(Frame.stackStart) < Len(stack)
                      /\ Index(stackStart) = Index(Frame.stackStart)
  /\ Len(stack) > 0 /\ Len(stack) <= capacity
  /\ FramesFit
  /\ \A k \in DOMAIN frames : Valid(frames[k].stackStart)
  /\ pc = "closure" => Height >= 2 /\ Peek \in Closure
  /\ pc \in {"method", "allocator"} <=> apiStack # None
  /\ apiStack # None => /\ Valid(apiStack)
                        /\ Index(apiStack) < Len(stack)
                        /\ Index(apiStack) >= Index(Frame.stackStart)

Points(u) ==
  /\ upvalue[u] # None
  /\ Valid(upvalue[u].value)
  /\ Index(upvalue[u].value) \in 0..Len(stack) - 1

\* The open upvalues point into the stack, and not at the slots that native
\* code is about to discard.
Linked ==
  /\ OpenUpvaluesSorted
  /\ \A k \in DOMAIN openUpvalues :
       /\ Points(openUpvalues[k])
       /\ pc = "method" => Index(upvalue[openUpvalues[k]].value) < Index(apiStack)

Live == {u \in Upvalue : upvalue[u] # None}

Alive ==
  /\ \A i \in DOMAIN stack : UpvaluesOf(stack[i]) \subseteq Live
  /\ \A k \in DOMAIN frames : Range(frames[k].closure) \subseteq Live
  /\ \A u \in Live : UpvaluesOf(upvalue[u].closed) \subseteq Live

IInv == Shape /\ Laid /\ Linked /\ Alive

-----------------------------------------------------------------------------
(* Lemmas.                                                                  *)

\* wrenPowerOf2Ceil() returns a number that is large enough, so the stack is.
LEMMA GrowsEnough ==
  ASSUME array \in Nat, capacity \in Nat, NEW n \in Nat \ {0}, EnsureStack(n)
  PROVE  /\ array' \in Nat /\ capacity' \in Nat
         /\ array <= array'
         /\ capacity <= capacity' /\ n <= capacity'
<1>1. CASE capacity >= n
  BY <1>1 DEF EnsureStack
<1>2. CASE capacity < n
  <2> DEFINE Powers == {2^k : k \in 0..n}
  <2>1. Powers \subseteq Nat
    BY PowerOf2Type
  <2>2. \E p \in Powers : p >= n /\ p < 2 * n
    BY PowerOf2Above
  <2>3. PowerOf2Ceil(n) \in Powers /\ PowerOf2Ceil(n) >= n
    <3>1. PowerOf2Ceil(n) = CHOOSE p \in Powers : p >= n /\ p < 2 * n
      BY DEF PowerOf2Ceil
    <3> HIDE DEF Powers
    <3>. QED  BY <2>2, <3>1
  <2>4. capacity' \in Nat /\ capacity' >= n
    BY <1>2, <2>1, <2>3 DEF EnsureStack
  <2>5. array' \in {array, array + 1}
    BY <1>2 DEF EnsureStack
  <2>. QED  BY <1>2, <2>4, <2>5
<1>. QED
  BY <1>1, <1>2

\* The closures among what a slot may hold are the sequences of upvalues.
LEMMA Closures ==
  /\ \A v \in Content : IsClosure(v) <=> v \in Closure
  /\ ~IsClosure(None)
  /\ \A c \in Closure : c \in Seq(Upvalue) /\ Len(c) \in 0..MaxCaptures
  /\ \A c \in Seq(Upvalue) : Len(c) \in 0..MaxCaptures => c \in Closure
  /\ \A c \in Closure : \A i \in DOMAIN c : c[i] \in Range(c)
  /\ <<>> \in Closure
<1>1. \A c \in Closure : c \in Seq(Upvalue) /\ Len(c) \in 0..MaxCaptures
  <2>1. ASSUME NEW n \in 0..MaxCaptures, NEW c \in [1..n -> Upvalue]
        PROVE  c \in Seq(Upvalue) /\ Len(c) \in 0..MaxCaptures
    <3>1. n \in Nat
      BY StackAssumption
    <3>2. c \in Seq(Upvalue)
      BY <3>1, SeqDef
    <3>3. DOMAIN c = 1..n /\ DOMAIN c = 1..Len(c) /\ Len(c) \in Nat
      BY <3>2, LenProperties
    <3>. QED  BY <3>1, <3>2, <3>3
  <2>. QED  BY <2>1 DEF Closure
<1>2. \A c \in Seq(Upvalue) : Len(c) \in 0..MaxCaptures => c \in Closure
  BY LenProperties DEF Closure
<1>3. <<>> \in Closure
  <2>1. <<>> \in Seq(Upvalue) /\ Len(<<>>) = 0
    BY EmptySeq
  <2>2. 0 \in 0..MaxCaptures
    BY StackAssumption
  <2>. QED  BY <1>2, <2>1, <2>2
<1>4. /\ \A v \in Content : IsClosure(v) <=> v \in Closure
      /\ ~IsClosure(None)
  BY StackAssumption DEF IsClosure, Content, Value
<1>5. \A c \in Closure : \A i \in DOMAIN c : c[i] \in Range(c)
  BY DEF Range
<1>. QED
  BY <1>1, <1>2, <1>3, <1>4, <1>5

\* Appending an upvalue to a closure that is not full makes a closure.
LEMMA AppendUpvalue ==
  ASSUME NEW c \in Closure, NEW u \in Upvalue, Len(c) < MaxCaptures
  PROVE  /\ Append(c, u) \in Closure
         /\ UpvaluesOf(Append(c, u)) = UpvaluesOf(c) \cup {u}
<1>1. c \in Seq(Upvalue) /\ Len(c) \in Nat
  BY Closures, StackAssumption
<1>2. /\ Append(c, u) \in Seq(Upvalue) /\ Len(Append(c, u)) = Len(c) + 1
      /\ \A i \in 1..Len(c) : Append(c, u)[i] = c[i]
      /\ Append(c, u)[Len(c) + 1] = u
  BY <1>1, AppendProperties
<1>3. Append(c, u) \in Closure
  <2>1. Len(c) + 1 \in 0..MaxCaptures
    BY <1>1, StackAssumption
  <2>. QED  BY <1>2, <2>1, Closures
<1>4. IsClosure(c) /\ IsClosure(Append(c, u))
  BY <1>3, Closures DEF Content, Value
<1>5. Range(Append(c, u)) = Range(c) \cup {u}
  <2>1. DOMAIN c = 1..Len(c) /\ DOMAIN Append(c, u) = 1..Len(c) + 1
    BY <1>1, <1>2, LenProperties
  <2>. QED  BY <1>1, <1>2, <2>1 DEF Range
<1>. QED
  BY <1>3, <1>4, <1>5 DEF UpvaluesOf

\* What InsertAt() of SequencesExt does.
LEMMA InsertedAt ==
  ASSUME NEW s \in Seq(Upvalue), NEW p \in 1..Len(s) + 1, NEW x \in Upvalue
  PROVE  /\ InsertAt(s, p, x) \in Seq(Upvalue)
         /\ Len(InsertAt(s, p, x)) = Len(s) + 1
         /\ \A k \in 1..Len(s) + 1 :
              InsertAt(s, p, x)[k] = IF k < p THEN s[k] ELSE IF k = p THEN x ELSE s[k - 1]
<1> DEFINE before == SubSeq(s, 1, p - 1)
           after == SubSeq(s, p, Len(s))
<1>1. Len(s) \in Nat
  BY LenProperties
<1>2. /\ before \in Seq(Upvalue) /\ Len(before) = p - 1
      /\ \A k \in 1..p - 1 : before[k] = s[k]
  BY <1>1, SubSeqProperties
<1>3. /\ after \in Seq(Upvalue) /\ Len(after) = Len(s) - p + 1
      /\ \A k \in 1..Len(s) - p + 1 : after[k] = s[p + k - 1]
  BY <1>1, SubSeqProperties
<1> HIDE DEF before, after
<1>4. <<x>> \in Seq(Upvalue) /\ Len(<<x>>) = 1 /\ <<x>>[1] = x
  OBVIOUS
<1>5. /\ before \o <<x>> \in Seq(Upvalue) /\ Len(before \o <<x>>) = p
      /\ \A k \in 1..p : (before \o <<x>>)[k] = IF k < p THEN s[k] ELSE x
  BY <1>1, <1>2, <1>4, ConcatProperties
<1>6. /\ (before \o <<x>>) \o after \in Seq(Upvalue)
      /\ Len((before \o <<x>>) \o after) = Len(s) + 1
      /\ \A k \in 1..Len(s) + 1 : ((before \o <<x>>) \o after)[k]
                                   = IF k < p THEN s[k] ELSE IF k = p THEN x ELSE s[k - 1]
  <2> DEFINE b == before \o <<x>>
             whole == b \o after
  <2>1. b \in Seq(Upvalue) /\ Len(b) = p /\ \A k \in 1..p : b[k] = IF k < p THEN s[k] ELSE x
    BY <1>5
  <2> HIDE DEF b
  <2>2. /\ whole \in Seq(Upvalue) /\ Len(whole) = Len(b) + Len(after)
        /\ \A k \in 1..Len(b) + Len(after) :
             whole[k] = IF k <= Len(b) THEN b[k] ELSE after[k - Len(b)]
    BY <1>3, <2>1, ConcatProperties
  <2> HIDE DEF whole
  <2>3. Len(whole) = Len(s) + 1
    BY <1>1, <1>3, <2>1, <2>2
  <2>4. ASSUME NEW k \in 1..Len(s) + 1
        PROVE  whole[k] = IF k < p THEN s[k] ELSE IF k = p THEN x ELSE s[k - 1]
    <3>1. CASE k <= p
      BY <1>1, <1>3, <2>1, <2>2, <3>1
    <3>2. CASE k > p
      <4>1. k - p \in 1..Len(s) - p + 1 /\ p + (k - p) - 1 = k - 1
        BY <1>1, <3>2
      <4>2. whole[k] = after[k - p] /\ after[k - p] = s[k - 1]
        BY <1>1, <1>3, <2>1, <2>2, <3>2, <4>1
      <4>. QED  BY <1>1, <3>2, <4>2
    <3>. QED  BY <1>1, <3>1, <3>2
  <2>. QED  BY <2>2, <2>3, <2>4 DEF whole, b
<1>. QED
  BY <1>6 DEF InsertAt, before, after

\* closeUpvalues() closes the upvalues at or above `last`, and no others.
LEMMA ClosesTop ==
  ASSUME IInv, NEW last \in Address
  PROVE  \E m \in 0..Len(openUpvalues) :
           /\ Closing(last) = 1..m
           /\ StillOpen(last) \in Seq(Upvalue)
           /\ Len(StillOpen(last)) = Len(openUpvalues) - m
           /\ \A k \in 1..Len(openUpvalues) - m :
                /\ StillOpen(last)[k] = openUpvalues[m + k]
                /\ Index(upvalue[openUpvalues[m + k]].value) < Index(last)
           /\ \A k \in 1..m : Index(upvalue[openUpvalues[k]].value) >= Index(last)
<1> DEFINE n == Len(openUpvalues)
           Spot(k) == Index(upvalue[openUpvalues[k]].value)
           Below == {k \in 1..n : Spot(k) < Index(last)}
           First == {k \in 1..n + 1 : k = n + 1 \/ k \in Below}
<1>1. openUpvalues \in Seq(Upvalue) /\ n \in Nat /\ DOMAIN openUpvalues = 1..n
  BY LenProperties DEF IInv, Shape
<1>2. \A k \in 1..n : Spot(k) \in Int
  BY <1>1 DEF IInv, Linked, Points
<1>3. \A j, k \in 1..n : j < k => Spot(k) < Spot(j)
  BY <1>1 DEF IInv, Linked, OpenUpvaluesSorted
<1>4. Index(last) \in Nat
  BY DEF Index, Address
<1> HIDE DEF Spot
<1>5. PICK f \in First : \A k \in First : f <= k
  <2>1. First \in SUBSET Nat /\ n + 1 \in First
    BY <1>1
  <2> HIDE DEF First
  <2>. QED  BY <2>1, LeastExists
<1>6. \A k \in 1..f - 1 : Spot(k) >= Index(last)
  BY <1>1, <1>2, <1>4, <1>5
<1>7. \A k \in f..n : Spot(k) < Index(last)
  BY <1>1, <1>2, <1>3, <1>4, <1>5
<1>8. Closing(last) = 1..f - 1
  <2>1. \A k \in 1..n : Above(openUpvalues[k], last) <=> Spot(k) >= Index(last)
    BY DEF Above, Spot
  <2>2. Closing(last) = {k \in 1..n : \A j \in 1..k : Above(openUpvalues[j], last)}
    BY <1>1 DEF Closing
  <2>3. f \in 1..n + 1
    BY <1>1, <1>5
  <2>4. ASSUME NEW k \in 1..n
        PROVE  (\A j \in 1..k : Above(openUpvalues[j], last)) <=> k <= f - 1
    <3>1. CASE k <= f - 1
      BY <1>1, <1>6, <2>1, <2>3, <3>1
    <3>2. CASE k >= f
      <4>1. f \in 1..k /\ f \in 1..n /\ f \in f..n
        BY <1>1, <2>3, <3>2
      <4>2. ~Above(openUpvalues[f], last)
        BY <1>2, <1>4, <1>7, <2>1, <4>1
      <4>. QED  BY <3>2, <4>1, <4>2, <2>3
    <3>. QED  BY <3>1, <3>2, <2>3
  <2>. QED  BY <1>1, <2>2, <2>3, <2>4
<1>9. Cardinality(Closing(last)) = f - 1
  BY <1>1, <1>5, <1>8, FS_Interval
<1>10. /\ StillOpen(last) = SubSeq(openUpvalues, f, n)
  BY <1>1, <1>5, <1>9 DEF StillOpen
<1>11. /\ StillOpen(last) \in Seq(Upvalue)
       /\ Len(StillOpen(last)) = n - (f - 1)
       /\ \A k \in 1..n - (f - 1) : StillOpen(last)[k] = openUpvalues[(f - 1) + k]
  BY <1>1, <1>5, <1>10, SubSeqProperties
<1>12. f - 1 \in 0..n
  BY <1>1, <1>5
<1>13. \A k \in 1..n - (f - 1) : Spot((f - 1) + k) < Index(last)
  BY <1>1, <1>5, <1>7
<1> WITNESS f - 1 \in 0..Len(openUpvalues)
<1>. QED
  BY <1>6, <1>8, <1>11, <1>13 DEF Spot

\* The running frame.
LEMMA TopFrame ==
  ASSUME IInv, pc # "done"
  PROVE  /\ Len(frames) \in Nat \ {0} /\ DOMAIN frames = 1..Len(frames)
         /\ Frame \in FrameType
         /\ Frame.stackStart = At(Index(Frame.stackStart))
         /\ Index(Frame.stackStart) \in Nat
         /\ Frame.closure \in Closure /\ Range(Frame.closure) \subseteq Live
         /\ Frame.height \in Nat
         /\ Index(Frame.stackStart) + Frame.height <= capacity
         /\ Index(stackStart) = Index(Frame.stackStart)
         /\ Len(stack) \in Nat \ {0} /\ DOMAIN stack = 1..Len(stack)
         /\ Height \in Nat \ {0}
<1>1. /\ Len(frames) \in Nat \ {0} /\ DOMAIN frames = 1..Len(frames)
      /\ Frame \in FrameType
  <2>1. frames \in Seq(FrameType) /\ frames # <<>>
    BY DEF IInv, Shape, Laid
  <2>2. Len(frames) \in Nat \ {0} /\ DOMAIN frames = 1..Len(frames)
    BY <2>1, LenProperties, EmptySeq
  <2>3. Len(frames) \in 1..Len(frames)
    BY <2>2
  <2>. QED  BY <2>1, <2>2, <2>3, ElementOfSeq DEF Frame
<1>2. Len(stack) \in Nat \ {0} /\ DOMAIN stack = 1..Len(stack)
  BY LenProperties DEF IInv, Shape, Laid
<1>3. Len(frames) \in DOMAIN frames /\ frames # <<>>
  BY <1>1 DEF IInv, Laid
<1>4. /\ Valid(Frame.stackStart)
      /\ Index(Frame.stackStart) + Frame.height <= capacity
      /\ Index(stackStart) = Index(Frame.stackStart)
      /\ Index(Frame.stackStart) < Len(stack)
      /\ Range(Frame.closure) \subseteq Live
  BY <1>3 DEF IInv, Laid, Alive, FramesFit, Frame
<1>5. /\ Frame.stackStart \in Nat \X Nat /\ Frame.closure \in Closure
      /\ Frame.height \in Nat
  BY <1>1 DEF FrameType, Address
<1>6. Frame.stackStart = At(Index(Frame.stackStart)) /\ Index(Frame.stackStart) \in Nat
  BY <1>4, <1>5 DEF At, Index, Valid
<1>7. Height \in Nat \ {0}
  BY <1>2, <1>4, <1>6 DEF Height
<1>. QED
  BY <1>1, <1>2, <1>4, <1>5, <1>6, <1>7

\* What is in a slot can be put into another one.
LEMMA SlotValue ==
  ASSUME IInv, NEW i \in 1..Len(stack)
  PROVE  stack[i] \in Content /\ UpvaluesOf(stack[i]) \subseteq Live
<1>1. stack \in Seq(Content)
  BY DEF IInv, Shape
<1>2. DOMAIN stack = 1..Len(stack)
  BY <1>1, LenProperties
<1>. QED
  BY <1>1, <1>2, ElementOfSeq DEF IInv, Alive

\* What a variable captured by the running function holds, and where.
LEMMA CapturedValue ==
  ASSUME IInv, NEW u \in Live
  PROVE  /\ upvalue[u] \in OpenOrClosed /\ u \in Upvalue
         /\ upvalue[u].value = Closed =>
              /\ upvalue[u].closed \in Content
              /\ UpvaluesOf(upvalue[u].closed) \subseteq Live
         /\ upvalue[u].value # Closed =>
              /\ u \in Range(openUpvalues)
              /\ upvalue[u].value = At(Index(upvalue[u].value))
              /\ Index(upvalue[u].value) \in 0..Len(stack) - 1
<1>1. upvalue[u] \in OpenOrClosed /\ u \in Upvalue /\ upvalue[u] # None
  BY DEF Live, IInv, Shape
<1>2. UpvaluesOf(upvalue[u].closed) \subseteq Live
  BY DEF IInv, Alive
<1>3. ASSUME upvalue[u].value # Closed
      PROVE  /\ u \in Range(openUpvalues)
             /\ upvalue[u].value = At(Index(upvalue[u].value))
             /\ Index(upvalue[u].value) \in 0..Len(stack) - 1
  <2>1. u \in Range(openUpvalues)
    BY <1>1, <1>3 DEF IInv, Linked, OpenUpvaluesSorted
  <2>2. Points(u)
    BY <2>1 DEF IInv, Linked, Range
  <2>3. upvalue[u].value \in Nat \X Nat
    BY <1>1, <1>3 DEF OpenOrClosed, Address
  <2>. QED  BY <2>1, <2>2, <2>3 DEF Points, Valid, At, Index
<1>4. upvalue[u].value = Closed => upvalue[u].closed \in Content
  BY <1>1 DEF OpenOrClosed, Closed, Address
<1>. QED
  BY <1>1, <1>2, <1>3, <1>4

-----------------------------------------------------------------------------
(* Steps that write one slot or push one.                                   *)

LEMMA WriteKeeps ==
  ASSUME IInv, NEW i \in 1..Len(stack), NEW v \in Content,
         UpvaluesOf(v) \subseteq Live,
         stack' = [stack EXCEPT ![i] = v],
         UNCHANGED <<array, capacity, frames, stackStart, openUpvalues, upvalue>>,
         counted' \in Int,
         \/ /\ UNCHANGED <<pc, apiStack>>
            /\ pc = "closure" => v \in Closure \/ i < Len(stack)
         \/ pc \in {"run", "allocator"} /\ pc' = "run" /\ apiStack' = None
  PROVE  IInv'
<1>1. /\ stack' \in Seq(Content) /\ Len(stack') = Len(stack)
      /\ \A j \in 1..Len(stack) : stack'[j] = IF j = i THEN v ELSE stack[j]
  BY ExceptSeq DEF IInv, Shape
<1>2. Len(stack) \in Nat /\ DOMAIN stack = 1..Len(stack) /\ DOMAIN stack' = 1..Len(stack)
  BY <1>1, LenProperties DEF IInv, Shape
<1>3. Shape'
  BY <1>1 DEF IInv, Shape
<1>4. Laid'
  <2>1. pc' = "closure" => Peek' \in Closure
    <3>1. Peek = stack[Len(stack)] /\ Peek' = stack'[Len(stack)]
      BY <1>1, <1>2 DEF Peek, Slot, Plus, stackTop, At, Index
    <3>2. Len(stack) \in 1..Len(stack)
      BY <1>2
    <3>3. pc = "closure" => Peek \in Closure
      BY DEF IInv, Laid
    <3>4. stack'[Len(stack)] = IF Len(stack) = i THEN v ELSE stack[Len(stack)]
      BY <1>1, <3>2
    <3>5. pc' = "closure" => pc = "closure" /\ (v \in Closure \/ i < Len(stack))
      OBVIOUS
    <3>. QED  BY <3>1, <3>3, <3>4, <3>5
  <2>. QED  BY <1>1, <2>1 DEF IInv, Laid, FramesFit, Frame, Height, Valid
<1>5. Linked'
  BY <1>1 DEF IInv, Laid, Linked, OpenUpvaluesSorted, Points, Valid
<1>6. Alive'
  BY <1>1, <1>2 DEF IInv, Alive, Live, UpvaluesOf, IsClosure
<1>. QED
  BY <1>3, <1>4, <1>5, <1>6 DEF IInv

LEMMA PushKeeps ==
  ASSUME IInv, pc = "run", NEW v \in Content, UpvaluesOf(v) \subseteq Live, Push(v),
         UNCHANGED <<array, capacity, frames, stackStart, openUpvalues, upvalue, apiStack>>,
         counted' \in Int,
         pc' \in {"run", "closure"}, pc' = "closure" => v \in Closure
  PROVE  IInv'
<1>0. /\ Height < Frame.height
      /\ stack' = Append(stack, v)
  BY DEF Push
<1>1. /\ stack' \in Seq(Content) /\ Len(stack') = Len(stack) + 1
      /\ \A j \in 1..Len(stack) : stack'[j] = stack[j]
      /\ stack'[Len(stack) + 1] = v
  BY <1>0, AppendProperties DEF IInv, Shape
<1>2. Len(stack) \in Nat /\ DOMAIN stack = 1..Len(stack) /\ DOMAIN stack' = 1..Len(stack) + 1
  BY <1>1, LenProperties DEF IInv, Shape
<1>3. Shape'
  BY <1>1 DEF IInv, Shape
<1>4. Laid'
  <2>1. Len(stack) + 1 <= capacity
    BY <1>0, <1>2, TopFrame DEF Height, IInv, Shape
  <2>2. Height' = Height + 1
    BY <1>1, <1>2, TopFrame DEF Height, Frame
  <2>3. pc' = "closure" => Peek' \in Closure
    BY <1>1, <1>2 DEF Peek, Slot, Plus, stackTop, At, Index
  <2>. QED  BY <1>1, <1>2, <2>1, <2>2, <2>3, TopFrame DEF IInv, Laid, FramesFit, Frame, Valid
<1>5. Linked'
  <2>1. OpenUpvaluesSorted'
    <3>1. \A u \in Upvalue : upvalue[u] # None /\ upvalue[u].value # Closed
            => Index(upvalue[u].value) \in 0..Len(stack) - 1
      BY CapturedValue DEF Live
    <3>. QED  BY <1>1, <1>2, <3>1 DEF IInv, Linked, OpenUpvaluesSorted
  <2>2. \A u : Points(u) => Points(u)'
    BY <1>1, <1>2 DEF Points, Valid
  <2>. QED  BY <2>1, <2>2 DEF IInv, Linked
<1>6. Alive'
  BY <1>1, <1>2 DEF IInv, Alive, Live, UpvaluesOf, IsClosure
<1>. QED
  BY <1>3, <1>4, <1>5, <1>6 DEF IInv

LEMMA LoadKeeps == IInv /\ Load => IInv'
<1> SUFFICES ASSUME IInv, Load PROVE IInv'
  OBVIOUS
<1>1. pc = "run" /\ counted' \in Int
  BY DEF Load, IInv, Shape
<1>2. UNCHANGED <<pc, array, capacity, frames, stackStart, apiStack, openUpvalues, upvalue>>
  BY DEF Load
<1>3. PICK v : /\ Push(v)
               /\ \/ v \in Data
                  \/ \E i \in Locals : v = Slot(Plus(stackStart, i))
                  \/ \E i \in DOMAIN Frame.closure :
                       LET u == upvalue[Frame.closure[i]]
                       IN v = IF u.value = Closed THEN u.closed ELSE Slot(u.value)
  BY DEF Load
<1>4. v \in Content /\ UpvaluesOf(v) \subseteq Live
  <2>1. CASE v \in Data
    BY <2>1, StackAssumption DEF Content, Value, UpvaluesOf, IsClosure
  <2>2. ASSUME NEW i \in Locals, v = Slot(Plus(stackStart, i))
        PROVE  v \in Content /\ UpvaluesOf(v) \subseteq Live
    <3>1. v = stack[Index(Frame.stackStart) + i + 1]
      BY <2>2, <1>1, TopFrame DEF Slot, Plus, Index
    <3>2. Index(Frame.stackStart) + i + 1 \in 1..Len(stack)
      BY <1>1, TopFrame DEF Locals, Height
    <3>. QED  BY <3>1, <3>2, SlotValue
  <2>3. ASSUME NEW i \in DOMAIN Frame.closure,
               v = IF upvalue[Frame.closure[i]].value = Closed
                   THEN upvalue[Frame.closure[i]].closed
                   ELSE Slot(upvalue[Frame.closure[i]].value)
        PROVE  v \in Content /\ UpvaluesOf(v) \subseteq Live
    <3> DEFINE u == Frame.closure[i]
    <3>1. u \in Live
      BY <1>1, TopFrame, Closures
    <3>2. CASE upvalue[u].value = Closed
      <4>1. v = upvalue[u].closed
        BY <2>3, <3>2
      <4>. QED  BY <3>1, <3>2, <4>1, CapturedValue
    <3>3. CASE upvalue[u].value # Closed
      <4>1. v = stack[Index(upvalue[u].value) + 1]
        BY <2>3, <3>3 DEF Slot
      <4>2. Index(upvalue[u].value) + 1 \in 1..Len(stack)
        BY <1>1, <3>1, <3>3, CapturedValue, TopFrame
      <4>. QED  BY <4>1, <4>2, SlotValue
    <3>. QED  BY <3>2, <3>3
  <2>. QED  BY <1>3, <2>1, <2>2, <2>3
<1>. QED
  BY <1>1, <1>2, <1>3, <1>4, PushKeeps

LEMMA StoreLocalKeeps ==
  ASSUME NEW i \in Nat, IInv, StoreLocal(i)
  PROVE  IInv'
<1>1. pc = "run" /\ i \in Locals
  BY DEF StoreLocal
<1>2. Len(stack) \in 1..Len(stack) /\ Peek = stack[Len(stack)]
  BY <1>1, TopFrame DEF Peek, Slot, Plus, stackTop, At, Index
<1>3. Peek \in Content /\ UpvaluesOf(Peek) \subseteq Live
  BY <1>2, SlotValue
<1>4. /\ Index(Frame.stackStart) + i + 1 \in 1..Len(stack)
      /\ stack' = [stack EXCEPT ![Index(Frame.stackStart) + i + 1] = Peek]
  <2>1. Index(Plus(stackStart, i)) = Index(Frame.stackStart) + i
    BY <1>1, TopFrame DEF Plus, Index
  <2>2. Index(Frame.stackStart) + i + 1 \in 1..Len(stack)
    BY <1>1, TopFrame DEF Locals, Height
  <2>. QED  BY <2>1, <2>2 DEF StoreLocal, Written
<1>5. counted' \in Int /\ UNCHANGED <<pc, array, capacity, pointers>>
  BY DEF StoreLocal, IInv, Shape
<1>. QED
  BY <1>1, <1>3, <1>4, <1>5, WriteKeeps DEF pointers

LEMMA ConstructKeeps ==
  ASSUME NEW d \in Data, IInv, Construct(d)
  PROVE  IInv'
<1>1. pc = "run"
  BY DEF Construct
<1>2. d \in Content /\ UpvaluesOf(d) \subseteq Live
  BY StackAssumption DEF Content, Value, UpvaluesOf, IsClosure
<1>3. /\ Index(Frame.stackStart) + 1 \in 1..Len(stack)
      /\ stack' = [stack EXCEPT ![Index(Frame.stackStart) + 1] = d]
  BY <1>1, TopFrame DEF Construct, Height, Written
<1>4. counted' \in Int /\ UNCHANGED <<pc, array, capacity, pointers>>
  BY DEF Construct, IInv, Shape
<1>. QED
  BY <1>1, <1>2, <1>3, <1>4, WriteKeeps DEF pointers

LEMMA NewClosureKeeps == IInv /\ NewClosure => IInv'
<1> SUFFICES ASSUME IInv, NewClosure PROVE IInv'
  OBVIOUS
<1>1. /\ pc = "run" /\ pc' = "closure" /\ Push(<<>>)
      /\ UNCHANGED <<array, capacity, frames, stackStart, apiStack, openUpvalues, upvalue>>
      /\ counted' \in Int
  BY DEF NewClosure, IInv, Shape
<1>2. <<>> \in Closure /\ <<>> \in Content
  BY Closures DEF Content, Value
<1>3. UpvaluesOf(<<>>) \subseteq Live
  BY DEF UpvaluesOf, Range
<1>. QED
  BY <1>1, <1>2, <1>3, PushKeeps

LEMMA ClosureDoneKeeps == IInv /\ ClosureDone => IInv'
<1> SUFFICES ASSUME IInv, ClosureDone PROVE IInv'
  OBVIOUS
<1>1. /\ pc = "closure" /\ pc' = "run" /\ counted' = counted + 1
      /\ UNCHANGED <<array, capacity, stack>>
      /\ UNCHANGED <<frames, stackStart, apiStack, openUpvalues, upvalue>>
  BY DEF ClosureDone, memory, pointers
<1>2. Shape'
  BY <1>1 DEF IInv, Shape
<1>3. Laid'
  BY <1>1 DEF IInv, Laid, FramesFit, Frame, Valid
<1>4. Linked' /\ Alive'
  BY <1>1 DEF IInv, Linked, OpenUpvaluesSorted, Points, Valid, Alive, Live, UpvaluesOf,
     IsClosure
<1>. QED
  BY <1>2, <1>3, <1>4 DEF IInv

LEMMA CaptureOuterKeeps ==
  ASSUME NEW i \in Nat, IInv, CaptureOuter(i)
  PROVE  IInv'
<1>1. /\ pc = "closure" /\ Len(Peek) < MaxCaptures /\ i \in DOMAIN Frame.closure
      /\ stack' = Written(Plus(stackTop, -1), Append(Peek, Frame.closure[i]))
      /\ UNCHANGED <<pc, array, capacity, frames, stackStart, apiStack, openUpvalues, upvalue>>
      /\ counted' \in Int
  BY DEF CaptureOuter, pointers, IInv, Shape
<1>2. Len(stack) \in 1..Len(stack) /\ Peek = stack[Len(stack)]
  BY <1>1, TopFrame DEF Peek, Slot, Plus, stackTop, At, Index
<1>3. Peek \in Closure
  BY <1>1 DEF IInv, Laid
<1>4. Frame.closure[i] \in Live /\ Frame.closure[i] \in Upvalue
  BY <1>1, TopFrame, Closures DEF Live
<1>5. UpvaluesOf(Peek) \subseteq Live
  BY <1>2, SlotValue
<1>6. /\ Append(Peek, Frame.closure[i]) \in Closure
      /\ UpvaluesOf(Append(Peek, Frame.closure[i])) \subseteq Live
  BY <1>1, <1>3, <1>4, <1>5, AppendUpvalue
<1>7. stack' = [stack EXCEPT ![Len(stack)] = Append(Peek, Frame.closure[i])]
  BY <1>1, <1>2, TopFrame DEF Written, Plus, stackTop, At, Index
<1>8. Append(Peek, Frame.closure[i]) \in Content
  BY <1>6 DEF Content, Value
<1>. QED
  BY <1>1, <1>2, <1>6, <1>7, <1>8, WriteKeeps

LEMMA StoreUpvalueKeeps ==
  ASSUME NEW i \in Nat, IInv, StoreUpvalue(i)
  PROVE  IInv'
<1> DEFINE u == Frame.closure[i]
<1>1. /\ pc = "run" /\ i \in DOMAIN Frame.closure
      /\ UNCHANGED <<pc, array, capacity, frames, stackStart, apiStack, openUpvalues>>
      /\ counted' \in Int
  BY DEF StoreUpvalue, IInv, Shape
<1>2. Len(stack) \in 1..Len(stack) /\ Peek = stack[Len(stack)]
  BY <1>1, TopFrame DEF Peek, Slot, Plus, stackTop, At, Index
<1>3. Peek \in Content /\ UpvaluesOf(Peek) \subseteq Live
  BY <1>2, SlotValue
<1>4. u \in Live /\ u \in Upvalue
  BY <1>1, TopFrame, Closures DEF Live
<1>5. CASE upvalue[u].value # Closed
  <2>1. UNCHANGED upvalue /\ stack' = Written(upvalue[u].value, Peek)
    BY <1>5 DEF StoreUpvalue
  <2>2. Index(upvalue[u].value) + 1 \in 1..Len(stack)
    BY <1>1, <1>4, <1>5, CapturedValue, TopFrame
  <2>3. stack' = [stack EXCEPT ![Index(upvalue[u].value) + 1] = Peek]
    BY <2>1 DEF Written
  <2>. QED  BY <1>1, <1>3, <2>1, <2>2, <2>3, WriteKeeps
<1>6. CASE upvalue[u].value = Closed
  <2>1. UNCHANGED stack /\ upvalue' = [upvalue EXCEPT ![u].closed = Peek]
    BY <1>6 DEF StoreUpvalue
  <2>2. upvalue \in [Upvalue -> OpenOrClosed \cup {None}] /\ upvalue[u] \in OpenOrClosed
    BY <1>4, CapturedValue DEF IInv, Shape
  <2>3. /\ upvalue'[u] \in OpenOrClosed /\ upvalue'[u] # None
        /\ upvalue'[u].value = Closed /\ upvalue'[u].closed = Peek
    <3>1. upvalue[u] \in [value : {Closed}, closed : Content]
      BY <1>6, <2>2 DEF OpenOrClosed, Closed, Address
    <3>2. upvalue'[u] = [upvalue[u] EXCEPT !.closed = Peek]
      BY <1>4, <2>1, <2>2
    <3>3. upvalue'[u] \in [value : {Closed}, closed : Content]
      BY <1>3, <3>1, <3>2
    <3>4. Closed \in Int \X Int
      BY DEF Closed
    <3>5. upvalue'[u] \in [value : Int \X Int, closed : Value \cup {Junk, None}]
      BY <3>3, <3>4 DEF Content
    <3>. QED  BY <3>1, <3>2, <3>3, <3>5, StackAssumption DEF OpenOrClosed
  <2>4. \A w \in Upvalue : w # u => upvalue'[w] = upvalue[w]
    BY <1>4, <2>1, <2>2
  <2>5. u \notin Range(openUpvalues)
    BY <1>6 DEF IInv, Linked, Points, Range, Valid, Closed, Shape
  <2>6. Live' = Live
    BY <1>4, <2>3, <2>4 DEF Live
  <2>7. Shape'
    BY <1>1, <2>1, <2>2, <2>3, <2>4 DEF IInv, Shape
  <2>8. Laid'
    BY <1>1, <2>1 DEF IInv, Laid, FramesFit, Frame, Valid
  <2>9. Linked'
    <3>1. \A k \in DOMAIN openUpvalues :
            /\ openUpvalues[k] \in Upvalue
            /\ upvalue'[openUpvalues[k]] = upvalue[openUpvalues[k]]
      BY <2>4, <2>5 DEF Range, IInv, Shape
    <3>2. \A w \in Upvalue : upvalue'[w] # None /\ upvalue'[w].value # Closed =>
            w # u
      BY <2>3
    <3>. QED
      BY <1>1, <2>1, <2>3, <2>4, <3>1, <3>2
      DEF IInv, Linked, OpenUpvaluesSorted, Points, Valid
  <2>10. Alive'
    BY <1>1, <1>3, <2>1, <2>3, <2>4, <2>6 DEF IInv, Alive, UpvaluesOf, IsClosure, Live
  <2>. QED  BY <2>7, <2>8, <2>9, <2>10 DEF IInv
<1>. QED
  BY <1>5, <1>6

\* captureUpvalue() stops at the first upvalue that is not above the local.
LEMMA PlaceFound ==
  ASSUME IInv, NEW local \in Address
  PROVE  /\ Place(local) \in 1..Len(openUpvalues) + 1
         /\ Place(local) <= Len(openUpvalues) =>
              Index(upvalue[openUpvalues[Place(local)]].value) <= Index(local)
         /\ \A j \in 1..Place(local) - 1 :
              Index(upvalue[openUpvalues[j]].value) > Index(local)
<1> DEFINE n == Len(openUpvalues)
           Spot(k) == Index(upvalue[openUpvalues[k]].value)
           First == {k \in 1..n + 1 : k <= n => Spot(k) <= Index(local)}
<1>1. n \in Nat /\ DOMAIN openUpvalues = 1..n
  BY LenProperties DEF IInv, Shape
<1>2. \A k \in 1..n : Spot(k) \in Int
  BY <1>1 DEF IInv, Linked, Points
<1>3. Index(local) \in Nat
  BY DEF Index, Address
<1>4. PICK f \in First : \A k \in First : f <= k
  <2>1. First \in SUBSET Nat /\ n + 1 \in First
    BY <1>1
  <2> HIDE DEF First
  <2>. QED  BY <2>1, LeastExists
<1>5. /\ f <= n => Spot(f) <= Index(local)
      /\ \A j \in 1..f - 1 : Spot(j) > Index(local)
  <2> HIDE DEF Spot
  <2>. QED  BY <1>1, <1>2, <1>3, <1>4
<1>. QED
  BY <1>4, <1>5 DEF Place

\* An upvalue that is linked in.
LEMMA Inserting ==
  ASSUME openUpvalues \in Seq(Upvalue), NEW p \in 1..Len(openUpvalues) + 1,
         NEW new \in Upvalue, openUpvalues' = InsertAt(openUpvalues, p, new)
  PROVE  /\ openUpvalues' \in Seq(Upvalue)
         /\ Len(openUpvalues') = Len(openUpvalues) + 1
         /\ \A k \in 1..Len(openUpvalues) + 1 :
              openUpvalues'[k] = IF k < p THEN openUpvalues[k]
                                 ELSE IF k = p THEN new ELSE openUpvalues[k - 1]
<1> DEFINE s == openUpvalues
<1>1. s \in Seq(Upvalue) /\ p \in 1..Len(s) + 1
  OBVIOUS
<1> HIDE DEF s
<1>2. /\ InsertAt(s, p, new) \in Seq(Upvalue) /\ Len(InsertAt(s, p, new)) = Len(s) + 1
      /\ \A k \in 1..Len(s) + 1 :
           InsertAt(s, p, new)[k] = IF k < p THEN s[k] ELSE IF k = p THEN new ELSE s[k - 1]
  BY <1>1, InsertedAt
<1>3. openUpvalues' = InsertAt(s, p, new)
  BY DEF s
<1> DEFINE t == InsertAt(s, p, new)
<1> HIDE DEF t
<1>4. /\ t \in Seq(Upvalue) /\ Len(t) = Len(s) + 1
      /\ \A k \in 1..Len(s) + 1 : t[k] = IF k < p THEN s[k] ELSE IF k = p THEN new ELSE s[k - 1]
  BY <1>2, Zenon DEF t
<1>5. openUpvalues' = t
  BY <1>3 DEF t
<1>. QED
  BY <1>4, <1>5 DEF s

LEMMA CaptureLocalKeeps ==
  ASSUME NEW i \in Nat, IInv, CaptureLocal(i)
  PROVE  IInv'
<1> DEFINE local == Plus(Frame.stackStart, i)
           p == Place(local)
           n == Len(openUpvalues)
<1>1. /\ pc = "closure" /\ Len(Peek) < MaxCaptures /\ i \in Locals /\ i < Height - 1
      /\ UNCHANGED <<pc, array, capacity, frames, stackStart, apiStack>>
      /\ counted' \in Int
  BY DEF CaptureLocal, IInv, Shape
<1>2. /\ local = At(Index(local)) /\ Index(local) \in 0..Len(stack) - 2 /\ local \in Address
  <2>1. /\ Index(local) = Index(Frame.stackStart) + i
        /\ local = <<array, Index(Frame.stackStart) + i>>
    BY <1>1, TopFrame DEF Plus, Index, At
  <2>2. Index(Frame.stackStart) + i \in 0..Len(stack) - 2
    BY <1>1, TopFrame DEF Height
  <2>. QED  BY <2>1, <2>2 DEF At, Address, IInv, Shape
<1>3. Len(stack) \in 1..Len(stack) /\ Peek = stack[Len(stack)]
  BY <1>1, TopFrame DEF Peek, Slot, Plus, stackTop, At, Index
<1>4. Peek \in Closure /\ UpvaluesOf(Peek) \subseteq Live
  BY <1>1, <1>3, SlotValue DEF IInv, Laid
<1>5. \A u : Written(Plus(stackTop, -1), Append(Peek, u))
               = [stack EXCEPT ![Len(stack)] = Append(Peek, u)]
  BY <1>1, <1>3, TopFrame DEF Written, Plus, stackTop, At, Index
<1>6. n \in Nat /\ DOMAIN openUpvalues = 1..n /\ openUpvalues \in Seq(Upvalue)
  BY LenProperties DEF IInv, Shape
<1>7. /\ p \in 1..n + 1
      /\ p <= n => Index(upvalue[openUpvalues[p]].value) <= Index(local)
      /\ \A j \in 1..p - 1 : Index(upvalue[openUpvalues[j]].value) > Index(local)
  BY <1>2, PlaceFound
<1> HIDE DEF local, p
<1>10. Len(stack) \in Nat \ {0} /\ pc' # "method" /\ array' = array
  BY <1>1, TopFrame
<1>8. CASE Finds(p, local)
  <2>1. p \in 1..n
    BY <1>6, <1>7, <1>8 DEF Finds
  <2>2. openUpvalues[p] \in Live /\ openUpvalues[p] \in Upvalue
    BY <1>6, <2>1 DEF Live, IInv, Linked, Points
  <2>3. /\ UNCHANGED <<openUpvalues, upvalue>>
        /\ stack' = [stack EXCEPT ![Len(stack)] = Append(Peek, openUpvalues[p])]
    BY <1>5, <1>8 DEF CaptureLocal, Captured, local, p
  <2>4. /\ Append(Peek, openUpvalues[p]) \in Closure
        /\ UpvaluesOf(Append(Peek, openUpvalues[p])) \subseteq Live
    BY <1>1, <1>4, <2>2, AppendUpvalue
  <2>. QED  BY <1>1, <1>3, <2>3, <2>4, WriteKeeps DEF Content, Value
<1>9. CASE ~Finds(p, local)
  <2>1. PICK new \in Upvalue :
          /\ upvalue[new] = None
          /\ stack' = [stack EXCEPT ![Len(stack)] = Append(Peek, new)]
          /\ openUpvalues' = InsertAt(openUpvalues, p, new)
          /\ upvalue' = [upvalue EXCEPT ![new] = [value |-> local, closed |-> None]]
    BY <1>5, <1>9 DEF CaptureLocal, Captured, local, p
  <2>2. /\ openUpvalues' \in Seq(Upvalue)
        /\ Len(openUpvalues') = n + 1
        /\ \A k \in 1..n + 1 : openUpvalues'[k] = IF k < p THEN openUpvalues[k]
                                                 ELSE IF k = p THEN new
                                                 ELSE openUpvalues[k - 1]
    <3>1. openUpvalues \in Seq(Upvalue) /\ p \in 1..Len(openUpvalues) + 1
      BY <1>6, <1>7
    <3>. QED  BY <2>1, <3>1, Inserting
  <2>3. /\ Append(Peek, new) \in Closure
        /\ UpvaluesOf(Append(Peek, new)) = UpvaluesOf(Peek) \cup {new}
    BY <1>1, <1>4, AppendUpvalue
  <2>4. /\ upvalue'[new] = [value |-> local, closed |-> None]
        /\ \A u \in Upvalue : u # new => upvalue'[u] = upvalue[u]
        /\ upvalue' \in [Upvalue -> OpenOrClosed \cup {None}]
    <3>1. upvalue \in [Upvalue -> OpenOrClosed \cup {None}]
      BY DEF IInv, Shape
    <3>2. [value |-> local, closed |-> None] \in OpenOrClosed
      BY <1>2 DEF OpenOrClosed
    <3>. QED  BY <2>1, <3>1, <3>2
  <2>5. upvalue'[new] # None /\ upvalue'[new].value # Closed
    <3>1. [value |-> local, closed |-> None]
            \in [value : Int \X Int, closed : Value \cup {Junk, None}]
      BY <1>2 DEF Address
    <3>. QED  BY <1>2, <2>4, <3>1, StackAssumption DEF Closed, At
  <2>6. Live' = Live \cup {new}
    BY <2>1, <2>4, <2>5 DEF Live
  <2>7. /\ Len(stack') = Len(stack) /\ stack' \in Seq(Content)
        /\ \A j \in 1..Len(stack) :
             stack'[j] = IF j = Len(stack) THEN Append(Peek, new) ELSE stack[j]
        /\ DOMAIN stack' = 1..Len(stack) /\ DOMAIN stack = 1..Len(stack)
    <3>1. stack \in Seq(Content) /\ Append(Peek, new) \in Content
      BY <2>3 DEF IInv, Shape, Content, Value
    <3>. QED  BY <1>3, <2>1, <3>1, ExceptSeq, LenProperties
  <2>12. Len(stack') = Len(stack)
    BY <2>7
  <2>8. Shape'
    BY <1>1, <2>2, <2>4, <2>7 DEF IInv, Shape
  <2>9. Laid'
    <3>1. Peek' = Append(Peek, new)
      <4>1. Peek' = stack'[Len(stack') + -1 + 1]
        BY DEF Peek, Slot, Plus, stackTop, At, Index
      <4>2. Len(stack') + -1 + 1 = Len(stack)
        BY <1>10, <2>12
      <4>. QED  BY <1>3, <2>7, <4>1, <4>2
    <3>. QED
      BY <1>1, <2>3, <2>7, <3>1 DEF IInv, Laid, FramesFit, Frame, Height, Valid
  <2>10. Alive'
    <3>1. UpvaluesOf(upvalue'[new].closed) = {}
      BY <2>4, Closures DEF UpvaluesOf
    <3>. QED
      BY <1>1, <1>3, <1>4, <2>1, <2>3, <2>4, <2>6, <2>7, <3>1
      DEF IInv, Alive, UpvaluesOf, IsClosure, Live
  <2>11. Linked'
    <3>1. \A k \in 1..n : /\ openUpvalues[k] \in Upvalue
                         /\ Points(openUpvalues[k])
                         /\ upvalue'[openUpvalues[k]] = upvalue[openUpvalues[k]]
      BY <1>6, <2>1, <2>4 DEF IInv, Linked, Points
    <3>2. p <= n => Index(upvalue[openUpvalues[p]].value) < Index(local)
      <4>1. ASSUME p <= n
            PROVE  Index(upvalue[openUpvalues[p]].value) # Index(local)
        <5>1. p \in 1..n
          BY <1>6, <1>7, <4>1
        <5>2. openUpvalues[p] \in Live
          BY <3>1, <5>1 DEF Points, Live
        <5>3. upvalue[openUpvalues[p]].value # Closed
          BY <3>1, <5>1 DEF Points, Valid, Closed, Index
        <5>4. upvalue[openUpvalues[p]].value = At(Index(upvalue[openUpvalues[p]].value))
          BY <5>2, <5>3, CapturedValue
        <5>. QED  BY <1>2, <1>9, <4>1, <5>4 DEF Finds
      <4>2. p <= n => Index(upvalue[openUpvalues[p]].value) \in Int
        BY <1>6, <1>7, <3>1 DEF Points
      <4>. QED  BY <1>2, <1>7, <4>1, <4>2
    <3> DEFINE A(k) == Index(upvalue[openUpvalues[k]].value)
               B(k) == Index(upvalue'[openUpvalues'[k]].value)
    <3>3. \A k \in 1..n + 1 : B(k) = IF k < p THEN A(k)
                                    ELSE IF k = p THEN Index(local) ELSE A(k - 1)
      <4>1. B(p) = Index(local)
        BY <1>7, <2>2, <2>4 DEF Index
      <4>2. \A k \in 1..n + 1 : k < p => B(k) = A(k)
        BY <1>6, <1>7, <2>2, <3>1
      <4>3. \A k \in 1..n + 1 : k > p => B(k) = A(k - 1)
        <5> TAKE k \in 1..n + 1
        <5> HAVE k > p
        <5>1. k - 1 \in 1..n
          BY <1>6, <1>7
        <5>. QED  BY <1>7, <2>2, <3>1, <5>1
      <4> HIDE DEF A, B
      <4>. QED  BY <1>6, <1>7, <4>1, <4>2, <4>3
    <3>4. \A k \in 1..n : A(k) \in 0..Len(stack) - 1
      BY <3>1 DEF Points
    <3>5. \A j, k \in 1..n : j < k => A(k) < A(j)
      BY <1>6 DEF IInv, Linked, OpenUpvaluesSorted
    <3> HIDE DEF A
    <3>6. \A k \in 1..n : IF k < p THEN A(k) > Index(local) ELSE A(k) < Index(local)
      <4>1. \A k \in 1..n : k < p => A(k) > Index(local)
        BY <1>6, <1>7 DEF A
      <4>2. p <= n => A(p) < Index(local)
        BY <3>2 DEF A
      <4>3. \A k \in 1..n : k > p => A(k) < Index(local)
        BY <1>2, <1>6, <1>7, <3>4, <3>5, <4>2
      <4>. QED  BY <1>6, <1>7, <4>1, <4>2, <4>3
    <3> HIDE DEF B
    <3>7. \A j, k \in 1..n + 1 : j < k => B(k) < B(j)
      <4> SUFFICES ASSUME NEW j \in 1..n + 1, NEW k \in 1..n + 1, j < k PROVE B(k) < B(j)
        OBVIOUS
      <4>1. CASE k < p
        BY <1>6, <1>7, <3>3, <3>5, <4>1
      <4>2. CASE k = p
        BY <1>6, <1>7, <3>3, <3>6, <4>2
      <4>3. CASE k > p
        <5>1. k - 1 \in 1..n /\ k - 1 >= p /\ B(k) = A(k - 1)
          BY <1>6, <1>7, <3>3, <4>3
        <5>2. CASE j > p
          <6>1. j - 1 \in 1..n /\ B(j) = A(j - 1) /\ j - 1 < k - 1
            BY <1>6, <1>7, <3>3, <5>2
          <6>. QED  BY <3>5, <5>1, <6>1
        <5>3. CASE j = p
          BY <1>7, <3>3, <3>6, <5>1, <5>3
        <5>4. CASE j < p
          <6>1. j \in 1..n /\ B(j) = A(j) /\ j < k - 1
            BY <1>6, <1>7, <3>3, <4>3, <5>4
          <6>. QED  BY <3>5, <5>1, <6>1
        <5>. QED  BY <1>7, <5>2, <5>3, <5>4
      <4>. QED  BY <1>7, <4>1, <4>2, <4>3
    <3>8. DOMAIN openUpvalues' = 1..n + 1
      BY <2>2, LenProperties
    <3>9. ASSUME NEW u \in Upvalue, upvalue'[u] # None, upvalue'[u].value # Closed
          PROVE  u \in Range(openUpvalues') /\ Index(upvalue'[u].value) < Len(stack')
      <4>1. CASE u = new
        <5>1. openUpvalues'[p] = new
          BY <1>7, <2>2
        <5>2. Index(upvalue'[u].value) = Index(local)
          BY <2>4, <4>1
        <5>3. Index(local) < Len(stack')
          BY <1>2, <1>10, <2>12
        <5>. QED  BY <1>7, <3>8, <4>1, <5>1, <5>2, <5>3 DEF Range
      <4>2. CASE u # new
        <5>1. u \in Range(openUpvalues) /\ Index(upvalue[u].value) < Len(stack)
          BY <2>4, <3>9, <4>2 DEF IInv, Linked, OpenUpvaluesSorted
        <5>2. PICK k \in 1..n : openUpvalues[k] = u
          BY <1>6, <5>1 DEF Range
        <5>3. u \in Range(openUpvalues')
          <6>1. CASE k < p
            BY <1>6, <2>2, <3>8, <5>2, <6>1 DEF Range
          <6>2. CASE k >= p
            <7>1. k + 1 \in 1..n + 1 /\ openUpvalues'[k + 1] = u
              BY <1>6, <1>7, <2>2, <5>2, <6>2
            <7>. QED  BY <3>8, <7>1 DEF Range
          <6>. QED  BY <1>7, <6>1, <6>2
        <5>. QED  BY <2>4, <2>7, <4>2, <5>1, <5>3
      <4>. QED  BY <4>1, <4>2
    <3>10. ASSUME NEW k \in 1..n + 1
           PROVE  Points(openUpvalues[k])'
      <4>1. openUpvalues'[k] = new \/ \E j \in 1..n : openUpvalues'[k] = openUpvalues[j]
        <5>1. k > p => k - 1 \in 1..n
          BY <1>6, <1>7
        <5>2. k < p => k \in 1..n
          BY <1>6, <1>7
        <5>. QED  BY <1>6, <1>7, <2>2, <5>1, <5>2
      <4>2. CASE openUpvalues'[k] = new
        <5>1. upvalue'[new].value = At(Index(local)) /\ array' = array
          BY <1>1, <1>2, <2>4
        <5>2. Index(local) \in 0..Len(stack') - 1
          BY <1>2, <1>10, <2>12
        <5>. QED  BY <2>5, <4>2, <5>1, <5>2 DEF Points, Valid, At, Index
      <4>3. ASSUME NEW j \in 1..n, openUpvalues'[k] = openUpvalues[j]
            PROVE  Points(openUpvalues[k])'
        <5>1. /\ openUpvalues'[k] = openUpvalues[j] /\ Points(openUpvalues[j])
              /\ upvalue'[openUpvalues[j]] = upvalue[openUpvalues[j]]
          BY <3>1, <4>3
        <5>. QED  BY <1>10, <2>12, <5>1 DEF Points, Valid
      <4>. QED  BY <4>1, <4>2, <4>3
    <3>11. OpenUpvaluesSorted'
      BY <3>7, <3>8, <3>9 DEF B, OpenUpvaluesSorted
    <3>. QED  BY <1>10, <3>8, <3>10, <3>11 DEF Linked
  <2>. QED  BY <2>8, <2>9, <2>10, <2>11 DEF IInv
<1>. QED
  BY <1>8, <1>9

-----------------------------------------------------------------------------
(* Steps that take slots off the stack.                                     *)

\* What is left of a prefix of the stack.
LEMMA Prefix ==
  ASSUME NEW S, NEW s \in Seq(S), NEW n \in 0..Len(s)
  PROVE  /\ SubSeq(s, 1, n) \in Seq(S) /\ Len(SubSeq(s, 1, n)) = n
         /\ \A k \in 1..n : SubSeq(s, 1, n)[k] = s[k]
<1>1. Len(s) \in Nat
  BY LenProperties
<1>. QED
  BY <1>1, SubSeqProperties

\* closeUpvalues() leaves the upvalues linked and alive, if the stack is not
\* cut below `last`.
LEMMA CloseKeeps ==
  ASSUME IInv, NEW last \in Address,
         openUpvalues' = StillOpen(last), upvalue' = ClosedUpvalues(last, stack),
         array' = array, pc' # "method",
         Len(stack') \in Nat, Len(stack') >= Index(last)
  PROVE  /\ openUpvalues' \in Seq(Upvalue)
         /\ upvalue' \in [Upvalue -> OpenOrClosed \cup {None}]
         /\ Linked'
         /\ Live' = Live
         /\ \A u \in Live : UpvaluesOf(upvalue'[u].closed) \subseteq Live
<1> DEFINE n == Len(openUpvalues)
<1>1. PICK m \in 0..n :
        /\ Closing(last) = 1..m
        /\ StillOpen(last) \in Seq(Upvalue)
        /\ Len(StillOpen(last)) = n - m
        /\ \A k \in 1..n - m :
             /\ StillOpen(last)[k] = openUpvalues[m + k]
             /\ Index(upvalue[openUpvalues[m + k]].value) < Index(last)
        /\ \A k \in 1..m : Index(upvalue[openUpvalues[k]].value) >= Index(last)
  BY ClosesTop
<1>2. n \in Nat /\ DOMAIN openUpvalues = 1..n /\ openUpvalues \in Seq(Upvalue)
  BY LenProperties DEF IInv, Shape
<1>3. /\ openUpvalues' \in Seq(Upvalue) /\ DOMAIN openUpvalues' = 1..n - m
      /\ \A k \in 1..n - m : /\ openUpvalues'[k] = openUpvalues[m + k]
                            /\ Index(upvalue[openUpvalues'[k]].value) < Index(last)
  BY <1>1, LenProperties
<1>4. \A k \in 1..n : openUpvalues[k] \in Live /\ openUpvalues[k] \in Upvalue
  BY <1>2 DEF Live, IInv, Linked, Points
<1>5. \A j, k \in 1..n : openUpvalues[j] = openUpvalues[k] => j = k
  <2> SUFFICES ASSUME NEW j \in 1..n, NEW k \in 1..n, j < k,
                      openUpvalues[j] = openUpvalues[k]
               PROVE  FALSE
    BY <1>2
  <2>1. Index(upvalue[openUpvalues[k]].value) < Index(upvalue[openUpvalues[j]].value)
    BY <1>2 DEF IInv, Linked, OpenUpvaluesSorted
  <2>2. Index(upvalue[openUpvalues[k]].value) \in Int
    BY <1>2 DEF IInv, Linked, Points
  <2>. QED  BY <2>1, <2>2
<1> DEFINE closing == {openUpvalues[k] : k \in 1..m}
<1>6. \A u \in Upvalue :
        upvalue'[u] = IF u \in closing
                      THEN [value |-> Closed, closed |-> stack[Index(upvalue[u].value) + 1]]
                      ELSE upvalue[u]
  BY <1>1 DEF ClosedUpvalues
<1>7. \A u \in closing : /\ u \in Live
                        /\ stack[Index(upvalue[u].value) + 1] \in Content
                        /\ UpvaluesOf(stack[Index(upvalue[u].value) + 1]) \subseteq Live
  <2> SUFFICES ASSUME NEW k \in 1..m
               PROVE  LET u == openUpvalues[k]
                      IN /\ u \in Live
                         /\ stack[Index(upvalue[u].value) + 1] \in Content
                         /\ UpvaluesOf(stack[Index(upvalue[u].value) + 1]) \subseteq Live
    OBVIOUS
  <2>1. k \in 1..n
    BY <1>1, <1>2
  <2>2. Points(openUpvalues[k])
    BY <1>2, <2>1 DEF IInv, Linked
  <2>3. Index(upvalue[openUpvalues[k]].value) + 1 \in 1..Len(stack)
    <3>1. Len(stack) \in Nat
      BY LenProperties DEF IInv, Shape
    <3>. QED  BY <2>2, <3>1 DEF Points
  <2>. QED  BY <1>4, <2>1, <2>3, SlotValue
<1> HIDE DEF closing
<1>8. upvalue' \in [Upvalue -> OpenOrClosed \cup {None}]
  <2>1. upvalue \in [Upvalue -> OpenOrClosed \cup {None}]
    BY DEF IInv, Shape
  <2>2. \A c \in Content : [value |-> Closed, closed |-> c] \in OpenOrClosed
    BY DEF OpenOrClosed
  <2>3. \A u \in Upvalue : upvalue'[u] \in OpenOrClosed \cup {None}
    BY <1>6, <1>7, <2>1, <2>2
  <2>4. upvalue' = [u \in Upvalue |-> upvalue'[u]]
    BY DEF ClosedUpvalues
  <2>. QED  BY <2>3, <2>4
<1>9. /\ \A u \in closing : upvalue'[u] # None /\ upvalue'[u].value = Closed
      /\ Live' = Live
  <2>1. \A c \in Content : [value |-> Closed, closed |-> c] # None
    <3>1. Closed \in Int \X Int
      BY DEF Closed
    <3>2. \A c \in Content : [value |-> Closed, closed |-> c]
                               \in [value : Int \X Int, closed : Value \cup {Junk, None}]
      BY <3>1 DEF Content
    <3>. QED  BY <3>2, StackAssumption
  <2>2. \A u \in closing : upvalue'[u] # None /\ upvalue'[u].value = Closed
    <3> SUFFICES ASSUME NEW u \in closing
                 PROVE  upvalue'[u] # None /\ upvalue'[u].value = Closed
      OBVIOUS
    <3> DEFINE c == stack[Index(upvalue[u].value) + 1]
    <3>1. u \in Upvalue /\ c \in Content
      BY <1>7 DEF Live
    <3>2. upvalue'[u] = [value |-> Closed, closed |-> c]
      BY <1>6, <3>1
    <3> HIDE DEF c
    <3>. QED  BY <2>1, <3>1, <3>2
  <2>3. \A u \in Upvalue : upvalue'[u] # None <=> upvalue[u] # None
    <3> TAKE u \in Upvalue
    <3>1. CASE u \in closing
      BY <1>7, <2>2, <3>1 DEF Live
    <3>2. CASE u \notin closing
      BY <1>6, <3>2
    <3>. QED  BY <3>1, <3>2
  <2>. QED  BY <2>2, <2>3 DEF Live
<1>10. ASSUME NEW u \in Live
       PROVE  UpvaluesOf(upvalue'[u].closed) \subseteq Live
  <2>1. CASE u \in closing
    <3> DEFINE c == stack[Index(upvalue[u].value) + 1]
    <3>1. u \in Upvalue
      BY DEF Live
    <3>2. upvalue'[u] = [value |-> Closed, closed |-> c]
      BY <1>6, <2>1, <3>1
    <3>3. UpvaluesOf(c) \subseteq Live
      BY <1>7, <2>1
    <3> HIDE DEF c
    <3>. QED  BY <3>2, <3>3
  <2>2. CASE u \notin closing
    <3>1. upvalue'[u] = upvalue[u]
      BY <1>6, <2>2 DEF Live
    <3>. QED  BY <3>1 DEF IInv, Alive
  <2>. QED  BY <2>1, <2>2
<1>11. Linked'
  <2>1. \A k \in 1..n - m : /\ m + k \in 1..n
                           /\ openUpvalues'[k] = openUpvalues[m + k]
                           /\ upvalue'[openUpvalues'[k]] = upvalue[openUpvalues[m + k]]
    <3> TAKE k \in 1..n - m
    <3>1. m + k \in 1..n /\ m + k \notin 1..m
      BY <1>1, <1>2
    <3>2. openUpvalues[m + k] \notin closing
      BY <1>1, <1>2, <1>5, <3>1 DEF closing
    <3>. QED  BY <1>3, <1>4, <1>6, <3>1, <3>2
  <2>2. ASSUME NEW k \in 1..n - m
        PROVE  Points(openUpvalues[k])'
    <3>1. Points(openUpvalues[m + k])
      BY <1>2, <2>1 DEF IInv, Linked
    <3>2. Index(upvalue'[openUpvalues'[k]].value) < Index(last)
      BY <1>3, <2>1
    <3>3. Index(last) \in Nat
      BY DEF Address, Index
    <3>. QED  BY <2>1, <3>1, <3>2, <3>3, SMTT(30) DEF Points, Valid
  <2>3. \A j, k \in 1..n - m :
          j < k => Index(upvalue'[openUpvalues'[k]].value) < Index(upvalue'[openUpvalues'[j]].value)
    <3> SUFFICES ASSUME NEW j \in 1..n - m, NEW k \in 1..n - m, j < k
                 PROVE  Index(upvalue[openUpvalues[m + k]].value)
                          < Index(upvalue[openUpvalues[m + j]].value)
      BY <2>1
    <3>1. m + j < m + k /\ m + j \in 1..n /\ m + k \in 1..n
      BY <1>1, <1>2
    <3>. QED  BY <1>2, <3>1 DEF IInv, Linked, OpenUpvaluesSorted
  <2>4. ASSUME NEW u \in Upvalue, upvalue'[u] # None, upvalue'[u].value # Closed
        PROVE  u \in Range(openUpvalues') /\ Index(upvalue'[u].value) < Len(stack')
    <3>1. u \notin closing /\ upvalue'[u] = upvalue[u]
      BY <1>6, <1>9, <2>4
    <3>2. u \in Range(openUpvalues)
      BY <2>4, <3>1 DEF IInv, Linked, OpenUpvaluesSorted
    <3>3. PICK k \in 1..n : openUpvalues[k] = u
      BY <1>2, <3>2 DEF Range
    <3>4. k > m
      BY <1>1, <1>2, <3>1, <3>3 DEF closing
    <3>5. k - m \in 1..n - m /\ m + (k - m) = k
      BY <1>1, <1>2, <3>4
    <3>6. openUpvalues'[k - m] = u
      BY <1>3, <3>3, <3>5
    <3>7. Points(openUpvalues[k - m])'
      BY <2>2, <3>5
    <3>. QED  BY <1>3, <3>5, <3>6, <3>7 DEF Range, Points
  <2>. QED  BY <1>3, <2>2, <2>3, <2>4 DEF Linked, OpenUpvaluesSorted
<1>. QED
  BY <1>3, <1>8, <1>9, <1>10, <1>11

LEMMA PopKeeps == IInv /\ Pop => IInv'
<1> SUFFICES ASSUME IInv, Pop PROVE IInv'
  OBVIOUS
<1> DEFINE last == Plus(stackTop, -1)
<1>1. /\ pc = "run" /\ Height > 1 /\ stack' = Front(stack)
      /\ counted' = counted - 1
      /\ UNCHANGED <<pc, array, capacity, frames, stackStart, apiStack>>
  BY DEF Pop
<1>2. /\ Len(stack) \in Nat \ {0, 1} /\ DOMAIN stack = 1..Len(stack)
      /\ Index(Frame.stackStart) < Len(stack) - 1
  BY <1>1, TopFrame DEF Height
<1>3. /\ stack' \in Seq(Content) /\ Len(stack') = Len(stack) - 1
      /\ \A k \in 1..Len(stack) - 1 : stack'[k] = stack[k]
      /\ DOMAIN stack' = 1..Len(stack) - 1
  <2>1. stack' = SubSeq(stack, 1, Len(stack) - 1) /\ stack \in Seq(Content)
    BY <1>1 DEF Front, IInv, Shape
  <2>. QED  BY <1>2, <2>1, Prefix, LenProperties
<1>4. /\ openUpvalues' \in Seq(Upvalue)
      /\ upvalue' \in [Upvalue -> OpenOrClosed \cup {None}]
      /\ Linked'
      /\ Live' = Live
      /\ \A u \in Live : UpvaluesOf(upvalue'[u].closed) \subseteq Live
  <2>1. CASE Temporary(Len(stack) - 1) /\ UNCHANGED <<openUpvalues, upvalue>>
    <3>1. \A k \in DOMAIN openUpvalues :
            Points(openUpvalues[k]) /\ Points(openUpvalues[k])'
      <4> TAKE k \in DOMAIN openUpvalues
      <4>1. Points(openUpvalues[k]) /\ Index(upvalue[openUpvalues[k]].value) # Len(stack) - 1
        BY <2>1 DEF Temporary, IInv, Linked
      <4>. QED  BY <1>1, <1>2, <1>3, <2>1, <4>1 DEF Points, Valid
    <3>2. \A u \in Range(openUpvalues) : Index(upvalue[u].value) < Len(stack')
      BY <2>1, <3>1 DEF Range, Points
    <3>3. Linked'
      BY <1>1, <2>1, <3>1, <3>2 DEF IInv, Linked, OpenUpvaluesSorted
    <3>. QED  BY <2>1, <3>3 DEF IInv, Shape, Live, Alive
  <2>2. CASE openUpvalues' = StillOpen(last) /\ upvalue' = ClosedUpvalues(last, stack)
    <3>1. last \in Address /\ Index(last) = Len(stack) - 1
      BY <1>2 DEF Plus, stackTop, At, Index, Address, IInv, Shape
    <3>2. Len(stack') \in Nat /\ Len(stack') >= Index(last) /\ array' = array /\ pc' # "method"
      BY <1>1, <1>2, <1>3, <3>1
    <3>. QED  BY <2>2, <3>1, <3>2, CloseKeeps
  <2>. QED  BY <2>1, <2>2 DEF Pop
<1>5. Shape'
  BY <1>1, <1>3, <1>4 DEF IInv, Shape
<1>6. Laid'
  <2>1. Frame' = Frame /\ Index(stackStart') = Index(Frame'.stackStart)
    BY <1>1, TopFrame DEF Frame
  <2>2. Len(stack') > 0 /\ Len(stack') <= capacity' /\ Index(Frame.stackStart) < Len(stack')
    BY <1>1, <1>2, <1>3 DEF IInv, Laid, Shape
  <2>3. FramesFit' /\ \A k \in DOMAIN frames' : Valid(frames[k].stackStart)'
    BY <1>1 DEF IInv, Laid, FramesFit, Valid
  <2>. QED  BY <1>1, <2>1, <2>2, <2>3 DEF IInv, Laid
<1>7. Alive'
  <2>1. \A k \in 1..Len(stack) - 1 : UpvaluesOf(stack'[k]) \subseteq Live
    BY <1>2, <1>3 DEF IInv, Alive
  <2>2. \A k \in DOMAIN frames' : Range(frames'[k].closure) \subseteq Live
    BY <1>1 DEF IInv, Alive
  <2>. QED  BY <1>3, <1>4, <2>1, <2>2 DEF Alive, UpvaluesOf, IsClosure
<1>. QED
  BY <1>4, <1>5, <1>6, <1>7 DEF IInv

LEMMA ReturnKeeps == IInv /\ Return => IInv'
<1> SUFFICES ASSUME IInv, Return PROVE IInv'
  OBVIOUS
<1> DEFINE result == Peek
           rest == Front(frames)
           base == Index(Frame.stackStart)
<1>1. /\ pc = "run" /\ Height > 1
      /\ openUpvalues' = StillOpen(stackStart) /\ upvalue' = ClosedUpvalues(stackStart, stack)
      /\ frames' = rest
      /\ UNCHANGED <<array, capacity, apiStack>>
  BY DEF Return
<1>2. /\ Len(stack) \in Nat \ {0} /\ DOMAIN stack = 1..Len(stack)
      /\ base \in Nat /\ base + 1 < Len(stack) /\ Index(stackStart) = base
      /\ Len(frames) \in Nat \ {0} /\ DOMAIN frames = 1..Len(frames)
  BY <1>1, TopFrame DEF Height
<1>3. result \in Content /\ UpvaluesOf(result) \subseteq Live
  <2>1. result = stack[Len(stack)]
    BY <1>2 DEF Peek, Slot, Plus, stackTop, At, Index
  <2>2. Len(stack) \in 1..Len(stack)
    BY <1>2
  <2>. QED  BY <2>1, <2>2, SlotValue
<1>4. /\ rest \in Seq(FrameType) /\ Len(rest) = Len(frames) - 1
      /\ \A k \in 1..Len(frames) - 1 : rest[k] = frames[k]
      /\ DOMAIN rest = 1..Len(frames) - 1
  <2>1. rest = SubSeq(frames, 1, Len(frames) - 1) /\ frames \in Seq(FrameType)
    BY DEF Front, IInv, Shape
  <2>. QED  BY <1>2, <2>1, Prefix, LenProperties
<1>5. apiStack' = None
  BY <1>1 DEF IInv, Laid
<1> HIDE DEF rest, result
<1>6. CASE rest = <<>>
  <2>1. /\ stack' = <<result>> /\ pc' = "done" /\ counted' = 0 /\ UNCHANGED stackStart
    BY <1>6 DEF Return, rest, result
  <2>2. Len(frames) = 1
    <3>1. Len(rest) = 0
      BY <1>6
    <3>2. Len(frames) - 1 = 0
      BY <1>4, <3>1
    <3>3. Len(frames) \in Nat
      BY <1>2
    <3> HIDE DEF base
    <3>. QED  BY <3>2, <3>3
  <2>3. base = 0
    <3>1. frames # <<>>
      BY <1>1 DEF IInv, Laid
    <3>. QED  BY <2>2, <3>1 DEF IInv, Laid, Frame
  <2>4. stack' \in Seq(Content) /\ Len(stack') = 1 /\ stack'[1] = result /\ DOMAIN stack' = {1}
    BY <1>3, <2>1
  <2>5. /\ openUpvalues' \in Seq(Upvalue)
        /\ upvalue' \in [Upvalue -> OpenOrClosed \cup {None}]
        /\ Linked'
        /\ Live' = Live
        /\ \A u \in Live : UpvaluesOf(upvalue'[u].closed) \subseteq Live
    <3>1. stackStart \in Address /\ Len(stack') >= Index(stackStart)
      BY <1>2, <2>3, <2>4 DEF IInv, Shape
    <3>. QED  BY <1>1, <2>1, <2>4, <3>1, CloseKeeps
  <2>6. Shape'
    BY <1>1, <1>4, <1>5, <2>1, <2>4, <2>5 DEF IInv, Shape
  <2>7. Laid'
    <3>1. frames' = <<>> /\ DOMAIN frames' = {}
      BY <1>1, <1>4, <1>6, <2>2
    <3>2. Len(stack') > 0 /\ Len(stack') <= capacity'
      BY <1>1, <1>2, <2>4 DEF IInv, Laid, Shape
    <3>. QED  BY <1>5, <2>1, <3>1, <3>2 DEF Laid, FramesFit
  <2>8. Alive'
    BY <1>1, <1>3, <1>4, <1>6, <2>4, <2>5 DEF Alive, UpvaluesOf, IsClosure
  <2>. QED  BY <2>5, <2>6, <2>7, <2>8 DEF IInv
<1>7. CASE rest # <<>>
  <2>1. /\ stack' = SubSeq(Written(stackStart, result), 1, base + 1)
        /\ stackStart' = rest[Len(rest)].stackStart
        /\ counted' = base + 1
        /\ UNCHANGED pc
    BY <1>7 DEF Return, rest, result
  <2>2. Len(rest) \in 1..Len(frames) - 1 /\ Len(frames) - 1 \in Nat \ {0}
    BY <1>2, <1>4, <1>7, EmptySeq
  <2>3. /\ stack' \in Seq(Content) /\ Len(stack') = base + 1
        /\ stack'[base + 1] = result /\ \A k \in 1..base : stack'[k] = stack[k]
        /\ DOMAIN stack' = 1..base + 1
    <3> DEFINE w == [stack EXCEPT ![base + 1] = result]
    <3>1. Written(stackStart, result) = w
      BY <1>2 DEF Written
    <3>2. stack \in Seq(Content) /\ base + 1 \in 1..Len(stack)
      BY <1>2 DEF IInv, Shape
    <3>3. /\ w \in Seq(Content) /\ Len(w) = Len(stack)
          /\ \A k \in 1..Len(stack) : w[k] = IF k = base + 1 THEN result ELSE stack[k]
      BY <1>3, <3>2, ExceptSeq
    <3> HIDE DEF w
    <3>4. base + 1 \in 0..Len(w)
      BY <1>2, <3>3
    <3>5. /\ SubSeq(w, 1, base + 1) \in Seq(Content) /\ Len(SubSeq(w, 1, base + 1)) = base + 1
          /\ \A k \in 1..base + 1 : SubSeq(w, 1, base + 1)[k] = w[k]
      BY <3>3, <3>4, Prefix
    <3>6. stack' = SubSeq(w, 1, base + 1)
      BY <2>1, <3>1
    <3>. QED  BY <1>2, <3>3, <3>5, <3>6, LenProperties, SMTT(30)
  <2>4. /\ openUpvalues' \in Seq(Upvalue)
        /\ upvalue' \in [Upvalue -> OpenOrClosed \cup {None}]
        /\ Linked'
        /\ Live' = Live
        /\ \A u \in Live : UpvaluesOf(upvalue'[u].closed) \subseteq Live
    <3>1. stackStart \in Address /\ Len(stack') >= Index(stackStart) /\ Len(stack') \in Nat
      BY <1>2, <2>3 DEF IInv, Shape
    <3>2. pc' # "method"
      BY <1>1, <2>1
    <3>. QED  BY <1>1, <3>1, <3>2, CloseKeeps
  <2>5. /\ Frame' = frames[Len(frames) - 1]
        /\ stackStart' = frames[Len(frames) - 1].stackStart
        /\ frames[Len(frames) - 1] \in FrameType
    <3>1. Len(frames) - 1 \in 1..Len(frames) - 1
      BY <2>2
    <3>. QED  BY <1>1, <1>4, <2>1, <3>1, ElementOfSeq DEF Frame
  <2>6. /\ Index(frames[Len(frames) - 1].stackStart) < base
        /\ Valid(frames[Len(frames) - 1].stackStart)
    <3>1. Len(frames) \in DOMAIN frames /\ Len(frames) > 1 /\ Len(frames) - 1 \in DOMAIN frames
      BY <1>2, <2>2
    <3>. QED  BY <3>1 DEF IInv, Laid, FramesFit, Frame
  <2>7. Shape'
    <3>1. stackStart' \in Address /\ stackStart'[1] <= array'
      BY <1>1, <2>5, <2>6 DEF FrameType, Valid, IInv, Shape
    <3>. QED  BY <1>1, <1>2, <1>4, <1>5, <2>1, <2>3, <2>4, <3>1, SMTT(30) DEF IInv, Shape
  <2>8. Laid'
    <3>1. frames' # <<>> /\ frames # <<>>
      BY <1>1, <1>7 DEF IInv, Laid
    <3>2. Index(frames'[1].stackStart) = 0
      BY <1>1, <1>4, <2>2, <3>1 DEF IInv, Laid
    <3>3. Len(stack') > 0 /\ Len(stack') <= capacity'
      BY <1>1, <1>2, <2>3 DEF IInv, Laid, Shape
    <3>4. Index(Frame.stackStart)' < Len(stack')
      BY <1>2, <2>3, <2>5, <2>6 DEF FrameType, Address, Index
    <3>5. Index(stackStart)' = Index(Frame.stackStart)'
      BY <2>5
    <3>6. FramesFit' /\ \A k \in DOMAIN frames' : Valid(frames[k].stackStart)'
      <4>1. \A k \in 1..Len(frames) - 1 : frames'[k] = frames[k] /\ k \in DOMAIN frames
        BY <1>1, <1>2, <1>4
      <4>2. DOMAIN frames' = 1..Len(frames) - 1
        BY <1>1, <1>4
      <4>3. ASSUME NEW k \in 1..Len(frames) - 1, k > 1
            PROVE  frames'[k - 1] = frames[k - 1]
        BY <1>2, <4>1, <4>3
      <4>4. \A k \in 1..Len(frames) - 1 : Valid(frames[k].stackStart)'
        BY <1>1, <4>1 DEF IInv, Laid, Valid
      <4>5. FramesFit'
        BY <1>1, <4>1, <4>2, <4>3 DEF IInv, Laid, FramesFit
      <4>. QED  BY <4>2, <4>4, <4>5
    <3>. QED
      BY <1>1, <1>5, <2>1, <3>1, <3>2, <3>3, <3>4, <3>5, <3>6 DEF Laid
  <2>9. Alive'
    <3>1. \A k \in 1..base + 1 : UpvaluesOf(stack'[k]) \subseteq Live
      <4>1. \A k \in 1..base : UpvaluesOf(stack[k]) \subseteq Live
        BY <1>2 DEF IInv, Alive
      <4>. QED  BY <1>2, <1>3, <2>3, <4>1
    <3>2. \A k \in DOMAIN frames' : Range(frames'[k].closure) \subseteq Live
      BY <1>1, <1>2, <1>4 DEF IInv, Alive
    <3>. QED  BY <2>3, <2>4, <3>1, <3>2 DEF Alive, UpvaluesOf, IsClosure
  <2>. QED  BY <2>4, <2>7, <2>8, <2>9 DEF IInv
<1>. QED
  BY <1>6, <1>7

-----------------------------------------------------------------------------
(* Native code.                                                             *)

\* Entering native code, or the crash, leaves the stack as it is.
LEMMA WindowKeeps ==
  ASSUME IInv, pc = "run",
         UNCHANGED <<array, capacity, stack, frames, stackStart, openUpvalues, upvalue>>,
         counted' = counted,
         \/ /\ pc' = "crashed" /\ apiStack' = apiStack
         \/ /\ pc' \in {"method", "allocator"}
            /\ apiStack' = At(Index(apiStack'))
            /\ Index(apiStack') \in Index(Frame.stackStart)..Len(stack) - 1
            /\ pc' = "method" => \A i \in DOMAIN openUpvalues :
                  Index(upvalue[openUpvalues[i]].value) < Index(apiStack')
  PROVE  IInv'
<1>1. apiStack = None
  BY DEF IInv, Laid
<1>2. Index(Frame.stackStart) \in Nat
  BY TopFrame
<1>3. CASE pc' = "crashed" /\ apiStack' = apiStack
  BY <1>1, <1>3 DEF IInv, Shape, Laid, FramesFit, Frame, Linked, OpenUpvaluesSorted, Points,
     Valid, Alive, Live, UpvaluesOf, IsClosure
<1>4. CASE /\ pc' \in {"method", "allocator"}
           /\ apiStack' = At(Index(apiStack'))
           /\ Index(apiStack') \in Index(Frame.stackStart)..Len(stack) - 1
           /\ pc' = "method" => \A i \in DOMAIN openUpvalues :
                 Index(upvalue[openUpvalues[i]].value) < Index(apiStack')
  <2>1. apiStack' \in Address /\ apiStack' # None /\ Valid(apiStack)'
    <3>1. array \in Nat /\ array' = array
      BY DEF IInv, Shape
    <3>2. Index(apiStack') \in Nat
      BY <1>2, <1>4
    <3>3. apiStack' \in Nat \X Nat
      BY <1>4, <3>1, <3>2 DEF At
    <3>4. apiStack' # None
      BY <3>3, StackAssumption
    <3>. QED  BY <1>4, <3>1, <3>3, <3>4 DEF Address, Valid, At
  <2>2. Shape'
    BY <1>4, <2>1 DEF IInv, Shape
  <2>3. Laid'
    <3>1. FramesFit' /\ \A k \in DOMAIN frames' : Valid(frames[k].stackStart)'
      BY DEF IInv, Laid, FramesFit, Valid
    <3>2. Index(apiStack') < Len(stack') /\ Index(apiStack') >= Index(Frame.stackStart)'
      BY <1>2, <1>4 DEF Frame, IInv, Shape
    <3>. QED  BY <1>4, <2>1, <3>1, <3>2 DEF IInv, Laid, Frame
  <2>4. Linked'
    BY <1>4 DEF IInv, Linked, OpenUpvaluesSorted, Points, Valid
  <2>5. Alive'
    BY DEF IInv, Alive, Live, UpvaluesOf, IsClosure
  <2>. QED  BY <2>2, <2>3, <2>4, <2>5 DEF IInv
<1>. QED
  BY <1>3, <1>4

LEMMA CallMethodKeeps ==
  ASSUME NEW n \in Nat \ {0}, IInv, CallMethod(n)
  PROVE  IInv'
<1>1. /\ pc = "run" /\ pc' = "method" /\ Arguments(n)
      /\ apiStack' = Plus(stackTop, -n)
      /\ UNCHANGED <<array, capacity, stack, frames, stackStart, openUpvalues, upvalue>>
      /\ counted' = counted
  BY DEF CallMethod, memory
<1>2. /\ Len(stack) \in Nat /\ Index(Frame.stackStart) \in Nat
      /\ n < Len(stack) - Index(Frame.stackStart)
  BY <1>1, TopFrame DEF Arguments, Height
<1>3. apiStack' = At(Len(stack) - n) /\ Index(apiStack') = Len(stack) - n
  BY <1>1, <1>2 DEF Plus, stackTop, At, Index
<1>4. \A i \in DOMAIN openUpvalues : Index(upvalue[openUpvalues[i]].value) < Len(stack) - n
  <2> TAKE i \in DOMAIN openUpvalues
  <2> DEFINE at == Index(upvalue[openUpvalues[i]].value)
  <2>1. at \in 0..Len(stack) - 1
    BY DEF IInv, Linked, Points
  <2>2. \A k \in 1..n : at # Len(stack) - k
    BY <1>1 DEF Arguments, Temporary
  <2> HIDE DEF at
  <2>3. at >= Len(stack) - n => Len(stack) - at \in 1..n /\ at = Len(stack) - (Len(stack) - at)
    BY <1>2, <2>1
  <2>. QED  BY <1>2, <2>1, <2>2, <2>3 DEF at
<1>5. Index(apiStack') \in Index(Frame.stackStart)..Len(stack) - 1
  BY <1>2, <1>3
<1>. QED
  BY <1>1, <1>3, <1>4, <1>5, WindowKeeps

LEMMA CallAllocatorKeeps == IInv /\ CallAllocator => IInv'
<1> SUFFICES ASSUME IInv, CallAllocator PROVE IInv'
  OBVIOUS
<1>1. /\ pc = "run" /\ pc' = "allocator" /\ apiStack' = stackStart /\ Valid(stackStart)
      /\ UNCHANGED <<array, capacity, stack, frames, stackStart, openUpvalues, upvalue>>
      /\ counted' = counted
  BY DEF CallAllocator, memory
<1>2. Index(stackStart) \in Index(Frame.stackStart)..Len(stack) - 1
  BY <1>1, TopFrame DEF Height
<1>3. stackStart = At(Index(stackStart))
  BY <1>1 DEF IInv, Shape, Address, Valid, At, Index
<1>. QED
  BY <1>1, <1>2, <1>3, WindowKeeps

LEMMA WildAccessKeeps == IInv /\ WildAccess => IInv'
  BY WindowKeeps DEF WildAccess, memory, pointers

LEMMA AllocatorReturnsKeeps ==
  ASSUME NEW d \in Data, IInv, AllocatorReturns(d)
  PROVE  IInv'
<1>1. /\ pc = "allocator" /\ pc' = "run" /\ apiStack' = None
      /\ stack' = Written(apiStack, d)
      /\ UNCHANGED <<array, capacity, frames, stackStart, openUpvalues, upvalue>>
      /\ counted' \in Int
  BY DEF AllocatorReturns, IInv, Shape
<1>2. d \in Content /\ UpvaluesOf(d) \subseteq Live
  BY StackAssumption DEF Content, Value, UpvaluesOf, IsClosure
<1>3. Index(apiStack) + 1 \in 1..Len(stack)
  <2>1. apiStack # None /\ apiStack \in Nat \X Nat
    BY <1>1 DEF IInv, Laid, Shape, Address
  <2>2. Index(apiStack) < Len(stack) /\ Index(apiStack) \in Nat
    BY <2>1 DEF IInv, Laid, Index
  <2>. QED  BY <1>1, <2>2, TopFrame
<1>4. stack' = [stack EXCEPT ![Index(apiStack) + 1] = d]
  BY <1>1 DEF Written
<1>. QED
  BY <1>1, <1>2, <1>3, <1>4, WriteKeeps

LEMMA MethodReturnsKeeps ==
  ASSUME NEW d \in Data, IInv, MethodReturns(d)
  PROVE  IInv'
<1> DEFINE top == Index(apiStack)
<1>1. /\ pc = "method" /\ pc' = "run" /\ apiStack' = None
      /\ stack' = SubSeq(Written(apiStack, d), 1, top + 1)
      /\ UNCHANGED <<array, capacity, frames, stackStart, openUpvalues, upvalue>>
      /\ counted' = top + 1
  BY DEF MethodReturns, MethodTop
<1>2. d \in Content /\ UpvaluesOf(d) \subseteq Live
  BY StackAssumption DEF Content, Value, UpvaluesOf, IsClosure
<1>3. /\ top \in Nat /\ top < Len(stack) /\ top >= Index(Frame.stackStart)
      /\ Len(stack) \in Nat /\ DOMAIN stack = 1..Len(stack)
      /\ Index(Frame.stackStart) \in Nat
  <2>1. apiStack # None /\ apiStack \in Nat \X Nat
    BY <1>1 DEF IInv, Laid, Shape, Address
  <2>2. /\ top < Len(stack) /\ top \in Nat
        /\ top >= Index(Frame.stackStart)
    BY <2>1 DEF IInv, Laid, Index
  <2>. QED  BY <1>1, <2>2, TopFrame
<1> HIDE DEF top
<1>4. /\ stack' \in Seq(Content) /\ Len(stack') = top + 1
      /\ stack'[top + 1] = d /\ \A k \in 1..top : stack'[k] = stack[k]
      /\ DOMAIN stack' = 1..top + 1
  <2> DEFINE w == [stack EXCEPT ![top + 1] = d]
  <2>1. Written(apiStack, d) = w
    BY DEF Written, top
  <2>2. stack \in Seq(Content) /\ top + 1 \in 1..Len(stack)
    BY <1>3 DEF IInv, Shape
  <2>3. /\ w \in Seq(Content) /\ Len(w) = Len(stack)
        /\ \A k \in 1..Len(stack) : w[k] = IF k = top + 1 THEN d ELSE stack[k]
    BY <1>2, <2>2, ExceptSeq
  <2> HIDE DEF w
  <2>4. top + 1 \in 0..Len(w)
    BY <1>3, <2>3
  <2>5. /\ SubSeq(w, 1, top + 1) \in Seq(Content) /\ Len(SubSeq(w, 1, top + 1)) = top + 1
        /\ \A k \in 1..top + 1 : SubSeq(w, 1, top + 1)[k] = w[k]
    BY <2>3, <2>4, Prefix
  <2>6. stack' = SubSeq(w, 1, top + 1)
    BY <1>1, <2>1
  <2>. QED  BY <1>3, <2>3, <2>5, <2>6, LenProperties
<1>5. Shape'
  BY <1>1, <1>3, <1>4 DEF IInv, Shape
<1>6. Laid'
  <2>1. FramesFit' /\ \A k \in DOMAIN frames' : Valid(frames[k].stackStart)'
    BY <1>1 DEF IInv, Laid, FramesFit, Valid
  <2>2. Frame' = Frame /\ Index(Frame.stackStart) < Len(stack')
    BY <1>1, <1>3, <1>4 DEF Frame
  <2>3. Len(stack') > 0 /\ Len(stack') <= capacity'
    BY <1>1, <1>3, <1>4 DEF IInv, Laid, Shape
  <2>. QED  BY <1>1, <2>1, <2>2, <2>3 DEF IInv, Laid
<1>7. Linked'
  <2>1. ASSUME NEW k \in DOMAIN openUpvalues
        PROVE  Points(openUpvalues[k])' /\ Index(upvalue[openUpvalues[k]].value) < Len(stack')
    <3>1. /\ Points(openUpvalues[k])
          /\ Index(upvalue[openUpvalues[k]].value) < top
      BY <1>1 DEF IInv, Linked, top
    <3>. QED  BY <1>1, <1>3, <1>4, <3>1 DEF Points, Valid
  <2>2. \A u \in Range(openUpvalues) : Index(upvalue[u].value) < Len(stack')
    BY <2>1 DEF Range
  <2>. QED  BY <1>1, <2>1, <2>2 DEF IInv, Linked, OpenUpvaluesSorted
<1>8. Alive'
  <2>1. \A k \in 1..top + 1 : UpvaluesOf(stack'[k]) \subseteq Live
    <3>1. \A k \in 1..top : UpvaluesOf(stack[k]) \subseteq Live
      BY <1>3 DEF IInv, Alive
    <3>. QED  BY <1>2, <1>3, <1>4, <3>1
  <2>. QED  BY <1>1, <1>4, <2>1 DEF IInv, Alive, Live, UpvaluesOf, IsClosure
<1>. QED
  BY <1>5, <1>6, <1>7, <1>8 DEF IInv

-----------------------------------------------------------------------------
(* Steps after which the stack may be elsewhere.                            *)

\* wrenEnsureStack() moves the frames and the open upvalues along.
LEMMA MoveKeeps ==
  ASSUME IInv, array' \in Nat, UNCHANGED <<openUpvalues>>, upvalue' = MovedUpvalues,
         array <= array',
         Len(stack') \in Nat, Len(stack') >= Len(stack), pc # "method" => pc' # "method",
         pc' = "method" => Index(apiStack') = Index(apiStack)
  PROVE  /\ upvalue' \in [Upvalue -> OpenOrClosed \cup {None}]
         /\ Linked'
         /\ Live' = Live
         /\ \A u \in Live : upvalue'[u].closed = upvalue[u].closed
         /\ MovedFrames \in Seq(FrameType) /\ Len(MovedFrames) = Len(frames)
         /\ \A k \in DOMAIN frames :
              /\ Index(MovedFrames[k].stackStart) = Index(frames[k].stackStart)
              /\ MovedFrames[k].stackStart[1] = array'
              /\ MovedFrames[k].closure = frames[k].closure
              /\ MovedFrames[k].height = frames[k].height
<1>1. openUpvalues \in Seq(Upvalue) /\ DOMAIN openUpvalues = 1..Len(openUpvalues)
  BY LenProperties DEF IInv, Shape
<1>2. Len(stack) \in Nat
  BY LenProperties DEF IInv, Shape
<1>3. upvalue \in [Upvalue -> OpenOrClosed \cup {None}]
  BY DEF IInv, Shape
<1>4. ASSUME NEW u \in Range(openUpvalues)
      PROVE  /\ u \in Upvalue /\ u \in Live
             /\ upvalue'[u] = [value |-> <<array', Index(upvalue[u].value)>>, closed |-> None]
             /\ upvalue'[u] \in OpenOrClosed
             /\ upvalue'[u] # None
             /\ upvalue'[u].value # Closed
             /\ Index(upvalue'[u].value) = Index(upvalue[u].value)
             /\ upvalue'[u].closed = upvalue[u].closed
             /\ Points(u)'
  <2>1. u \in Upvalue /\ Points(u)
    BY <1>1 DEF Range, IInv, Linked
  <2>2. upvalue[u] \in [value : Address, closed : {None}]
    BY <1>3, <2>1 DEF Points, OpenOrClosed, Valid, Closed, IInv, Shape
  <2>3. upvalue'[u] = [upvalue[u] EXCEPT !.value = Moved(@)]
    BY <2>1 DEF MovedUpvalues
  <2>4. upvalue'[u] = [value |-> <<array', Index(upvalue[u].value)>>, closed |-> None]
    BY <2>2, <2>3 DEF Moved
  <2>5. Index(upvalue[u].value) \in Nat
    BY <2>1, <1>2 DEF Points
  <2>6. upvalue'[u] \in [value : Address, closed : {None}]
    BY <2>4, <2>5 DEF Address
  <2>7. upvalue'[u] # None
    <3>1. upvalue'[u] \in [value : Int \X Int, closed : Value \cup {Junk, None}]
      BY <2>6 DEF Address
    <3>. QED  BY <3>1, StackAssumption
  <2>8. Points(u)'
    BY <1>2, <2>1, <2>4, <2>7 DEF Points, Valid, Index
  <2>. QED
    BY <2>1, <2>2, <2>4, <2>5, <2>6, <2>7, <2>8 DEF Points, Live, OpenOrClosed, Closed, Index
<1>5. \A u \in Upvalue : u \notin Range(openUpvalues) => upvalue'[u] = upvalue[u]
  BY DEF MovedUpvalues
<1>6. upvalue' \in [Upvalue -> OpenOrClosed \cup {None}]
  <2>1. \A u \in Upvalue : upvalue'[u] \in OpenOrClosed \cup {None}
    BY <1>3, <1>4, <1>5
  <2>2. upvalue' = [u \in Upvalue |-> upvalue'[u]]
    BY DEF MovedUpvalues
  <2>. QED  BY <2>1, <2>2
<1>7. Live' = Live
  <2>1. \A u \in Upvalue : upvalue'[u] # None <=> upvalue[u] # None
    BY <1>4, <1>5 DEF Live
  <2>. QED  BY <2>1 DEF Live
<1>8. \A u \in Live : upvalue'[u].closed = upvalue[u].closed
  BY <1>4, <1>5 DEF Live
<1>9. Linked'
  <2>1. \A k \in DOMAIN openUpvalues : openUpvalues[k] \in Range(openUpvalues)
    BY DEF Range
  <2>2. \A u \in Upvalue : upvalue[u] # None /\ upvalue[u].value # Closed
          => u \in Range(openUpvalues) /\ Index(upvalue[u].value) < Len(stack')
    BY <1>2, CapturedValue DEF Live
  <2>3. \A u \in Range(openUpvalues) : Points(u)'
    BY <1>4
  <2>4. \A u \in Upvalue : upvalue'[u] # None /\ upvalue'[u].value # Closed
          => u \in Range(openUpvalues) /\ Index(upvalue'[u].value) < Len(stack')
    BY <1>4, <1>5, <2>2, <2>3 DEF Points
  <2>5. OpenUpvaluesSorted'
    BY <1>4, <2>1, <2>4 DEF IInv, Linked, OpenUpvaluesSorted
  <2>6. pc' = "method" => \A k \in DOMAIN openUpvalues :
          Index(upvalue'[openUpvalues[k]].value) < Index(apiStack')
    BY <1>4, <2>1 DEF IInv, Linked
  <2>. QED  BY <2>1, <2>3, <2>5, <2>6 DEF Linked
<1>10. /\ MovedFrames \in Seq(FrameType) /\ Len(MovedFrames) = Len(frames)
       /\ \A k \in DOMAIN frames :
            /\ Index(MovedFrames[k].stackStart) = Index(frames[k].stackStart)
            /\ MovedFrames[k].stackStart[1] = array'
            /\ MovedFrames[k].closure = frames[k].closure
            /\ MovedFrames[k].height = frames[k].height
  <2>1. frames \in Seq(FrameType) /\ Len(frames) \in Nat /\ DOMAIN frames = 1..Len(frames)
    BY LenProperties DEF IInv, Shape
  <2>2. ASSUME NEW k \in 1..Len(frames)
        PROVE  /\ MovedFrames[k] \in FrameType
               /\ Index(MovedFrames[k].stackStart) = Index(frames[k].stackStart)
               /\ MovedFrames[k].stackStart[1] = array'
               /\ MovedFrames[k].closure = frames[k].closure
               /\ MovedFrames[k].height = frames[k].height
    <3>1. frames[k] \in FrameType
      BY <2>1, ElementOfSeq
    <3>2. MovedFrames[k] = [frames[k] EXCEPT !.stackStart = <<array', Index(frames[k].stackStart)>>]
      BY <2>1 DEF MovedFrames, Moved
    <3>3. Index(frames[k].stackStart) \in Nat
      BY <3>1 DEF FrameType, Address, Index
    <3>. QED  BY <3>1, <3>2, <3>3 DEF FrameType, Address, Index
  <2>3. MovedFrames \in [1..Len(frames) -> FrameType]
    BY <2>1, <2>2 DEF MovedFrames
  <2>4. MovedFrames \in Seq(FrameType)
    BY <2>1, <2>3, SeqDef
  <2>5. Len(MovedFrames) = Len(frames)
    <3>1. 1..Len(MovedFrames) = 1..Len(frames) /\ Len(MovedFrames) \in Nat
      BY <2>3, <2>4, LenProperties
    <3>. QED  BY <2>1, <3>1
  <2>. QED  BY <2>1, <2>2, <2>4, <2>5
<1>. QED
  BY <1>6, <1>7, <1>8, <1>9, <1>10

LEMMA CallKeeps ==
  ASSUME NEW n \in Nat \ {0}, IInv, Call(n)
  PROVE  IInv'
<1> DEFINE callee == stack[Len(stack) - n + 1]
           start == Len(stack) - n
           top == [stackStart |-> stackStart', closure |-> callee, height |-> MaxSlots + n - 1]
<1>1. /\ pc = "run" /\ Arguments(n) /\ EnsureStack(Needed(n))
      /\ stackStart' = Plus(Moved(stackTop), -n)
      /\ upvalue' = MovedUpvalues
      /\ UNCHANGED <<pc, stack, apiStack, openUpvalues, counted>>
  BY DEF Call
<1>2. /\ Len(stack) \in Nat \ {0} /\ DOMAIN stack = 1..Len(stack)
      /\ Index(Frame.stackStart) \in Nat
      /\ Len(frames) \in Nat \ {0} /\ DOMAIN frames = 1..Len(frames)
      /\ start \in Nat \ {0} /\ start < Len(stack) /\ Index(Frame.stackStart) < start
      /\ start + 1 \in 1..Len(stack) /\ Len(stack) + MaxSlots \in Nat \ {0}
      /\ \A c \in Nat : Len(stack) + MaxSlots <= c => start + (MaxSlots + n - 1) <= c
  <2> DEFINE base == Index(Frame.stackStart)
             size == Len(stack)
  <2>1. /\ size \in Nat \ {0} /\ DOMAIN stack = 1..size
        /\ base \in Nat
        /\ Len(frames) \in Nat \ {0} /\ DOMAIN frames = 1..Len(frames)
    BY <1>1, TopFrame
  <2>2. n < size - base
    BY <1>1 DEF Arguments, Height
  <2>3. MaxSlots \in Nat \ {0}
    BY StackAssumption
  <2>4. /\ size - n \in Nat \ {0} /\ size - n < size /\ base < size - n
        /\ (size - n) + 1 \in 1..size /\ size + MaxSlots \in Nat \ {0}
        /\ \A c \in Nat : size + MaxSlots <= c => (size - n) + (MaxSlots + n - 1) <= c
    <3> HIDE DEF base, size
    <3>. QED  BY <2>1, <2>2, <2>3
  <2>. QED  BY <2>1, <2>3, <2>4
<1>3. /\ array' \in Nat /\ array <= array' /\ capacity' \in Nat
      /\ capacity <= capacity' /\ Len(stack) + MaxSlots <= capacity'
  <2>1. Needed(n) = Len(stack) + MaxSlots
    BY DEF Needed
  <2>2. array \in Nat /\ capacity \in Nat
    BY DEF IInv, Shape
  <2>. QED  BY <1>1, <1>2, <2>1, <2>2, GrowsEnough
<1>4. stackStart' = <<array', start>> /\ Index(stackStart') = start /\ stackStart' \in Address
  BY <1>1, <1>2, <1>3 DEF Plus, Moved, stackTop, At, Index, Address
<1>5. callee \in Closure /\ Range(callee) \subseteq Live
  <2>1. Slot(Plus(stackTop, -n)) = callee
    BY <1>2 DEF Slot, Plus, stackTop, At, Index
  <2>2. IsClosure(callee)
    BY <2>1 DEF Call
  <2>. QED  BY <1>2, <2>2, SlotValue, Closures DEF UpvaluesOf
<1>6. frames' = Append(MovedFrames, top)
  <2>1. Slot(Plus(stackTop, -n)) = callee
    BY <1>2 DEF Slot, Plus, stackTop, At, Index
  <2>. QED  BY <2>1 DEF Call
<1>7. top \in FrameType /\ top.stackStart = stackStart' /\ top.closure = callee
      /\ top.height = MaxSlots + n - 1
  BY <1>4, <1>5, StackAssumption DEF FrameType
<1> HIDE DEF callee, start, top
<1>8. /\ upvalue' \in [Upvalue -> OpenOrClosed \cup {None}]
      /\ Linked'
      /\ Live' = Live
      /\ \A u \in Live : upvalue'[u].closed = upvalue[u].closed
      /\ MovedFrames \in Seq(FrameType) /\ Len(MovedFrames) = Len(frames)
      /\ \A k \in DOMAIN frames :
           /\ Index(MovedFrames[k].stackStart) = Index(frames[k].stackStart)
           /\ MovedFrames[k].stackStart[1] = array'
           /\ MovedFrames[k].closure = frames[k].closure
           /\ MovedFrames[k].height = frames[k].height
  <2>1. Len(stack') \in Nat /\ Len(stack') >= Len(stack) /\ pc' # "method"
    BY <1>1, <1>2
  <2>. QED  BY <1>1, <1>3, <2>1, MoveKeeps
<1>9. /\ frames' \in Seq(FrameType) /\ Len(frames') = Len(frames) + 1
      /\ DOMAIN frames' = 1..Len(frames) + 1
      /\ \A k \in 1..Len(frames) : frames'[k] = MovedFrames[k]
      /\ frames'[Len(frames) + 1] = top
  BY <1>6, <1>7, <1>8, AppendProperties, LenProperties
<1>10. Frame' = top /\ frames' # <<>>
  BY <1>2, <1>9 DEF Frame
<1>11. Shape'
  BY <1>1, <1>3, <1>4, <1>8, <1>9 DEF IInv, Shape
<1>12. Laid'
  <2>1. Index(frames'[1].stackStart) = 0
    <3>1. frames # <<>> /\ 1 \in 1..Len(frames)
      BY <1>1, <1>2 DEF IInv, Laid
    <3>. QED  BY <1>2, <1>8, <1>9, <3>1 DEF IInv, Laid
  <2>2. \A k \in DOMAIN frames' : Valid(frames[k].stackStart)'
    <3> SUFFICES ASSUME NEW k \in 1..Len(frames) + 1 PROVE frames'[k].stackStart[1] = array'
      BY <1>9 DEF Valid
    <3>1. CASE k \in 1..Len(frames)
      BY <1>2, <1>8, <1>9, <3>1
    <3>2. CASE k = Len(frames) + 1
      BY <1>4, <1>7, <1>9, <3>2
    <3>. QED  BY <1>2, <3>1, <3>2
  <2>3. FramesFit'
    <3>1. ASSUME NEW k \in 1..Len(frames)
          PROVE  /\ Index(frames'[k].stackStart) + frames'[k].height <= capacity'
                 /\ k > 1 => Index(frames'[k - 1].stackStart) < Index(frames'[k].stackStart)
      <4>1. /\ Index(frames[k].stackStart) + frames[k].height <= capacity
            /\ k > 1 => Index(frames[k - 1].stackStart) < Index(frames[k].stackStart)
        BY <1>2 DEF IInv, Laid, FramesFit
      <4>2. /\ Index(frames'[k].stackStart) = Index(frames[k].stackStart)
            /\ frames'[k].height = frames[k].height
        BY <1>2, <1>8, <1>9
      <4>3. k > 1 => Index(frames'[k - 1].stackStart) = Index(frames[k - 1].stackStart)
        <5>1. k > 1 => k - 1 \in 1..Len(frames)
          BY <1>2
        <5>. QED  BY <1>2, <1>8, <1>9, <5>1
      <4>4. frames[k] \in FrameType /\ capacity \in Nat
        BY ElementOfSeq DEF IInv, Shape
      <4>5. Index(frames[k].stackStart) + frames[k].height \in Nat
        BY <4>4 DEF FrameType, Address, Index
      <4>. QED  BY <1>3, <4>1, <4>2, <4>3, <4>4, <4>5
    <3>2. /\ Index(top.stackStart) + top.height <= capacity'
          /\ Index(frames'[Len(frames)].stackStart) < Index(top.stackStart)
      <4>1. Index(top.stackStart) = start /\ start = Len(stack) - n
        BY <1>4, <1>7 DEF start
      <4>2. start + (MaxSlots + n - 1) <= capacity'
        BY <1>2, <1>3
      <4>3. Index(frames'[Len(frames)].stackStart) = Index(Frame.stackStart)
        <5>1. Len(frames) \in 1..Len(frames)
          BY <1>2
        <5>. QED  BY <1>2, <1>8, <1>9, <5>1 DEF Frame
      <4>. QED  BY <1>2, <1>7, <4>1, <4>2, <4>3
    <3>3. \A k \in 1..Len(frames) + 1 : k \in 1..Len(frames) \/ k = Len(frames) + 1
      BY <1>2
    <3>4. (Len(frames) + 1) - 1 = Len(frames)
      BY <1>2
    <3>. QED  BY <1>9, <3>1, <3>2, <3>3, <3>4 DEF FramesFit
  <2>4. Len(stack') > 0 /\ Len(stack') <= capacity'
    BY <1>1, <1>2, <1>3, StackAssumption
  <2>5. Index(Frame.stackStart)' < Len(stack') /\ Index(stackStart') = Index(Frame'.stackStart)
    BY <1>1, <1>2, <1>4, <1>7, <1>10
  <2>6. pc' = "run" /\ apiStack' = None
    BY <1>1 DEF IInv, Laid
  <2>. QED  BY <1>10, <2>1, <2>2, <2>3, <2>4, <2>5, <2>6 DEF Laid
<1>13. Alive'
  <2>1. \A k \in 1..Len(frames) + 1 : Range(frames'[k].closure) \subseteq Live
    <3>1. \A k \in 1..Len(frames) : Range(frames'[k].closure) \subseteq Live
      BY <1>2, <1>8, <1>9, ZenonT(30) DEF IInv, Alive
    <3>. QED  BY <1>2, <1>5, <1>7, <1>9, <3>1
  <2>2. \A u \in Live : UpvaluesOf(upvalue'[u].closed) \subseteq Live
    BY <1>8 DEF IInv, Alive
  <2>. QED  BY <1>1, <1>8, <1>9, <2>1, <2>2 DEF IInv, Alive, UpvaluesOf, IsClosure
<1>. QED
  BY <1>8, <1>11, <1>12, <1>13 DEF IInv

LEMMA WrenEnsureSlotsKeeps ==
  ASSUME NEW n \in Nat, IInv, WrenEnsureSlots(n)
  PROVE  IInv'
<1> DEFINE more == Index(apiStack) + n - Len(stack)
           pad == [i \in 1..more |-> Junk]
<1>1. /\ pc \in {"method", "allocator"}
      /\ Len(stack) - Index(apiStack) < n
      /\ EnsureStack(Index(apiStack) + n)
      /\ apiStack' = Moved(apiStack)
      /\ stack' = stack \o pad
      /\ frames' = MovedFrames
      /\ upvalue' = MovedUpvalues
      /\ UNCHANGED <<pc, stackStart, openUpvalues, counted>>
  BY DEF WrenEnsureSlots
<1>2. /\ Len(stack) \in Nat \ {0} /\ DOMAIN stack = 1..Len(stack)
      /\ Len(frames) \in Nat \ {0} /\ DOMAIN frames = 1..Len(frames)
      /\ Index(Frame.stackStart) \in Nat /\ Index(stackStart) = Index(Frame.stackStart)
      /\ Index(Frame.stackStart) < Len(stack)
  BY <1>1, TopFrame DEF Height
<1>3. /\ apiStack # None /\ Index(apiStack) \in Nat
      /\ Index(apiStack) < Len(stack) /\ Index(apiStack) >= Index(Frame.stackStart)
  <2>1. apiStack # None /\ apiStack \in Nat \X Nat
    BY <1>1 DEF IInv, Laid, Shape, Address
  <2>. QED  BY <2>1 DEF IInv, Laid, Index
<1>4. more \in Nat \ {0}
  BY <1>1, <1>2, <1>3
<1> HIDE DEF more
<1>5. /\ pad \in Seq(Content) /\ Len(pad) = more
      /\ \A i \in 1..more : pad[i] = Junk
  <2>1. pad \in [1..more -> Content]
    BY DEF Content
  <2>2. pad \in Seq(Content)
    BY <1>4, <2>1, SeqDef
  <2>3. 1..Len(pad) = 1..more /\ Len(pad) \in Nat
    BY <2>1, <2>2, LenProperties
  <2>. QED  BY <1>4, <2>2, <2>3
<1> HIDE DEF pad
<1>6. /\ stack' \in Seq(Content) /\ Len(stack') = Len(stack) + more
      /\ DOMAIN stack' = 1..Len(stack) + more
      /\ \A k \in 1..Len(stack) : stack'[k] = stack[k]
      /\ \A k \in Len(stack) + 1..Len(stack) + more : stack'[k] = Junk
  <2>1. stack \in Seq(Content)
    BY DEF IInv, Shape
  <2>2. /\ stack' \in Seq(Content) /\ Len(stack') = Len(stack) + more
        /\ \A k \in 1..Len(stack) + more :
             stack'[k] = IF k <= Len(stack) THEN stack[k] ELSE pad[k - Len(stack)]
    BY <1>1, <1>5, <2>1, ConcatProperties
  <2>3. ASSUME NEW k \in 1..Len(stack)
        PROVE  stack'[k] = stack[k]
    BY <1>2, <1>4, <2>2
  <2>4. ASSUME NEW k \in Len(stack) + 1..Len(stack) + more
        PROVE  stack'[k] = Junk
    <3>1. k \in 1..Len(stack) + more /\ ~(k <= Len(stack)) /\ k - Len(stack) \in 1..more
      BY <1>2, <1>4
    <3>. QED  BY <1>5, <2>2, <3>1
  <2>5. DOMAIN stack' = 1..Len(stack) + more
    BY <2>2, LenProperties
  <2>. QED  BY <2>2, <2>3, <2>4, <2>5
<1>7. /\ array' \in Nat /\ array <= array' /\ capacity' \in Nat
      /\ capacity <= capacity' /\ Len(stack) + more <= capacity'
  <2>1. Index(apiStack) + n \in Nat \ {0} /\ Index(apiStack) + n = Len(stack) + more
    BY <1>1, <1>2, <1>3 DEF more
  <2>2. array \in Nat /\ capacity \in Nat
    BY DEF IInv, Shape
  <2>. QED  BY <1>1, <2>1, <2>2, GrowsEnough
<1>8. apiStack' = <<array', Index(apiStack)>> /\ Index(apiStack') = Index(apiStack)
      /\ apiStack' \in Address /\ apiStack' # None
  <2>1. apiStack' = <<array', Index(apiStack)>> /\ apiStack' \in Nat \X Nat
    BY <1>1, <1>3, <1>7 DEF Moved
  <2>. QED  BY <2>1, StackAssumption DEF Index, Address
<1>9. /\ upvalue' \in [Upvalue -> OpenOrClosed \cup {None}]
      /\ Linked'
      /\ Live' = Live
      /\ \A u \in Live : upvalue'[u].closed = upvalue[u].closed
      /\ frames' \in Seq(FrameType) /\ Len(frames') = Len(frames)
      /\ \A k \in DOMAIN frames :
           /\ Index(frames'[k].stackStart) = Index(frames[k].stackStart)
           /\ frames'[k].stackStart[1] = array'
           /\ frames'[k].closure = frames[k].closure
           /\ frames'[k].height = frames[k].height
  <2>1. Len(stack') \in Nat /\ Len(stack') >= Len(stack)
    BY <1>2, <1>4, <1>6
  <2>. QED  BY <1>1, <1>7, <1>8, <2>1, MoveKeeps
<1>10. DOMAIN frames' = 1..Len(frames)
  BY <1>9, LenProperties
<1>11. Shape'
  <2>1. stackStart' \in Address /\ stackStart'[1] <= array'
    BY <1>1, <1>7 DEF IInv, Shape, Address
  <2>. QED  BY <1>1, <1>6, <1>7, <1>8, <1>9, <2>1 DEF IInv, Shape
<1>12. Laid'
  <2>1. frames' # <<>> /\ frames # <<>> /\ 1 \in 1..Len(frames) /\ Len(frames) \in 1..Len(frames)
    BY <1>1, <1>2, <1>9 DEF IInv, Laid
  <2>2. Index(Frame'.stackStart) = Index(Frame.stackStart)
    BY <1>2, <1>9, <2>1 DEF Frame
  <2>3. Index(frames'[1].stackStart) = 0
    BY <1>2, <1>9, <2>1 DEF IInv, Laid
  <2>4. \A k \in DOMAIN frames' : Valid(frames[k].stackStart)'
    BY <1>2, <1>9, <1>10 DEF Valid
  <2>5. FramesFit'
    <3> SUFFICES ASSUME NEW k \in 1..Len(frames)
                 PROVE  /\ Index(frames'[k].stackStart) + frames'[k].height <= capacity'
                        /\ k > 1 => Index(frames'[k - 1].stackStart) < Index(frames'[k].stackStart)
      BY <1>10 DEF FramesFit
    <3>1. /\ Index(frames[k].stackStart) + frames[k].height <= capacity
          /\ k > 1 => Index(frames[k - 1].stackStart) < Index(frames[k].stackStart)
      BY <1>2 DEF IInv, Laid, FramesFit
    <3>2. k > 1 => Index(frames'[k - 1].stackStart) = Index(frames[k - 1].stackStart)
      <4>1. k > 1 => k - 1 \in 1..Len(frames)
        BY <1>2
      <4>. QED  BY <1>2, <1>9, <4>1
    <3>3. frames[k] \in FrameType /\ capacity \in Nat
      BY ElementOfSeq DEF IInv, Shape
    <3>4. Index(frames[k].stackStart) + frames[k].height \in Nat
      BY <3>3 DEF FrameType, Address, Index
    <3>. QED  BY <1>2, <1>7, <1>9, <3>1, <3>2, <3>3, <3>4
  <2>6. Len(stack') > 0 /\ Len(stack') <= capacity' /\ Len(stack') > Len(stack)
    BY <1>2, <1>4, <1>6, <1>7
  <2>7. Valid(apiStack)'
    BY <1>8 DEF Valid
  <2>8. Index(stackStart') = Index(Frame'.stackStart) /\ Index(Frame'.stackStart) < Len(stack')
    BY <1>1, <1>2, <2>2, <2>6
  <2>9. Index(apiStack') < Len(stack') /\ Index(apiStack') >= Index(Frame'.stackStart)
    BY <1>2, <1>3, <1>8, <2>2, <2>6
  <2>. QED  BY <1>1, <1>8, <2>1, <2>3, <2>4, <2>5, <2>6, <2>7, <2>8, <2>9 DEF Laid
<1>13. Alive'
  <2>1. UpvaluesOf(Junk) = {}
    BY DEF UpvaluesOf, IsClosure
  <2>2. ASSUME NEW k \in 1..Len(stack) + more
        PROVE  UpvaluesOf(stack'[k]) \subseteq Live
    <3>1. CASE k \in 1..Len(stack)
      BY <1>2, <1>6, <3>1 DEF IInv, Alive
    <3>2. CASE k \in Len(stack) + 1..Len(stack) + more
      BY <1>6, <2>1, <3>2
    <3>. QED  BY <1>2, <1>4, <3>1, <3>2
  <2>3. \A k \in 1..Len(frames) : Range(frames'[k].closure) \subseteq Live
    BY <1>2, <1>9 DEF IInv, Alive
  <2>4. \A u \in Live : UpvaluesOf(upvalue'[u].closed) \subseteq Live
    BY <1>9 DEF IInv, Alive
  <2>. QED  BY <1>6, <1>9, <1>10, <2>2, <2>3, <2>4 DEF Alive, UpvaluesOf, IsClosure
<1>. QED
  BY <1>9, <1>11, <1>12, <1>13 DEF IInv

-----------------------------------------------------------------------------
(* The garbage collector.                                                   *)

\* Of the upvalues, none that is left leads to one that was collected.
LEMMA CollectGarbageKeeps == IInv /\ CollectGarbage => IInv'
<1> SUFFICES ASSUME IInv, CollectGarbage PROVE IInv'
  OBVIOUS
<1> DEFINE garbage == UNION {S \in SUBSET {u \in Upvalue : upvalue[u] # None} : Unreached(S)}
<1>1. /\ upvalue' = [u \in Upvalue |-> IF u \in garbage THEN None ELSE upvalue[u]]
      /\ UNCHANGED <<pc, array, capacity, stack, frames, stackStart, apiStack, openUpvalues,
                     counted>>
  BY DEF CollectGarbage, memory
<1>2. garbage \cap Marked = {}
  BY DEF Unreached
<1>3. \A u \in Live \ garbage : UpvaluesOf(upvalue[u].closed) \cap garbage = {}
  BY DEF Live, Unreached
<1> HIDE DEF garbage
<1>4. Live' = Live \ garbage /\ \A u \in Live \ garbage : upvalue'[u] = upvalue[u]
  BY <1>1 DEF Live
<1>5. \A v : (UpvaluesOf(v))' = UpvaluesOf(v)
  BY DEF UpvaluesOf, IsClosure
<1>6. Shape'
  <2>1. upvalue' \in [Upvalue -> OpenOrClosed \cup {None}]
    BY <1>1 DEF IInv, Shape
  <2>. QED  BY <1>1, <2>1 DEF IInv, Shape
<1>7. Laid'
  BY <1>1 DEF IInv, Laid, FramesFit, Frame, Height, Peek, Slot, Plus, stackTop, At, Index, Valid
<1>8. Linked'
  <2>1. \A k \in DOMAIN openUpvalues :
          /\ openUpvalues[k] \in Upvalue
          /\ upvalue'[openUpvalues[k]] = upvalue[openUpvalues[k]]
    <3> TAKE k \in DOMAIN openUpvalues
    <3>1. openUpvalues[k] \in Upvalue
      BY ElementOfSeq, LenProperties DEF IInv, Shape
    <3>2. openUpvalues[k] \notin garbage
      BY <1>2 DEF Marked, Range
    <3>. QED  BY <1>1, <3>1, <3>2
  <2>2. \A u \in Upvalue : upvalue'[u] # None => upvalue'[u] = upvalue[u]
    BY <1>1
  <2>3. OpenUpvaluesSorted'
    BY <1>1, <2>1, <2>2 DEF IInv, Linked, OpenUpvaluesSorted
  <2>4. \A k \in DOMAIN openUpvalues : Points(openUpvalues[k])'
    BY <1>1, <2>1 DEF IInv, Linked, Points, Valid
  <2>5. pc = "method" => \A k \in DOMAIN openUpvalues :
          Index(upvalue'[openUpvalues[k]].value) < Index(apiStack)
    BY <2>1 DEF IInv, Linked
  <2>. QED  BY <1>1, <2>3, <2>4, <2>5 DEF Linked
<1>9. Alive'
  <2>1. \A i \in DOMAIN stack : UpvaluesOf(stack[i]) \subseteq Live \ garbage
    BY <1>2 DEF IInv, Alive, Marked
  <2>2. \A k \in DOMAIN frames : Range(frames[k].closure) \subseteq Live \ garbage
    <3> TAKE k \in DOMAIN frames
    <3>1. Range(frames[k].closure) \subseteq Marked
      BY DEF Marked
    <3>2. Range(frames[k].closure) \subseteq Live
      BY DEF IInv, Alive
    <3>. QED  BY <1>2, <3>1, <3>2
  <2>3. \A u \in Live \ garbage : UpvaluesOf(upvalue'[u].closed) \subseteq Live \ garbage
    BY <1>3, <1>4 DEF IInv, Alive
  <2>. QED  BY <1>1, <1>4, <1>5, <2>1, <2>2, <2>3 DEF Alive
<1>. QED
  BY <1>6, <1>7, <1>8, <1>9 DEF IInv

-----------------------------------------------------------------------------
(* The invariant.                                                           *)

LEMMA InitKeeps == Init => IInv
<1> SUFFICES ASSUME Init PROVE IInv
  OBVIOUS
<1>1. MaxSlots + 1 \in Nat \ {0} /\ MaxSlots \in Nat
  BY StackAssumption
<1>2. capacity \in Nat /\ capacity >= MaxSlots + 1
  <2> DEFINE Powers == {2^k : k \in 0..MaxSlots + 1}
  <2>1. Powers \subseteq Nat
    BY <1>1, PowerOf2Type
  <2>2. \E p \in Powers : p >= MaxSlots + 1 /\ p < 2 * (MaxSlots + 1)
    BY <1>1, PowerOf2Above
  <2>3. capacity = CHOOSE p \in Powers : p >= MaxSlots + 1 /\ p < 2 * (MaxSlots + 1)
    BY DEF Init, PowerOf2Ceil
  <2> HIDE DEF Powers
  <2>. QED  BY <2>1, <2>2, <2>3
<1>3. <<>> \in Closure /\ Range(<<>>) = {} /\ UpvaluesOf(<<>>) = {}
  BY Closures DEF UpvaluesOf, Range
<1>4. /\ pc = "run" /\ array = 0 /\ stack = << <<>> >> /\ stackStart = <<0, 0>>
      /\ frames = <<[stackStart |-> <<0, 0>>, closure |-> <<>>, height |-> MaxSlots]>>
      /\ apiStack = None /\ openUpvalues = <<>> /\ counted = 1
      /\ upvalue = [u \in Upvalue |-> None]
  BY DEF Init, At
<1>5. /\ Len(stack) = 1 /\ DOMAIN stack = {1} /\ stack[1] = <<>>
      /\ Len(frames) = 1 /\ DOMAIN frames = {1} /\ frames # <<>>
      /\ frames[1] = [stackStart |-> <<0, 0>>, closure |-> <<>>, height |-> MaxSlots]
      /\ DOMAIN openUpvalues = {}
  BY <1>4
<1>6. Shape
  <2>1. stack \in Seq(Content)
    BY <1>3, <1>4 DEF Content, Value
  <2>2. frames \in Seq(FrameType)
    BY <1>1, <1>3, <1>4 DEF FrameType, Address
  <2>3. upvalue \in [Upvalue -> OpenOrClosed \cup {None}]
    BY <1>4
  <2>. QED  BY <1>2, <1>4, <2>1, <2>2, <2>3 DEF Shape, Address
<1>7. Laid
  <2>1. FramesFit
    BY <1>1, <1>2, <1>5 DEF FramesFit, Index
  <2>2. Frame = frames[1]
    BY <1>5 DEF Frame
  <2>. QED  BY <1>1, <1>2, <1>4, <1>5, <2>1, <2>2 DEF Laid, Index, Valid
<1>8. Linked
  BY <1>4, <1>5 DEF Linked, OpenUpvaluesSorted
<1>9. Alive
  BY <1>3, <1>4, <1>5 DEF Alive, Live
<1>. QED
  BY <1>6, <1>7, <1>8, <1>9 DEF IInv

LEMMA StepKeeps == IInv /\ [Next]_vars => IInv'
<1> SUFFICES ASSUME IInv, [Next]_vars PROVE IInv'
  OBVIOUS
<1>0. MaxSlots + MaxArgs \in Nat /\ MaxArgs \in Nat
  BY StackAssumption
<1>1. CASE Load
  BY <1>1, LoadKeeps
<1>2. CASE Pop
  BY <1>2, PopKeeps
<1>3. CASE NewClosure
  BY <1>3, NewClosureKeeps
<1>4. CASE ClosureDone
  BY <1>4, ClosureDoneKeeps
<1>5. CASE Return
  BY <1>5, ReturnKeeps
<1>6. ASSUME NEW i \in 0..MaxSlots + MaxArgs,
             StoreLocal(i) \/ StoreUpvalue(i) \/ CaptureLocal(i) \/ CaptureOuter(i)
      PROVE  IInv'
  <2>1. i \in Nat
    BY <1>0
  <2>. QED
    BY <1>6, <2>1, StoreLocalKeeps, StoreUpvalueKeeps, CaptureLocalKeeps, CaptureOuterKeeps
<1>7. ASSUME NEW n \in 1..MaxArgs, Call(n) \/ CallMethod(n)
      PROVE  IInv'
  <2>1. n \in Nat \ {0}
    BY <1>0
  <2>. QED  BY <1>7, <2>1, CallKeeps, CallMethodKeeps
<1>8. ASSUME NEW d \in Data, Construct(d) \/ MethodReturns(d) \/ AllocatorReturns(d)
      PROVE  IInv'
  BY <1>8, ConstructKeeps, MethodReturnsKeeps, AllocatorReturnsKeeps
<1>9. ASSUME NEW n \in MethodSlots \cup AllocatorSlots, WrenEnsureSlots(n)
      PROVE  IInv'
  <2>1. n \in Nat
    BY StackAssumption
  <2>. QED  BY <1>9, <2>1, WrenEnsureSlotsKeeps
<1>10. CASE CallAllocator
  BY <1>10, CallAllocatorKeeps
<1>11. CASE WildAccess
  BY <1>11, WildAccessKeeps
<1>12. CASE CollectGarbage
  BY <1>12, CollectGarbageKeeps
<1>13. CASE UNCHANGED vars
  BY <1>13 DEF vars, memory, pointers, IInv, Shape, Laid, FramesFit, Frame, Height, Peek, Slot,
     Plus, stackTop, At, Index, Valid, Linked, OpenUpvaluesSorted, Points, Alive, Live,
     UpvaluesOf, IsClosure
<1>. QED
  BY <1>1, <1>2, <1>3, <1>4, <1>5, <1>6, <1>7, <1>8, <1>9, <1>10, <1>11, <1>12, <1>13 DEF Next

\* In every reachable state the frames, the list of open upvalues and what the
\* closures refer to are as the instructions rely on.
THEOREM Inductive == Spec => []IInv
  BY InitKeeps, StepKeeps, PTL DEF Spec

\* Whenever wrenEnsureStack() is over, every address of a frame, of the host's
\* window and of an open upvalue is in the array the stack is in by then,
\* whoever made it grow.
THEOREM StackNoDangling == Spec => []NoDangling
<1>1. IInv => NoDangling
  BY DEF IInv, Laid, Linked, Points, NoDangling
<1>. QED
  BY <1>1, Inductive, PTL

\* captureUpvalue() and closeUpvalues() keep the list of open upvalues strictly
\* descending, complete and below the top of the stack.
THEOREM UpvaluesSorted == Spec => []OpenUpvaluesSorted
<1>1. IInv => OpenUpvaluesSorted
  BY DEF IInv, Linked
<1>. QED
  BY <1>1, Inductive, PTL

\* Every slot counted for an active function is inside of the array, so no
\* PUSH() of any of them is out of bounds.
THEOREM PushesInBounds == Spec => []FramesFit
<1>1. IInv => FramesFit
  BY DEF IInv, Laid
<1>. QED
  BY <1>1, Inductive, PTL

-----------------------------------------------------------------------------
(* What is in the slots, and how many there are.                            *)

Modest == AllocatorSlots \subseteq {0, 1}
Still == Modest /\ MethodSlots = {}

\* Slots have been written: all of them, or those below the window of a method.
Wrote ==
  /\ pc # "method" => \A i \in DOMAIN stack : stack[i] # Junk
  /\ pc = "method" => \A i \in 1..Index(apiStack) : stack[i] # Junk
  /\ \A u \in Upvalue : upvalue[u] # None => upvalue[u].closed # Junk

\* The compiler's count, and where it does not apply; and an address that
\* outlives the last frame.
AsCounted ==
  /\ counted \in Nat
  /\ pc \in {"run", "allocator"} => Len(stack) = counted
  /\ pc = "closure" => Len(stack) = counted + 1
  /\ Index(stackStart) <= capacity

UInv == IInv /\ Wrote /\ AsCounted

\* The interpreter's copy of the frame's address is up to date.
Steady == pc # "crashed" /\ (pc # "done" => Valid(stackStart))

-----------------------------------------------------------------------------
(* Lemmas about what is written.                                            *)

\* A write changes the slot it is meant for, or none.
LEMMA WrittenSlots ==
  ASSUME IInv, NEW a, NEW v
  PROVE  /\ DOMAIN Written(a, v) = DOMAIN stack
         /\ \A j \in DOMAIN stack : Written(a, v)[j] = stack[j] \/ Written(a, v)[j] = v
         /\ Index(a) + 1 \in DOMAIN stack => Written(a, v)[Index(a) + 1] = v
         /\ Written(a, v) \in Seq(Content \cup {v}) /\ Len(Written(a, v)) = Len(stack)
<1>1. stack \in Seq(Content) /\ Len(stack) \in Nat /\ DOMAIN stack = 1..Len(stack)
  BY LenProperties DEF IInv, Shape
<1> DEFINE w == [stack EXCEPT ![Index(a) + 1] = v]
<1>2. /\ DOMAIN w = DOMAIN stack
      /\ \A j \in DOMAIN stack : w[j] = IF j = Index(a) + 1 THEN v ELSE stack[j]
  OBVIOUS
<1>3. w = [j \in 1..Len(stack) |-> w[j]]
  BY <1>1
<1>4. \A j \in 1..Len(stack) : stack[j] \in Content
  BY <1>1, ElementOfSeq
<1> HIDE DEF w
<1>5. w \in [1..Len(stack) -> Content \cup {v}]
  BY <1>1, <1>2, <1>3, <1>4
<1>6. w \in Seq(Content \cup {v}) /\ Len(w) \in Nat /\ DOMAIN w = 1..Len(w)
  BY <1>1, <1>5, SeqDef, LenProperties
<1>7. Len(w) = Len(stack)
  BY <1>1, <1>2, <1>6
<1>. QED
  BY <1>2, <1>6, <1>7 DEF Written, w

\* The top of the stack.
LEMMA TopSlot ==
  ASSUME IInv
  PROVE  /\ Len(stack) \in Nat \ {0} /\ DOMAIN stack = 1..Len(stack)
         /\ Len(stack) \in DOMAIN stack /\ Peek = stack[Len(stack)]
         /\ Index(Plus(stackTop, -1)) + 1 = Len(stack)
<1>1. Len(stack) \in Nat \ {0} /\ DOMAIN stack = 1..Len(stack)
  BY LenProperties DEF IInv, Shape, Laid
<1>2. Index(Plus(stackTop, -1)) = Len(stack) + -1
  BY DEF Plus, stackTop, At, Index
<1>3. Len(stack) + -1 + 1 = Len(stack)
  BY <1>1
<1>. QED
  BY <1>1, <1>2, <1>3 DEF Peek, Slot

\* A step that writes a slot.
LEMMA WriteWrote ==
  ASSUME IInv, Wrote, pc # "method", pc' # "method",
         NEW a, NEW v, v # Junk, stack' = Written(a, v),
         \A u \in Upvalue : upvalue'[u] # None => upvalue'[u].closed # Junk
  PROVE  Wrote' /\ Len(stack') = Len(stack)
<1> DEFINE w == Written(a, v)
<1>0. /\ DOMAIN w = DOMAIN stack /\ Len(w) = Len(stack)
      /\ \A j \in DOMAIN stack : w[j] = stack[j] \/ w[j] = v
  BY WrittenSlots
<1> HIDE DEF w
<1>1. /\ DOMAIN stack' = DOMAIN stack /\ Len(stack') = Len(stack)
      /\ \A j \in DOMAIN stack : stack'[j] = stack[j] \/ stack'[j] = v
  BY <1>0 DEF w
<1>2. \A j \in DOMAIN stack : stack[j] # Junk
  BY DEF Wrote
<1>. QED
  BY <1>1, <1>2 DEF Wrote

\* A step that leaves the stack alone.
LEMMA SameWrote ==
  ASSUME IInv, Wrote, pc # "method", pc' # "method", stack' = stack,
         \A u \in Upvalue : upvalue'[u] # None => upvalue'[u].closed # Junk
  PROVE  Wrote'
  BY DEF Wrote

\* A step that pushes a slot.
LEMMA PushWrote ==
  ASSUME IInv, Wrote, pc = "run", pc' # "method", NEW v, v # Junk, Push(v),
         upvalue' = upvalue
  PROVE  Wrote' /\ Len(stack') = Len(stack) + 1
<1>1. stack \in Seq(Content \cup {v}) /\ stack' = Append(stack, v)
  BY DEF IInv, Shape, Push
<1>2. /\ stack' \in Seq(Content \cup {v}) /\ Len(stack') = Len(stack) + 1
      /\ \A j \in 1..Len(stack) : stack'[j] = stack[j]
      /\ stack'[Len(stack) + 1] = v
  BY <1>1, AppendProperties
<1>3. Len(stack) \in Nat /\ DOMAIN stack = 1..Len(stack) /\ DOMAIN stack' = 1..Len(stack) + 1
  BY <1>1, <1>2, LenProperties
<1>4. \A j \in 1..Len(stack) + 1 : j \in 1..Len(stack) \/ j = Len(stack) + 1
  BY <1>3
<1>. QED
  BY <1>2, <1>3, <1>4 DEF Wrote

\* What is loaded has been written.
LEMMA LoadsWritten ==
  ASSUME IInv, Wrote, Load
  PROVE  \E v : Push(v) /\ v # Junk
<1>1. pc = "run"
  BY DEF Load
<1>2. ASSUME NEW d \in Data
      PROVE  d # Junk
  BY StackAssumption DEF Value
<1>3. ASSUME NEW i \in Locals
      PROVE  Slot(Plus(stackStart, i)) # Junk
  <2>1. Slot(Plus(stackStart, i)) = stack[Index(Frame.stackStart) + i + 1]
    BY <1>1, TopFrame DEF Slot, Plus, Index
  <2>2. Index(Frame.stackStart) + i + 1 \in 1..Len(stack)
    BY <1>1, TopFrame DEF Locals, Height
  <2>. QED  BY <1>1, <2>1, <2>2, TopSlot DEF Wrote
<1>4. ASSUME NEW i \in DOMAIN Frame.closure
      PROVE  LET u == upvalue[Frame.closure[i]]
             IN (IF u.value = Closed THEN u.closed ELSE Slot(u.value)) # Junk
  <2> DEFINE u == Frame.closure[i]
  <2>1. u \in Live
    BY <1>1, TopFrame, Closures
  <2>2. upvalue[u].closed # Junk
    BY <2>1 DEF Wrote, Live
  <2>3. CASE upvalue[u].value # Closed
    <3>1. Index(upvalue[u].value) \in 0..Len(stack) - 1
      BY <2>1, <2>3, CapturedValue
    <3>2. Index(upvalue[u].value) + 1 \in DOMAIN stack
      BY <3>1, TopSlot
    <3>. QED  BY <1>1, <2>3, <3>2 DEF Wrote, Slot
  <2>. QED  BY <2>2, <2>3
<1>. QED
  BY <1>2, <1>3, <1>4 DEF Load

\* closeUpvalues() takes what has been written.
LEMMA ClosesWritten ==
  ASSUME IInv, Wrote, pc = "run", NEW last, upvalue' = ClosedUpvalues(last, stack)
  PROVE  \A u \in Upvalue : upvalue'[u] # None => upvalue'[u].closed # Junk
<1> TAKE u \in Upvalue
<1>1. CASE \E k \in Closing(last) : openUpvalues[k] = u
  <2>1. u \in Range(openUpvalues)
    BY <1>1 DEF Closing, Range
  <2>2. Points(u)
    BY <2>1 DEF IInv, Linked, Range
  <2>3. Index(upvalue[u].value) + 1 \in DOMAIN stack
    BY <2>2, TopSlot DEF Points
  <2>4. upvalue'[u].closed = stack[Index(upvalue[u].value) + 1]
    BY <1>1 DEF ClosedUpvalues
  <2>. QED  BY <2>3, <2>4 DEF Wrote
<1>2. CASE ~ \E k \in Closing(last) : openUpvalues[k] = u
  BY <1>2 DEF ClosedUpvalues, Wrote
<1>. QED
  BY <1>1, <1>2

-----------------------------------------------------------------------------
(* The instructions.                                                        *)

LEMMA LoadCounts == UInv /\ Load /\ IInv' => UInv'
<1> SUFFICES ASSUME UInv, Load, IInv' PROVE UInv'
  OBVIOUS
<1>1. /\ pc = "run" /\ counted' = counted + 1
      /\ UNCHANGED <<pc, capacity, stackStart, upvalue>>
  BY DEF Load
<1>2. Wrote' /\ Len(stack') = Len(stack) + 1
  BY <1>1, LoadsWritten, PushWrote DEF UInv
<1>. QED
  BY <1>1, <1>2 DEF UInv, AsCounted

LEMMA NewClosureCounts == UInv /\ NewClosure /\ IInv' => UInv'
<1> SUFFICES ASSUME UInv, NewClosure, IInv' PROVE UInv'
  OBVIOUS
<1>1. /\ pc = "run" /\ pc' = "closure" /\ Push(<<>>)
      /\ UNCHANGED <<capacity, stackStart, upvalue, counted>>
  BY DEF NewClosure
<1>2. <<>> # Junk
  BY Closures, StackAssumption DEF Value
<1>3. Wrote' /\ Len(stack') = Len(stack) + 1
  BY <1>1, <1>2, PushWrote DEF UInv
<1>. QED
  BY <1>1, <1>3 DEF UInv, AsCounted

LEMMA ClosureDoneCounts == UInv /\ ClosureDone /\ IInv' => UInv'
<1> SUFFICES ASSUME UInv, ClosureDone, IInv' PROVE UInv'
  OBVIOUS
<1>1. /\ pc = "closure" /\ pc' = "run" /\ counted' = counted + 1
      /\ UNCHANGED <<stack, capacity, stackStart, upvalue>>
  BY DEF ClosureDone, memory, pointers
<1>. QED
  BY <1>1 DEF UInv, Wrote, AsCounted

\* An assignment, be it to a local, a captured variable or the receiver.
LEMMA AssignCounts ==
  ASSUME UInv, IInv', pc \in {"run", "allocator"}, pc' = "run",
         NEW a, NEW v, v # Junk, stack' = Written(a, v),
         UNCHANGED <<capacity, stackStart, upvalue, counted>>
  PROVE  UInv'
<1>1. \A u \in Upvalue : upvalue'[u] # None => upvalue'[u].closed # Junk
  BY DEF UInv, Wrote
<1>2. Wrote' /\ Len(stack') = Len(stack)
  BY <1>1, WriteWrote DEF UInv
<1>. QED
  BY <1>2 DEF UInv, AsCounted

LEMMA StoreLocalCounts ==
  ASSUME NEW i, UInv, StoreLocal(i), IInv'
  PROVE  UInv'
<1>1. /\ pc = "run" /\ stack' = Written(Plus(stackStart, i), Peek)
      /\ UNCHANGED <<pc, capacity, stackStart, upvalue, counted>>
  BY DEF StoreLocal, pointers
<1>2. Peek # Junk
  BY <1>1, TopSlot DEF UInv, Wrote
<1>. QED
  BY <1>1, <1>2, AssignCounts

LEMMA ConstructCounts ==
  ASSUME NEW d \in Data, UInv, Construct(d) \/ AllocatorReturns(d), IInv'
  PROVE  UInv'
<1>1. d # Junk
  BY StackAssumption DEF Value
<1>2. /\ pc \in {"run", "allocator"} /\ pc' = "run" /\ \E a : stack' = Written(a, d)
      /\ UNCHANGED <<capacity, stackStart, upvalue, counted>>
  BY DEF Construct, AllocatorReturns, pointers
<1>. QED
  BY <1>1, <1>2, AssignCounts

LEMMA StoreUpvalueCounts ==
  ASSUME NEW i, UInv, StoreUpvalue(i), IInv'
  PROVE  UInv'
<1> DEFINE u == Frame.closure[i]
<1>1. /\ pc = "run" /\ i \in DOMAIN Frame.closure
      /\ UNCHANGED <<pc, capacity, stackStart, counted>>
  BY DEF StoreUpvalue
<1>2. Peek # Junk
  BY <1>1, TopSlot DEF UInv, Wrote
<1>3. CASE upvalue[u].value # Closed
  <2>1. stack' = Written(upvalue[u].value, Peek) /\ UNCHANGED upvalue
    BY <1>3 DEF StoreUpvalue
  <2>. QED  BY <1>1, <1>2, <2>1, AssignCounts
<1>4. CASE upvalue[u].value = Closed
  <2>1. stack' = stack /\ upvalue' = [upvalue EXCEPT ![u].closed = Peek]
    BY <1>4 DEF StoreUpvalue
  <2>2. u \in Live /\ upvalue[u] \in OpenOrClosed
    BY <1>1, TopFrame, Closures, CapturedValue DEF UInv
  <2>3. upvalue'[u].closed = Peek
    BY <2>1, <2>2 DEF UInv, IInv, Shape, Live, OpenOrClosed
  <2>4. \A w \in Upvalue : w # u => upvalue'[w] = upvalue[w]
    BY <2>1 DEF UInv, IInv, Shape
  <2>5. \A w \in Upvalue : upvalue'[w] # None => upvalue'[w].closed # Junk
    BY <1>2, <2>3, <2>4 DEF UInv, Wrote
  <2>6. Wrote'
    BY <1>1, <2>1, <2>5, SameWrote DEF UInv
  <2>. QED  BY <1>1, <2>1, <2>6 DEF UInv, AsCounted
<1>. QED
  BY <1>3, <1>4

\* Filling in the upvalues of a closure.
LEMMA CaptureCounts ==
  ASSUME UInv, IInv', pc = "closure", NEW w, stack' = Written(Plus(stackTop, -1), w),
         UNCHANGED <<pc, capacity, stackStart, counted>>,
         \A u \in Upvalue : upvalue'[u] # None => upvalue'[u].closed # Junk
  PROVE  UInv'
<1>1. w # Junk
  <2>1. /\ stack'[Len(stack)] = w /\ Len(stack') = Len(stack)
    BY TopSlot, WrittenSlots DEF UInv
  <2>2. Peek' = stack'[Len(stack')]
    <3>1. Len(stack) \in Nat \ {0}
      BY TopSlot DEF UInv
    <3>2. Len(stack) + -1 + 1 = Len(stack)
      BY <3>1
    <3>. QED  BY <2>1, <3>2 DEF Peek, Slot, Plus, stackTop, At, Index
  <2>3. Peek' \in Closure
    BY DEF IInv, Laid
  <2>. QED  BY <2>1, <2>2, <2>3, StackAssumption DEF Value
<1>2. Wrote' /\ Len(stack') = Len(stack)
  BY <1>1, WriteWrote DEF UInv
<1>. QED
  BY <1>2 DEF UInv, AsCounted

LEMMA CaptureOuterCounts ==
  ASSUME NEW i, UInv, CaptureOuter(i), IInv'
  PROVE  UInv'
<1>1. /\ pc = "closure"
      /\ stack' = Written(Plus(stackTop, -1), Append(Peek, Frame.closure[i]))
      /\ UNCHANGED <<pc, capacity, stackStart, counted, upvalue>>
  BY DEF CaptureOuter, pointers
<1>2. \A u \in Upvalue : upvalue'[u] # None => upvalue'[u].closed # Junk
  BY <1>1 DEF UInv, Wrote
<1>. QED
  BY <1>1, <1>2, CaptureCounts

LEMMA CaptureLocalCounts ==
  ASSUME NEW i, UInv, CaptureLocal(i), IInv'
  PROVE  UInv'
<1>1. pc = "closure" /\ Captured(i) /\ UNCHANGED <<pc, capacity, stackStart, counted>>
  BY DEF CaptureLocal
<1>2. PICK w : stack' = Written(Plus(stackTop, -1), w)
  BY <1>1 DEF Captured
<1>3. \A u \in Upvalue : upvalue'[u] # None => upvalue'[u].closed # Junk
  <2>1. CASE UNCHANGED upvalue
    BY <2>1 DEF UInv, Wrote
  <2>2. ASSUME NEW new \in Upvalue, NEW local,
               upvalue' = [upvalue EXCEPT ![new] = [value |-> local, closed |-> None]]
        PROVE  \A u \in Upvalue : upvalue'[u] # None => upvalue'[u].closed # Junk
    <3>1. None # Junk
      BY StackAssumption
    <3>2. \A u \in Upvalue : upvalue'[u] = IF u = new THEN [value |-> local, closed |-> None]
                                         ELSE upvalue[u]
      BY <2>2 DEF UInv, IInv, Shape
    <3>. QED  BY <3>1, <3>2 DEF UInv, Wrote
  <2>. QED  BY <1>1, <2>1, <2>2 DEF Captured
<1>. QED
  BY <1>1, <1>2, <1>3, CaptureCounts

-----------------------------------------------------------------------------
(* Steps that take slots off the stack, and calls.                          *)

LEMMA PopCounts == UInv /\ Pop /\ IInv' => UInv'
<1> SUFFICES ASSUME UInv, Pop, IInv' PROVE UInv'
  OBVIOUS
<1>1. /\ pc = "run" /\ Height > 1 /\ stack' = Front(stack) /\ counted' = counted - 1
      /\ UNCHANGED <<pc, capacity, stackStart>>
  BY DEF Pop
<1>2. Len(stack) \in Nat \ {0} /\ DOMAIN stack = 1..Len(stack) /\ stack \in Seq(Content)
  BY TopSlot DEF UInv, IInv, Shape
<1>3. /\ Len(stack') = Len(stack) - 1 /\ DOMAIN stack' = 1..Len(stack) - 1
      /\ \A k \in 1..Len(stack) - 1 : stack'[k] = stack[k]
  <2>1. stack' = SubSeq(stack, 1, Len(stack) - 1)
    BY <1>1 DEF Front
  <2>. QED  BY <1>2, <2>1, Prefix, LenProperties
<1>4. \A u \in Upvalue : upvalue'[u] # None => upvalue'[u].closed # Junk
  BY <1>1, ClosesWritten DEF Pop, UInv, Wrote
<1>5. Wrote'
  <2>1. \A k \in 1..Len(stack) - 1 : k \in DOMAIN stack
    BY <1>2
  <2>. QED  BY <1>1, <1>3, <1>4, <2>1 DEF UInv, Wrote
<1>6. AsCounted'
  BY <1>1, <1>2, <1>3 DEF UInv, AsCounted
<1>. QED
  BY <1>5, <1>6 DEF UInv

LEMMA ReturnCounts == UInv /\ Return /\ IInv' => UInv'
<1> SUFFICES ASSUME UInv, Return, IInv' PROVE UInv'
  OBVIOUS
<1> DEFINE base == Index(Frame.stackStart)
<1>1. /\ pc = "run" /\ Height > 1 /\ capacity' = capacity
      /\ upvalue' = ClosedUpvalues(stackStart, stack)
  BY DEF Return
<1>2. /\ Len(stack) \in Nat /\ DOMAIN stack = 1..Len(stack)
      /\ base \in Nat /\ base + 1 < Len(stack)
  BY <1>1, TopFrame DEF Height, UInv
<1>3. Peek # Junk
  BY <1>1, TopSlot DEF UInv, Wrote
<1>4. \A u \in Upvalue : upvalue'[u] # None => upvalue'[u].closed # Junk
  BY <1>1, ClosesWritten DEF UInv
<1>5. CASE Front(frames) = <<>>
  <2>1. stack' = <<Peek>> /\ pc' = "done" /\ counted' = 0 /\ UNCHANGED stackStart
    BY <1>5 DEF Return
  <2>2. DOMAIN stack' = {1} /\ stack'[1] = Peek
    BY <2>1
  <2>3. Wrote'
    BY <1>3, <1>4, <2>1, <2>2 DEF Wrote
  <2>4. AsCounted'
    BY <1>1, <2>1 DEF UInv, AsCounted
  <2>. QED  BY <2>3, <2>4 DEF UInv
<1>6. CASE Front(frames) # <<>>
  <2> DEFINE w == Written(stackStart, Peek)
  <2>1. stack' = SubSeq(w, 1, base + 1) /\ counted' = base + 1 /\ pc' = "run"
    BY <1>1, <1>6 DEF Return
  <2>2. /\ Len(w) = Len(stack) /\ w \in Seq(Content \cup {Peek})
        /\ \A j \in 1..Len(stack) : w[j] = stack[j] \/ w[j] = Peek
    <3>1. IInv /\ DOMAIN stack = 1..Len(stack)
      BY TopSlot DEF UInv
    <3>2. /\ Len(w) = Len(stack) /\ w \in Seq(Content \cup {Peek})
          /\ \A j \in DOMAIN stack : w[j] = stack[j] \/ w[j] = Peek
      BY <3>1, WrittenSlots, Zenon
    <3>. QED  BY <3>1, <3>2
  <2>3. /\ Len(stack') = base + 1 /\ DOMAIN stack' = 1..base + 1
        /\ \A j \in 1..base + 1 : stack'[j] = w[j]
    <3> HIDE DEF w
    <3>1. base + 1 \in 0..Len(w)
      BY <1>2, <2>2
    <3>2. /\ SubSeq(w, 1, base + 1) \in Seq(Content \cup {Peek})
          /\ Len(SubSeq(w, 1, base + 1)) = base + 1
          /\ \A j \in 1..base + 1 : SubSeq(w, 1, base + 1)[j] = w[j]
      BY <2>2, <3>1, Prefix
    <3>. QED  BY <2>1, <3>2, LenProperties
  <2> HIDE DEF w
  <2>4. \A j \in 1..base + 1 : stack[j] # Junk /\ j \in 1..Len(stack)
    BY <1>1, <1>2 DEF UInv, Wrote
  <2>5. Wrote'
    BY <1>3, <1>4, <2>1, <2>2, <2>3, <2>4 DEF Wrote
  <2>6. Index(stackStart') <= capacity'
    <3>1. pc' # "done" /\ IInv'
      BY <2>1
    <3>2. /\ Index(stackStart') = Index(Frame'.stackStart) /\ Index(Frame'.stackStart) < Len(stack')
          /\ Len(stack') <= capacity' /\ capacity' \in Nat
      BY <3>1 DEF IInv, Laid, Shape
    <3>3. Len(stack') \in Nat /\ Index(Frame'.stackStart) \in Int
      BY <1>2, <2>3, <3>1, <3>2 DEF IInv, Shape, Address, Index
    <3>. QED  BY <3>2, <3>3
  <2>7. AsCounted'
    BY <1>2, <2>1, <2>3, <2>6 DEF AsCounted
  <2>. QED  BY <2>5, <2>7 DEF UInv
<1>. QED
  BY <1>5, <1>6

LEMMA CallMethodCounts ==
  ASSUME NEW n \in Nat \ {0}, UInv, CallMethod(n), IInv'
  PROVE  UInv'
<1>1. /\ pc = "run" /\ pc' = "method"
      /\ UNCHANGED <<capacity, stack, stackStart, upvalue, counted>>
  BY DEF CallMethod, memory
<1>2. Index(apiStack') < Len(stack) /\ Index(apiStack') \in Nat
  <2>1. apiStack' # None /\ Index(apiStack') < Len(stack')
    BY <1>1 DEF IInv, Laid
  <2>2. apiStack' \in Address
    BY <2>1 DEF IInv, Shape
  <2>. QED  BY <1>1, <2>1, <2>2 DEF Address, Index
<1>3. \A i \in 1..Index(apiStack') : i \in DOMAIN stack
  BY <1>2, TopSlot DEF UInv
<1>. QED
  BY <1>1, <1>3 DEF UInv, Wrote, AsCounted

LEMMA CallAllocatorCounts == UInv /\ (CallAllocator \/ WildAccess) /\ IInv' => UInv'
<1> SUFFICES ASSUME UInv, CallAllocator \/ WildAccess, IInv' PROVE UInv'
  OBVIOUS
<1>1. /\ pc = "run" /\ pc' \in {"allocator", "crashed"}
      /\ UNCHANGED <<capacity, stack, stackStart, upvalue, counted>>
  BY DEF CallAllocator, WildAccess, memory, pointers
<1>. QED
  BY <1>1 DEF UInv, Wrote, AsCounted

LEMMA MethodReturnsCounts ==
  ASSUME NEW d \in Data, UInv, MethodReturns(d), IInv'
  PROVE  UInv'
<1> DEFINE top == Index(apiStack)
           w == Written(apiStack, d)
<1>1. /\ pc = "method" /\ pc' = "run" /\ counted' = top + 1
      /\ stack' = SubSeq(w, 1, top + 1)
      /\ UNCHANGED <<capacity, stackStart, upvalue>>
  BY DEF MethodReturns, MethodTop
<1>2. top \in Nat /\ top < Len(stack) /\ Len(stack) \in Nat /\ DOMAIN stack = 1..Len(stack)
  <2>1. apiStack # None /\ apiStack \in Nat \X Nat
    BY <1>1 DEF UInv, IInv, Laid, Shape, Address
  <2>. QED  BY <2>1, TopSlot DEF UInv, IInv, Laid, Index
<1>3. /\ Len(w) = Len(stack) /\ w \in Seq(Content \cup {d})
      /\ \A j \in 1..Len(stack) : w[j] = stack[j] \/ w[j] = d
      /\ w[top + 1] = d
  <2>1. top + 1 \in DOMAIN stack
    BY <1>2
  <2>. QED  BY <1>2, <2>1, WrittenSlots DEF UInv
<1> HIDE DEF top, w
<1>4. /\ Len(stack') = top + 1 /\ DOMAIN stack' = 1..top + 1
      /\ \A j \in 1..top + 1 : stack'[j] = w[j]
  <2>1. top + 1 \in 0..Len(w)
    BY <1>2, <1>3
  <2>2. /\ SubSeq(w, 1, top + 1) \in Seq(Content \cup {d})
        /\ Len(SubSeq(w, 1, top + 1)) = top + 1
        /\ \A j \in 1..top + 1 : SubSeq(w, 1, top + 1)[j] = w[j]
    BY <1>3, <2>1, Prefix
  <2>. QED  BY <1>1, <2>2, LenProperties
<1>5. d # Junk
  BY StackAssumption DEF Value
<1>6. \A j \in 1..top + 1 : w[j] # Junk
  <2>1. \A j \in 1..top : stack[j] # Junk /\ j \in 1..Len(stack)
    BY <1>1, <1>2 DEF UInv, Wrote, top
  <2>2. \A j \in 1..top + 1 : j \in 1..top \/ j = top + 1
    BY <1>2
  <2>. QED  BY <1>3, <1>5, <2>1, <2>2
<1>7. Wrote'
  BY <1>1, <1>4, <1>6 DEF UInv, Wrote
<1>8. AsCounted'
  BY <1>1, <1>2, <1>4 DEF UInv, AsCounted
<1>. QED
  BY <1>7, <1>8 DEF UInv

\* Moving an upvalue does not write to it.
LEMMA MovedWritten ==
  ASSUME UInv, upvalue' = MovedUpvalues
  PROVE  \A u \in Upvalue : upvalue'[u] # None => upvalue'[u].closed # Junk
<1> TAKE u \in Upvalue
<1>1. CASE u \in Range(openUpvalues)
  <2>1. Points(u)
    BY <1>1 DEF UInv, IInv, Linked, Range
  <2>2. upvalue[u] \in OpenOrClosed
    BY <2>1 DEF UInv, IInv, Shape, Points
  <2>3. upvalue'[u].closed = upvalue[u].closed
    BY <1>1, <2>2 DEF MovedUpvalues, OpenOrClosed
  <2>. QED  BY <2>1, <2>3 DEF Points, UInv, Wrote
<1>2. CASE u \notin Range(openUpvalues)
  BY <1>2 DEF MovedUpvalues, UInv, Wrote
<1>. QED
  BY <1>1, <1>2

LEMMA CallCounts ==
  ASSUME NEW n \in Nat \ {0}, UInv, Call(n), IInv'
  PROVE  UInv'
<1>1. /\ pc = "run" /\ upvalue' = MovedUpvalues
      /\ UNCHANGED <<pc, stack, counted>>
  BY DEF Call
<1>2. Wrote'
  BY <1>1, MovedWritten, SameWrote DEF UInv
<1>3. Index(stackStart') <= capacity'
  <2>1. /\ Index(stackStart') = Index(Frame'.stackStart) /\ Index(Frame'.stackStart) < Len(stack')
        /\ Len(stack') <= capacity' /\ capacity' \in Nat
    BY <1>1 DEF IInv, Laid, Shape
  <2>2. Len(stack') \in Nat /\ Index(stackStart') \in Nat
    BY <1>1, TopSlot DEF UInv, IInv, Shape, Address, Index
  <2>. QED  BY <2>1, <2>2
<1>4. AsCounted'
  BY <1>1, <1>3 DEF UInv, AsCounted
<1>. QED
  BY <1>2, <1>4 DEF UInv

LEMMA WrenEnsureSlotsCounts ==
  ASSUME Modest, NEW n \in Nat, UInv, WrenEnsureSlots(n), IInv'
  PROVE  UInv' /\ pc = "method"
<1>1. Index(apiStack) \in Nat /\ Index(apiStack) < Len(stack) /\ Len(stack) \in Nat
  <2>1. apiStack # None /\ apiStack \in Nat \X Nat
    BY DEF WrenEnsureSlots, UInv, IInv, Laid, Shape, Address
  <2>. QED  BY <2>1, TopSlot DEF UInv, IInv, Laid, Index
<1>2. pc = "method" /\ pc' = "method"
  <2>1. Len(stack) - Index(apiStack) < n
    BY DEF WrenEnsureSlots
  <2>2. n \notin {0, 1}
    BY <1>1, <2>1
  <2>. QED  BY <2>2 DEF WrenEnsureSlots, Modest
<1> DEFINE more == Index(apiStack) + n - Len(stack)
           pad == [i \in 1..more |-> Junk]
<1>3. /\ EnsureStack(Index(apiStack) + n) /\ apiStack' = Moved(apiStack)
      /\ stack' = stack \o pad /\ upvalue' = MovedUpvalues
      /\ UNCHANGED <<stackStart, counted>>
      /\ Len(stack) - Index(apiStack) < n
  BY DEF WrenEnsureSlots
<1>4. more \in Nat
  BY <1>1, <1>3
<1>5. \A k \in 1..Len(stack) : stack'[k] = stack[k]
  <2> HIDE DEF more
  <2>1. pad \in [1..more -> Content]
    BY DEF Content
  <2>2. pad \in Seq(Content)
    BY <1>4, <2>1, SeqDef
  <2> HIDE DEF pad
  <2>3. Len(pad) \in Nat /\ stack \in Seq(Content)
    BY <2>2, LenProperties DEF UInv, IInv, Shape
  <2>4. \A k \in 1..Len(stack) + Len(pad) :
          (stack \o pad)[k] = IF k <= Len(stack) THEN stack[k] ELSE pad[k - Len(stack)]
    BY <2>2, <2>3, ConcatProperties
  <2> TAKE k \in 1..Len(stack)
  <2>5. k \in 1..Len(stack) + Len(pad) /\ k <= Len(stack)
    BY <1>1, <2>3
  <2>. QED  BY <1>3, <2>4, <2>5
<1>6. Index(apiStack') = Index(apiStack)
  BY <1>3 DEF Moved, Index
<1>7. \A k \in 1..Index(apiStack') : stack'[k] # Junk
  <2> TAKE k \in 1..Index(apiStack')
  <2>1. k \in 1..Index(apiStack) /\ k \in 1..Len(stack)
    BY <1>1, <1>6
  <2>. QED  BY <1>2, <1>5, <2>1 DEF UInv, Wrote
<1>8. Wrote'
  BY <1>2, <1>3, <1>7, MovedWritten DEF Wrote
<1>9. capacity <= capacity' /\ capacity \in Nat /\ capacity' \in Nat
  <2>1. Index(apiStack) + n \in Nat \ {0}
    BY <1>1, <1>3
  <2>2. array \in Nat /\ capacity \in Nat
    BY DEF UInv, IInv, Shape
  <2>. QED  BY <1>3, <2>1, <2>2, GrowsEnough
<1>10. AsCounted'
  <2>1. Index(stackStart) \in Nat /\ Index(stackStart) <= capacity
    BY DEF UInv, IInv, Shape, Address, Index, AsCounted
  <2>. QED  BY <1>2, <1>3, <1>9, <2>1 DEF UInv, AsCounted
<1>. QED
  BY <1>2, <1>8, <1>10 DEF UInv

LEMMA CollectGarbageCounts == UInv /\ CollectGarbage /\ IInv' => UInv'
<1> SUFFICES ASSUME UInv, CollectGarbage, IInv' PROVE UInv'
  OBVIOUS
<1>1. UNCHANGED <<pc, capacity, stack, stackStart, apiStack, counted>>
  BY DEF CollectGarbage, memory
<1>2. \A u \in Upvalue : upvalue'[u] # None => upvalue'[u] = upvalue[u]
  BY DEF CollectGarbage
<1>3. Wrote'
  BY <1>1, <1>2 DEF UInv, Wrote
<1>. QED
  BY <1>1, <1>3 DEF UInv, AsCounted

-----------------------------------------------------------------------------
(* The invariant.                                                           *)

LEMMA InitCounts == Init => UInv
<1> SUFFICES ASSUME Init PROVE UInv
  OBVIOUS
<1>1. IInv
  BY InitKeeps
<1>2. stack = << <<>> >> /\ pc = "run" /\ counted = 1 /\ stackStart = <<0, 0>>
      /\ \A u \in Upvalue : upvalue[u] = None
  BY DEF Init, At
<1>3. <<>> # Junk
  BY Closures, StackAssumption DEF Value
<1>4. DOMAIN stack = {1} /\ stack[1] = <<>> /\ Len(stack) = 1
  BY <1>2
<1>5. Wrote
  BY <1>2, <1>3, <1>4 DEF Wrote
<1>6. AsCounted
  BY <1>1, <1>2, <1>4 DEF AsCounted, IInv, Shape, Index
<1>. QED
  BY <1>1, <1>5, <1>6 DEF UInv

LEMMA StepCounts ==
  ASSUME Modest, UInv, [Next]_vars
  PROVE  UInv'
<1>1. IInv'
  BY StepKeeps DEF UInv
<1>2. ASSUME NEW n \in 1..MaxArgs, Call(n) \/ CallMethod(n)
      PROVE  UInv'
  <2>1. n \in Nat \ {0}
    BY StackAssumption
  <2>. QED  BY <1>1, <1>2, <2>1, CallCounts, CallMethodCounts
<1>3. ASSUME NEW n \in MethodSlots \cup AllocatorSlots, WrenEnsureSlots(n)
      PROVE  UInv'
  <2>1. n \in Nat
    BY StackAssumption
  <2>. QED  BY <1>1, <1>3, <2>1, WrenEnsureSlotsCounts
<1>4. ASSUME NEW i \in 0..MaxSlots + MaxArgs,
             StoreLocal(i) \/ StoreUpvalue(i) \/ CaptureLocal(i) \/ CaptureOuter(i)
      PROVE  UInv'
  BY <1>1, <1>4, StoreLocalCounts, StoreUpvalueCounts, CaptureLocalCounts, CaptureOuterCounts
<1>5. ASSUME NEW d \in Data, Construct(d) \/ MethodReturns(d) \/ AllocatorReturns(d)
      PROVE  UInv'
  BY <1>1, <1>5, ConstructCounts, MethodReturnsCounts
<1>6. CASE Load \/ Pop \/ NewClosure \/ ClosureDone \/ Return
  BY <1>1, <1>6, LoadCounts, PopCounts, NewClosureCounts, ClosureDoneCounts, ReturnCounts
<1>7. CASE CallAllocator \/ WildAccess
  BY <1>1, <1>7, CallAllocatorCounts
<1>8. CASE CollectGarbage
  BY <1>1, <1>8, CollectGarbageCounts
<1>9. CASE UNCHANGED vars
  BY <1>1, <1>9 DEF vars, memory, pointers, UInv, Wrote, AsCounted
<1>. QED
  BY <1>2, <1>3, <1>4, <1>5, <1>6, <1>7, <1>8, <1>9 DEF Next

\* When allocators use the one slot they have, every slot an instruction can
\* read was written, and the stack is as high as the compiler counted.
THEOREM InductiveCounts == Modest => (Spec => []UInv)
<1> SUFFICES ASSUME Modest PROVE Spec => []UInv
  OBVIOUS
<1>1. UInv /\ [Next]_vars => UInv'
  BY StepCounts
<1>. QED
  BY <1>1, InitCounts, PTL DEF Spec

\* HeightAsCompiled: each instruction has the effect on the height of the stack
\* that the compiler gave it, through calls, native code and collections.
THEOREM HeightCounted == Modest => (Spec => []HeightAsCompiled)
<1> SUFFICES ASSUME Modest PROVE Spec => []HeightAsCompiled
  OBVIOUS
<1>1. UInv => HeightAsCompiled
  BY DEF UInv, AsCounted, HeightAsCompiled
<1>. QED
  BY <1>1, InductiveCounts, PTL

LEMMA Typed == UInv => TypeOK
<1> SUFFICES ASSUME UInv PROVE TypeOK
  OBVIOUS
<1>1. /\ array \in Nat /\ capacity \in Nat /\ counted \in Nat
      /\ Len(stack) \in Nat /\ Len(stack) <= capacity
  BY TopSlot DEF UInv, IInv, Shape, Laid, AsCounted
<1>2. \A a, i \in Nat : a <= array /\ i <= capacity => <<a, i>> \in Addresses
  BY <1>1 DEF Addresses
<1>3. \A a \in Address : a[1] <= array /\ Index(a) <= capacity => a \in Addresses
  BY <1>2 DEF Address, Index
<1>4. stackTop \in Addresses
  BY <1>1, <1>2 DEF stackTop, At
<1>5. stackStart \in Addresses
  BY <1>3 DEF UInv, IInv, Shape, AsCounted
<1>6. apiStack \in Addresses \cup {None}
  <2>1. ASSUME apiStack # None
        PROVE  apiStack \in Addresses
    <3>1. apiStack \in Address /\ apiStack[1] = array /\ Index(apiStack) < Len(stack)
      BY <2>1 DEF UInv, IInv, Shape, Laid, Valid
    <3>2. Index(apiStack) \in Nat
      BY <3>1 DEF Address, Index
    <3>3. apiStack[1] <= array /\ Index(apiStack) <= capacity
      BY <1>1, <3>1, <3>2
    <3>. QED  BY <1>3, <3>1, <3>3
  <2>. QED  BY <2>1
<1>7. stack \in Seq(Value \cup {Junk}) /\ openUpvalues \in Seq(Upvalue)
  BY DEF UInv, IInv, Shape, Content
<1>8. frames \in Seq([stackStart : Addresses, closure : Value \ Data, height : Nat])
  <2> DEFINE T == [stackStart : Addresses, closure : Value \ Data, height : Nat]
  <2>1. frames \in Seq(FrameType) /\ Len(frames) \in Nat /\ DOMAIN frames = 1..Len(frames)
    BY LenProperties DEF UInv, IInv, Shape
  <2>2. ASSUME NEW k \in 1..Len(frames)
        PROVE  frames[k] \in T
    <3>1. frames[k] \in FrameType
      BY <2>1, ElementOfSeq
    <3>2. /\ frames[k].stackStart[1] = array
          /\ Index(frames[k].stackStart) + frames[k].height <= capacity
      BY <2>1 DEF UInv, IInv, Laid, FramesFit, Valid
    <3>3. Index(frames[k].stackStart) \in Nat /\ frames[k].height \in Nat
      BY <3>1 DEF FrameType, Address, Index
    <3>4. frames[k].stackStart \in Addresses
      <4>1. frames[k].stackStart \in Address
        BY <3>1 DEF FrameType
      <4>2. frames[k].stackStart[1] <= array /\ Index(frames[k].stackStart) <= capacity
        BY <1>1, <3>2, <3>3
      <4>. QED  BY <1>3, <4>1, <4>2
    <3>5. frames[k].closure \in Value \ Data
      BY <3>1, StackAssumption DEF FrameType, Value
    <3>. QED  BY <3>1, <3>3, <3>4, <3>5 DEF FrameType
  <2>3. frames = [k \in 1..Len(frames) |-> frames[k]]
    BY <2>1
  <2> HIDE DEF T
  <2>4. frames \in [1..Len(frames) -> T]
    BY <2>2, <2>3
  <2>5. frames \in Seq(T)
    BY <2>1, <2>4, SeqDef
  <2>. QED  BY <2>5 DEF T
<1>9. upvalue \in [Upvalue -> [value : Addresses \cup {Closed}, closed : Value \cup {None}]
                               \cup {None}]
  <2>1. upvalue \in [Upvalue -> OpenOrClosed \cup {None}]
    BY DEF UInv, IInv, Shape
  <2>2. ASSUME NEW u \in Upvalue, upvalue[u] # None
        PROVE  upvalue[u] \in [value : Addresses \cup {Closed}, closed : Value \cup {None}]
    <3>1. upvalue[u] \in OpenOrClosed /\ upvalue[u].closed # Junk
      BY <2>1, <2>2 DEF UInv, Wrote
    <3>2. CASE upvalue[u] \in [value : {Closed}, closed : Content]
      BY <3>1, <3>2 DEF Content
    <3>3. CASE upvalue[u] \in [value : Address, closed : {None}]
      <4>1. upvalue[u].value # Closed /\ upvalue[u].value \in Address
        BY <3>3 DEF Closed, Address
      <4>2. upvalue[u].value = At(Index(upvalue[u].value))
            /\ Index(upvalue[u].value) \in 0..Len(stack) - 1
        BY <2>2, <4>1, CapturedValue DEF Live, UInv
      <4>3. upvalue[u].value \in Addresses
        <5>1. Index(upvalue[u].value) \in Nat /\ Index(upvalue[u].value) <= capacity
          BY <1>1, <4>2
        <5>2. <<array, Index(upvalue[u].value)>> \in Addresses
          BY <1>1, <5>1 DEF Addresses
        <5>. QED  BY <4>2, <5>2 DEF At
      <4>. QED  BY <3>3, <4>3
    <3>. QED  BY <3>1, <3>2, <3>3 DEF OpenOrClosed
  <2>. QED  BY <2>1, <2>2
<1>10. pc \notin {"method", "allocator"} => \A i \in DOMAIN stack : stack[i] # Junk
  BY DEF UInv, Wrote
<1>11. pc \in {"run", "closure", "method", "allocator", "done", "crashed"}
  BY DEF UInv, IInv, Shape
<1>. QED
  BY <1>1, <1>4, <1>5, <1>6, <1>7, <1>8, <1>9, <1>10, <1>11 DEF TypeOK

\* The variables have their types, and nothing that was never written is below
\* the top of the stack while the interpreter runs: a collection in any
\* instruction marks initialized slots only.
THEOREM StackTypes == Modest => (Spec => []TypeOK)
<1> SUFFICES ASSUME Modest PROVE Spec => []TypeOK
  OBVIOUS
<1>. QED
  BY Typed, InductiveCounts, PTL

LEMMA StepSteady ==
  ASSUME Still, UInv, Steady, [Next]_vars
  PROVE  Steady'
<1>1. UInv' /\ IInv'
  BY StepCounts DEF Still, UInv
<1>2. \A n \in MethodSlots \cup AllocatorSlots : ~WrenEnsureSlots(n)
  <2> SUFFICES ASSUME NEW n \in MethodSlots \cup AllocatorSlots, WrenEnsureSlots(n)
               PROVE  FALSE
    OBVIOUS
  <2>1. n \in Nat
    BY StackAssumption
  <2>2. pc = "method"
    BY <1>1, <2>1, WrenEnsureSlotsCounts DEF Still
  <2>. QED  BY <2>2 DEF WrenEnsureSlots, Still
<1>3. ASSUME NEW n, Call(n)
      PROVE  Steady'
  <2>1. stackStart' = Plus(Moved(stackTop), -n) /\ pc' = "run"
    BY <1>3 DEF Call
  <2>. QED  BY <2>1 DEF Steady, Valid, Plus, Moved
<1>4. CASE Return
  <2>1. pc = "run" /\ array' = array
    BY <1>4 DEF Return
  <2>2. CASE Front(frames) = <<>>
    BY <1>4, <2>2 DEF Return, Steady
  <2>3. CASE Front(frames) # <<>>
    <3>1. stackStart' = frames'[Len(frames')].stackStart /\ frames' # <<>> /\ pc' = "run"
      BY <1>4, <2>1, <2>3 DEF Return
    <3>2. Len(frames') \in DOMAIN frames'
      <4>1. frames' \in Seq(FrameType)
        BY <1>1 DEF IInv, Shape
      <4>. QED  BY <3>1, <4>1, LenProperties, EmptySeq
    <3>. QED  BY <1>1, <3>1, <3>2 DEF IInv, Laid, Steady, Valid
  <2>. QED  BY <2>2, <2>3
<1>5. ASSUME array' = array, stackStart' = stackStart, pc' # "crashed", pc' = "done" \/ pc # "done"
      PROVE  Steady'
  BY <1>5 DEF Steady, Valid
<1>6. CASE Load \/ Pop \/ NewClosure \/ ClosureDone \/ CallAllocator
  BY <1>5, <1>6 DEF Load, Pop, NewClosure, ClosureDone, CallAllocator, memory, pointers
<1>7. ASSUME NEW i,
             StoreLocal(i) \/ StoreUpvalue(i) \/ CaptureLocal(i) \/ CaptureOuter(i)
      PROVE  Steady'
  BY <1>5, <1>7 DEF StoreLocal, StoreUpvalue, CaptureLocal, CaptureOuter, pointers
<1>8. ASSUME NEW d, Construct(d) \/ MethodReturns(d) \/ AllocatorReturns(d)
      PROVE  Steady'
  BY <1>5, <1>8 DEF Construct, MethodReturns, AllocatorReturns, pointers
<1>9. ASSUME NEW n, CallMethod(n)
      PROVE  Steady'
  BY <1>5, <1>9 DEF CallMethod, memory
<1>10. CASE CollectGarbage \/ UNCHANGED vars
  <2>1. UNCHANGED <<pc, array, stackStart>>
    BY <1>10 DEF CollectGarbage, vars, memory, pointers
  <2>. QED  BY <2>1 DEF Steady, Valid
<1>11. ~WildAccess
  BY DEF WildAccess, Steady
<1>. QED
  BY <1>2, <1>3, <1>4, <1>6, <1>7, <1>8, <1>9, <1>10, <1>11 DEF Next

\* While native code does not make the stack move, calls of functions, deep as
\* they are, never leave the interpreter with the address of a freed array.
THEOREM CallsNeverCrash == Still => (Spec => []NeverCrashes)
<1> SUFFICES ASSUME Still PROVE Spec => []NeverCrashes
  OBVIOUS
<1>1. Init => UInv /\ Steady
  BY InitCounts DEF Init, Steady, Valid, At
<1>2. UInv /\ Steady /\ [Next]_vars => (UInv /\ Steady)'
  BY StepCounts, StepSteady DEF Still
<1>3. UInv /\ Steady => NeverCrashes
  BY DEF Steady, NeverCrashes
<1>. QED
  BY <1>1, <1>2, <1>3, PTL DEF Spec

=============================================================================

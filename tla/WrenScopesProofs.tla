-------------------------- MODULE WrenScopesProofs ---------------------------
(***************************************************************************)
(* WrenStack implements WrenScopes, for any functions, depth of calls,      *)
(* upvalues and foreign methods.                                            *)
(*                                                                         *)
(* An open upvalue is the only thing that stands between a slot and the     *)
(* variable a script sees, so the argument is about one slot at a time: what*)
(* it is to the script (LocalOf), and what an upvalue holds (ContentOf),    *)
(* before and after a step.                                                 *)
(***************************************************************************)
EXTENDS WrenStackProofs

\* A closure may refer to what its scope has captured or shares.
Shares(closure) ==
  \A u \in Range(closure) :
    \/ u \in Range(Frame.closure)
    \/ /\ u \in Range(openUpvalues)
       /\ Index(upvalue[u].value) >= Index(Frame.stackStart)

\* The slots the compiler counts are those of the running frame, they have been
\* written, and no upvalue points above them.
Fresh ==
  /\ frames # <<>> => counted \in Index(Frame.stackStart) + 1..Len(stack)
  /\ \A i \in 1..counted : stack[i] # Junk
  /\ \A k \in DOMAIN openUpvalues : Index(upvalue[openUpvalues[k]].value) < counted
  /\ pc = "closure" => Shares(Peek)
  /\ pc = "method" => counted > Index(apiStack)

RInv == UInv /\ Fresh

-----------------------------------------------------------------------------
(* The invariant.                                                           *)

\* The slots of a function that runs are all the compiler's.
LEMMA RunningFresh == UInv /\ pc \in {"run", "allocator"} => Fresh
<1> SUFFICES ASSUME UInv, pc \in {"run", "allocator"} PROVE Fresh
  OBVIOUS
<1>1. /\ Len(stack) = counted /\ Len(stack) \in Nat \ {0} /\ DOMAIN stack = 1..Len(stack)
      /\ \A i \in DOMAIN stack : stack[i] # Junk
  BY TopSlot DEF UInv, AsCounted, Wrote
<1>2. /\ Index(Frame.stackStart) \in Nat /\ Index(Frame.stackStart) < Len(stack)
  BY TopFrame DEF UInv, IInv, Laid
<1>3. \A k \in DOMAIN openUpvalues :
        Index(upvalue[openUpvalues[k]].value) \in 0..Len(stack) - 1
  BY DEF UInv, IInv, Linked, Points
<1>. QED
  BY <1>1, <1>2, <1>3 DEF Fresh

-----------------------------------------------------------------------------
(* What the slots and the upvalues are to a script.                         *)

LocalType == [value : Content \cup {None}, box : Upvalue \cup {None}]
ScopeType == [locals : Seq(LocalType), captured : Closure]

\* The slots of a call, as ScopeOf() has them.
Bottom(k) == Index(frames[k].stackStart)
Upto(k) == IF k = Len(frames) THEN counted ELSE Bottom(k + 1)
View(first, last) == [i \in 1..last - first |-> LocalOf(first + i)]

\* The open upvalues, one to a slot.
LEMMA OpenAre ==
  IInv => /\ \A u \in Range(openUpvalues) :
               /\ u \in Upvalue /\ upvalue[u] # None /\ upvalue[u].value # Closed
               /\ Index(upvalue[u].value) \in 0..Len(stack) - 1
          /\ \A u \in Upvalue :
               upvalue[u] # None /\ upvalue[u].value # Closed => u \in Range(openUpvalues)
          /\ \A u, w \in Range(openUpvalues) :
               Index(upvalue[u].value) = Index(upvalue[w].value) => u = w
<1> SUFFICES ASSUME IInv
             PROVE  /\ \A u \in Range(openUpvalues) :
                         /\ u \in Upvalue /\ upvalue[u] # None /\ upvalue[u].value # Closed
                         /\ Index(upvalue[u].value) \in 0..Len(stack) - 1
                    /\ \A u \in Upvalue :
                         upvalue[u] # None /\ upvalue[u].value # Closed
                           => u \in Range(openUpvalues)
                    /\ \A u, w \in Range(openUpvalues) :
                         Index(upvalue[u].value) = Index(upvalue[w].value) => u = w
  OBVIOUS
<1>1. /\ openUpvalues \in Seq(Upvalue) /\ Len(openUpvalues) \in Nat
      /\ DOMAIN openUpvalues = 1..Len(openUpvalues)
  BY LenProperties DEF IInv, Shape
<1>2. ASSUME NEW k \in 1..Len(openUpvalues)
      PROVE  /\ openUpvalues[k] \in Upvalue
             /\ upvalue[openUpvalues[k]] # None /\ upvalue[openUpvalues[k]].value # Closed
             /\ Index(upvalue[openUpvalues[k]].value) \in 0..Len(stack) - 1
  <2>1. openUpvalues[k] \in Upvalue
    BY <1>1, ElementOfSeq
  <2>2. Points(openUpvalues[k])
    BY <1>1 DEF IInv, Linked
  <2>3. array \in Nat
    BY DEF IInv, Shape
  <2>. QED  BY <2>1, <2>2, <2>3 DEF Points, Valid, Closed
<1>3. \A u \in Range(openUpvalues) :
        /\ u \in Upvalue /\ upvalue[u] # None /\ upvalue[u].value # Closed
        /\ Index(upvalue[u].value) \in 0..Len(stack) - 1
  BY <1>1, <1>2 DEF Range
<1>4. \A u \in Upvalue :
        upvalue[u] # None /\ upvalue[u].value # Closed => u \in Range(openUpvalues)
  BY DEF IInv, Linked, OpenUpvaluesSorted
<1>5. ASSUME NEW j \in 1..Len(openUpvalues), NEW k \in 1..Len(openUpvalues),
             Index(upvalue[openUpvalues[j]].value) = Index(upvalue[openUpvalues[k]].value)
      PROVE  j = k
  <2>1. /\ j < k => Index(upvalue[openUpvalues[k]].value) < Index(upvalue[openUpvalues[j]].value)
        /\ k < j => Index(upvalue[openUpvalues[j]].value) < Index(upvalue[openUpvalues[k]].value)
    BY <1>1 DEF IInv, Linked, OpenUpvaluesSorted
  <2>2. /\ Index(upvalue[openUpvalues[j]].value) \in Int
        /\ Index(upvalue[openUpvalues[k]].value) \in Int
    BY <1>2
  <2>. QED  BY <1>5, <2>1, <2>2
<1>. QED
  BY <1>1, <1>3, <1>4, <1>5 DEF Range

\* The variable of a slot is shared if an open upvalue points there.
LEMMA BoxesAre ==
  IInv => /\ \A i \in Nat :
               \/ BoxOf(i) = None
               \/ /\ BoxOf(i) \in Range(openUpvalues)
                  /\ Index(upvalue[BoxOf(i)].value) = i - 1
          /\ \A u \in Range(openUpvalues) : BoxOf(Index(upvalue[u].value) + 1) = u
          /\ None \notin Range(openUpvalues)
<1> SUFFICES ASSUME IInv
             PROVE  /\ \A i \in Nat :
                         \/ BoxOf(i) = None
                         \/ /\ BoxOf(i) \in Range(openUpvalues)
                            /\ Index(upvalue[BoxOf(i)].value) = i - 1
                    /\ \A u \in Range(openUpvalues) :
                         BoxOf(Index(upvalue[u].value) + 1) = u
                    /\ None \notin Range(openUpvalues)
  OBVIOUS
<1> DEFINE Pointing(i) == {u \in Range(openUpvalues) : Index(upvalue[u].value) = i - 1}
<1>1. ASSUME NEW i \in Nat
      PROVE  BoxOf(i) = IF Pointing(i) = {} THEN None ELSE CHOOSE u \in Pointing(i) : TRUE
  BY DEF BoxOf
<1>2. ASSUME NEW i \in Nat
      PROVE  \/ BoxOf(i) = None
             \/ /\ BoxOf(i) \in Range(openUpvalues)
                /\ Index(upvalue[BoxOf(i)].value) = i - 1
  <2>1. CASE Pointing(i) = {}
    BY <1>1, <2>1
  <2>2. CASE Pointing(i) # {}
    <3>1. BoxOf(i) \in Pointing(i)
      BY <1>1, <2>2
    <3>. QED  BY <3>1
  <2>. QED  BY <2>1, <2>2
<1>3. ASSUME NEW u \in Range(openUpvalues)
      PROVE  BoxOf(Index(upvalue[u].value) + 1) = u
  <2> DEFINE i == Index(upvalue[u].value) + 1
  <2>1. Index(upvalue[u].value) \in Nat
    BY OpenAre
  <2>2. i \in Nat /\ i - 1 = Index(upvalue[u].value)
    BY <2>1
  <2>3. Pointing(i) = {u}
    BY <2>2, OpenAre
  <2> HIDE DEF i, Pointing
  <2>4. BoxOf(i) = CHOOSE w \in {u} : TRUE
    BY <1>1, <2>2, <2>3
  <2>. QED  BY <2>4 DEF i
<1>4. None \notin Range(openUpvalues)
  BY OpenAre, StackAssumption
<1>. QED
  BY <1>2, <1>3, <1>4

\* What a slot and a row of slots are to the script.
LEMMA ViewsAre ==
  IInv => /\ \A i \in 1..Len(stack) :
               /\ LocalOf(i) \in LocalType
               /\ LocalOf(i).box = BoxOf(i)
               /\ BoxOf(i) = None => LocalOf(i) = [value |-> stack[i], box |-> None]
               /\ BoxOf(i) # None => LocalOf(i) = [value |-> None, box |-> BoxOf(i)]
          /\ \A a, b \in Nat :
               a <= b /\ b <= Len(stack) =>
                 /\ View(a, b) \in Seq(LocalType) /\ Len(View(a, b)) = b - a
                 /\ \A i \in 1..b - a : View(a, b)[i] = LocalOf(a + i)
<1> SUFFICES ASSUME IInv
             PROVE  /\ \A i \in 1..Len(stack) :
                         /\ LocalOf(i) \in LocalType
                         /\ LocalOf(i).box = BoxOf(i)
                         /\ BoxOf(i) = None => LocalOf(i) = [value |-> stack[i], box |-> None]
                         /\ BoxOf(i) # None => LocalOf(i) = [value |-> None, box |-> BoxOf(i)]
                    /\ \A a, b \in Nat :
                         a <= b /\ b <= Len(stack) =>
                           /\ View(a, b) \in Seq(LocalType) /\ Len(View(a, b)) = b - a
                           /\ \A i \in 1..b - a : View(a, b)[i] = LocalOf(a + i)
  OBVIOUS
<1>0. Len(stack) \in Nat
  BY TopSlot
<1>1. ASSUME NEW i \in 1..Len(stack)
      PROVE  /\ LocalOf(i) \in LocalType
             /\ LocalOf(i).box = BoxOf(i)
             /\ BoxOf(i) = None => LocalOf(i) = [value |-> stack[i], box |-> None]
             /\ BoxOf(i) # None => LocalOf(i) = [value |-> None, box |-> BoxOf(i)]
  <2>1. stack[i] \in Content
    BY SlotValue
  <2>2. BoxOf(i) \in Upvalue \cup {None}
    <3>1. i \in Nat
      BY <1>0
    <3>. QED  BY <3>1, BoxesAre, OpenAre
  <2> HIDE DEF BoxOf
  <2>. QED  BY <2>1, <2>2 DEF LocalOf, LocalType
<1>2. ASSUME NEW a \in Nat, NEW b \in Nat, a <= b, b <= Len(stack)
      PROVE  /\ View(a, b) \in Seq(LocalType) /\ Len(View(a, b)) = b - a
             /\ \A i \in 1..b - a : View(a, b)[i] = LocalOf(a + i)
  <2>1. \A i \in 1..b - a : LocalOf(a + i) \in LocalType
    <3> TAKE i \in 1..b - a
    <3>1. a + i \in 1..Len(stack)
      BY <1>0, <1>2
    <3>. QED  BY <1>1, <3>1
  <2> HIDE DEF LocalOf, LocalType
  <2>2. View(a, b) \in [1..b - a -> LocalType] /\ b - a \in Nat
    BY <1>2, <2>1 DEF View
  <2>3. View(a, b) \in Seq(LocalType)
    BY <2>2, SeqDef
  <2>4. Len(View(a, b)) = b - a
    <3>1. DOMAIN View(a, b) = 1..Len(View(a, b)) /\ Len(View(a, b)) \in Nat
      BY <2>3, LenProperties
    <3>2. DOMAIN View(a, b) = 1..b - a
      BY DEF View
    <3>. QED  BY <2>2, <3>1, <3>2
  <2>. QED  BY <2>3, <2>4 DEF View
<1>. QED
  BY <1>1, <1>2

\* The frames further down have their slots further down.
LEMMA FramesRise ==
  IInv /\ frames # <<>> =>
    /\ Len(frames) \in Nat \ {0} /\ DOMAIN frames = 1..Len(frames)
    /\ \A k \in 1..Len(frames) :
         /\ Bottom(k) \in Nat /\ Bottom(k) <= Index(Frame.stackStart)
         /\ frames[k].closure \in Closure
         /\ k < Len(frames) => Bottom(k) < Bottom(k + 1)
    /\ Bottom(Len(frames)) = Index(Frame.stackStart)
<1> SUFFICES ASSUME IInv, frames # <<>>
             PROVE  /\ Len(frames) \in Nat \ {0} /\ DOMAIN frames = 1..Len(frames)
                    /\ \A k \in 1..Len(frames) :
                         /\ Bottom(k) \in Nat /\ Bottom(k) <= Index(Frame.stackStart)
                         /\ frames[k].closure \in Closure
                         /\ k < Len(frames) => Bottom(k) < Bottom(k + 1)
                    /\ Bottom(Len(frames)) = Index(Frame.stackStart)
  OBVIOUS
<1> DEFINE n == Len(frames)
<1>1. frames \in Seq(FrameType) /\ n \in Nat \ {0} /\ DOMAIN frames = 1..n
  BY LenProperties, EmptySeq DEF IInv, Shape
<1>2. ASSUME NEW k \in 1..n
      PROVE  Bottom(k) \in Nat /\ frames[k].closure \in Closure
  <2>1. frames[k] \in FrameType
    BY <1>1, <1>2, ElementOfSeq
  <2>. QED  BY <2>1 DEF Bottom, FrameType, Address, Index
<1>3. ASSUME NEW k \in 1..n, k < n
      PROVE  Bottom(k) < Bottom(k + 1)
  <2>1. k + 1 \in DOMAIN frames /\ k + 1 > 1 /\ k + 1 - 1 = k
    BY <1>1, <1>3
  <2>. QED  BY <2>1 DEF IInv, Laid, FramesFit, Bottom
<1>4. Bottom(n) = Index(Frame.stackStart)
  BY DEF Bottom, Frame
<1> HIDE DEF n, Bottom
<1>5. \A k \in 1..n : Bottom(k) <= Bottom(n)
  <2> DEFINE High == {d \in 0..n - 1 : ~(Bottom(n - d) <= Bottom(n))}
  <2> SUFFICES ASSUME High # {} PROVE FALSE
    <3>1. \A k \in 1..n : n - k \in 0..n - 1 /\ n - (n - k) = k
      BY <1>1
    <3>. QED  BY <3>1
  <2>1. PICK d \in High : \A e \in High : d <= e
    <3>1. High \in SUBSET Nat
      BY <1>1
    <3> HIDE DEF High
    <3>. QED  BY <3>1, LeastExists
  <2>2. d \in 1..n - 1
    <3>1. n - 0 = n /\ n \in 1..n
      BY <1>1
    <3>2. Bottom(n) <= Bottom(n)
      BY <1>2, <3>1
    <3>. QED  BY <1>1, <2>1, <3>1, <3>2
  <2>3. Bottom(n - (d - 1)) <= Bottom(n)
    <3>1. d - 1 \in 0..n - 1 /\ ~(d <= d - 1)
      BY <1>1, <2>2
    <3>. QED  BY <2>1, <3>1
  <2>4. /\ n - d \in 1..n /\ n - d < n /\ n - d + 1 = n - (d - 1)
        /\ n - (d - 1) \in 1..n /\ n \in 1..n
    BY <1>1, <2>2
  <2>5. Bottom(n - d) < Bottom(n - (d - 1))
    BY <1>3, <2>4
  <2>6. Bottom(n - d) \in Nat /\ Bottom(n - (d - 1)) \in Nat /\ Bottom(n) \in Nat
    BY <1>2, <2>4
  <2>. QED  BY <2>1, <2>3, <2>5, <2>6
<1>. QED
  BY <1>1, <1>2, <1>3, <1>4, <1>5 DEF n

\* The calls, and the variables of the innermost one.
LEMMA CallsAre ==
  RInv /\ frames # <<>> =>
    /\ Calls \in Seq(ScopeType) /\ Len(Calls) = Len(frames)
    /\ \A k \in 1..Len(frames) :
         Calls[k] = [locals |-> View(Bottom(k), Upto(k)), captured |-> frames[k].closure]
    /\ \A k \in 1..Len(frames) : Upto(k) \in Bottom(k)..Len(stack)
<1> SUFFICES ASSUME RInv, frames # <<>>
             PROVE  /\ Calls \in Seq(ScopeType) /\ Len(Calls) = Len(frames)
                    /\ \A k \in 1..Len(frames) :
                         Calls[k] = [locals |-> View(Bottom(k), Upto(k)),
                                     captured |-> frames[k].closure]
                    /\ \A k \in 1..Len(frames) : Upto(k) \in Bottom(k)..Len(stack)
  OBVIOUS
<1> DEFINE n == Len(frames)
<1>1. /\ n \in Nat \ {0} /\ DOMAIN frames = 1..n /\ IInv
      /\ \A k \in 1..n : /\ Bottom(k) \in Nat /\ Bottom(k) <= Index(Frame.stackStart)
                         /\ frames[k].closure \in Closure
                         /\ k < n => Bottom(k) < Bottom(k + 1)
      /\ Bottom(n) = Index(Frame.stackStart)
  BY FramesRise DEF RInv, UInv
<1>2. Len(stack) \in Nat /\ counted \in Bottom(n) + 1..Len(stack)
  BY <1>1, TopSlot DEF RInv, Fresh
<1> HIDE DEF n, Bottom
<1>3. ASSUME NEW k \in 1..n
      PROVE  Upto(k) \in Bottom(k)..Len(stack)
  <2>1. CASE k = n
    BY <1>1, <1>2, <2>1 DEF Upto, n
  <2>2. CASE k < n
    <3>1. k + 1 \in 1..n /\ k # n
      BY <1>1, <2>2
    <3>2. Upto(k) = Bottom(k + 1)
      BY <3>1 DEF Upto, n
    <3>. QED  BY <1>1, <1>2, <2>2, <3>1, <3>2
  <2>. QED  BY <1>1, <2>1, <2>2
<1>4. ASSUME NEW k \in 1..n
      PROVE  /\ Calls[k] = [locals |-> View(Bottom(k), Upto(k)),
                            captured |-> frames[k].closure]
             /\ Calls[k] \in ScopeType
  <2>1. ScopeOf(k) = [locals |-> View(Bottom(k), Upto(k)), captured |-> frames[k].closure]
    BY DEF ScopeOf, View, Bottom, Upto
  <2>2. Calls[k] = ScopeOf(k)
    BY <1>1 DEF Calls
  <2>3. View(Bottom(k), Upto(k)) \in Seq(LocalType)
    <3>1. Bottom(k) \in Nat /\ Upto(k) \in Nat /\ Bottom(k) <= Upto(k) /\ Upto(k) <= Len(stack)
      BY <1>1, <1>2, <1>3
    <3>. QED  BY <1>1, <3>1, ViewsAre
  <2>. QED  BY <1>1, <2>1, <2>2, <2>3 DEF ScopeType
<1>5. Calls \in Seq(ScopeType) /\ Len(Calls) = n
  <2>1. DOMAIN Calls = 1..n /\ Calls = [k \in 1..n |-> Calls[k]]
    BY <1>1 DEF Calls
  <2> HIDE DEF Calls
  <2>2. Calls \in [1..n -> ScopeType]
    BY <1>4, <2>1
  <2>3. Calls \in Seq(ScopeType)
    BY <1>1, <2>2, SeqDef
  <2>4. DOMAIN Calls = 1..Len(Calls) /\ Len(Calls) \in Nat
    BY <2>3, LenProperties
  <2>. QED  BY <1>1, <2>1, <2>3, <2>4
<1>. QED
  BY <1>3, <1>4, <1>5 DEF n

Base == Index(Frame.stackStart)

\* The variables of the innermost call are the slots of the running frame, and
\* reading one, captured or not, gives what is in its slot.
LEMMA LocalsAre ==
  RInv /\ frames # <<>> =>
    /\ Scopes!Top = [locals |-> View(Base, counted), captured |-> Frame.closure]
    /\ Scopes!Locals = View(Base, counted) /\ Scopes!Locals \in Seq(LocalType)
    /\ Scopes!Size = counted - Base /\ Base \in Nat /\ counted \in Base + 1..Len(stack)
    /\ Len(stack) \in Nat
    /\ \A i \in 1..counted - Base :
         /\ Scopes!Locals[i] = LocalOf(Base + i)
         /\ Scopes!Read(Scopes!Locals[i]) = stack[Base + i]
<1> SUFFICES ASSUME RInv, frames # <<>>
             PROVE  /\ Scopes!Top = [locals |-> View(Base, counted), captured |-> Frame.closure]
                    /\ Scopes!Locals = View(Base, counted) /\ Scopes!Locals \in Seq(LocalType)
                    /\ Scopes!Size = counted - Base /\ Base \in Nat
                    /\ counted \in Base + 1..Len(stack) /\ Len(stack) \in Nat
                    /\ \A i \in 1..counted - Base :
                         /\ Scopes!Locals[i] = LocalOf(Base + i)
                         /\ Scopes!Read(Scopes!Locals[i]) = stack[Base + i]
  OBVIOUS
<1>1. /\ IInv /\ Len(frames) \in Nat \ {0} /\ Len(frames) \in 1..Len(frames)
      /\ Bottom(Len(frames)) = Base /\ Base \in Nat
  BY FramesRise DEF RInv, UInv, Base
<1>2. Len(stack) \in Nat /\ counted \in Base + 1..Len(stack) /\ counted \in Nat
  BY <1>1, TopSlot DEF RInv, Fresh, Base
<1>3. Scopes!Top = [locals |-> View(Base, counted), captured |-> Frame.closure]
  BY <1>1, CallsAre DEF Scopes!Top, Upto, Frame
<1>4. Scopes!Locals = View(Base, counted)
  BY <1>3 DEF Scopes!Locals
<1>5. /\ Scopes!Locals \in Seq(LocalType) /\ Scopes!Size = counted - Base
      /\ \A i \in 1..counted - Base : Scopes!Locals[i] = LocalOf(Base + i)
  BY <1>1, <1>2, <1>4, ViewsAre DEF Scopes!Size
<1>6. ASSUME NEW i \in 1..counted - Base
      PROVE  Scopes!Read(Scopes!Locals[i]) = stack[Base + i]
  <2> DEFINE j == Base + i
             l == Scopes!Locals[i]
  <2>1. j \in 1..Len(stack) /\ j \in Nat
    BY <1>1, <1>2
  <2>2. l = LocalOf(j)
    BY <1>5
  <2> HIDE DEF j, l
  <2>3. /\ l.box = BoxOf(j)
        /\ BoxOf(j) = None => l = [value |-> stack[j], box |-> None]
    BY <1>1, <2>1, <2>2, ViewsAre
  <2>4. CASE BoxOf(j) = None
    BY <2>3, <2>4 DEF Scopes!Read, l, j
  <2>5. CASE BoxOf(j) # None
    <3> DEFINE u == BoxOf(j)
    <3>1. u \in Range(openUpvalues) /\ Index(upvalue[u].value) = j - 1
      BY <1>1, <2>1, <2>5, BoxesAre
    <3>2. u \in Upvalue /\ upvalue[u] # None /\ upvalue[u].value # Closed
      BY <1>1, <3>1, OpenAre
    <3>3. j - 1 + 1 = j
      BY <2>1
    <3>4. Contents[u] = stack[j]
      BY <3>1, <3>2, <3>3 DEF Contents, ContentOf
    <3>. QED  BY <2>3, <2>5, <3>4 DEF Scopes!Read, l, j
  <2>. QED  BY <2>4, <2>5
<1>. QED
  BY <1>1, <1>2, <1>3, <1>4, <1>5, <1>6

-----------------------------------------------------------------------------
(* Steps that change little.                                                *)

\* The frames, and the upvalues, are those of before, in another array maybe.
SameFrames ==
  /\ Len(frames') = Len(frames) /\ DOMAIN frames' = DOMAIN frames
  /\ frames' # <<>> => frames # <<>>
  /\ \A k \in DOMAIN frames :
       Bottom(k)' = Bottom(k) /\ frames'[k].closure = frames[k].closure

SameOpen ==
  /\ openUpvalues' = openUpvalues
  /\ \A u \in Range(openUpvalues) : Index(upvalue'[u].value) = Index(upvalue[u].value)

SameUpvalues ==
  /\ openUpvalues' = openUpvalues
  /\ \A u \in Upvalue :
       /\ upvalue'[u] = None <=> upvalue[u] = None
       /\ upvalue[u] # None =>
            /\ upvalue'[u].value = Closed <=> upvalue[u].value = Closed
            /\ Index(upvalue'[u].value) = Index(upvalue[u].value)
            /\ upvalue'[u].closed = upvalue[u].closed

\* Moving the stack, or keeping it, leaves the open upvalues at their slots.
LEMMA OpenAreSame == IInv /\ SameUpvalues => SameOpen
  BY OpenAre DEF SameUpvalues, SameOpen

\* So it leaves each slot to the upvalue that captured it.
LEMMA SameBoxes ==
  ASSUME SameOpen, NEW j
  PROVE  BoxOf(j)' = BoxOf(j)
<1>1. \A u \in Range(openUpvalues) : Index(upvalue'[u].value) = Index(upvalue[u].value)
  BY DEF SameOpen
<1>2. Range(openUpvalues)' = Range(openUpvalues)
  BY DEF SameOpen
<1> DEFINE Pointing == {u \in Range(openUpvalues) : Index(upvalue[u].value) = j - 1}
<1>3. Pointing' = Pointing
  BY <1>1, <1>2
<1>4. BoxOf(j) = IF Pointing = {} THEN None ELSE CHOOSE u \in Pointing : TRUE
  BY DEF BoxOf
<1>5. BoxOf(j)' = IF Pointing' = {} THEN None ELSE CHOOSE u \in Pointing' : TRUE
  BY DEF BoxOf
<1> HIDE DEF Pointing
<1>. QED
  BY <1>3, <1>4, <1>5

\* A call whose slots are what they were is to the script what it was.
LEMMA ScopeKept ==
  ASSUME NEW k, Bottom(k)' = Bottom(k), Upto(k)' = Upto(k),
         frames'[k].closure = frames[k].closure,
         Bottom(k) \in Nat, Upto(k) \in Nat,
         \A j \in 1..Upto(k) : LocalOf(j)' = LocalOf(j)
  PROVE  ScopeOf(k)' = ScopeOf(k)
<1>1. \A i \in 1..Upto(k) - Bottom(k) : Bottom(k) + i \in 1..Upto(k)
  OBVIOUS
<1>2. \A i \in 1..Upto(k) - Bottom(k) : LocalOf(Bottom(k) + i)' = LocalOf(Bottom(k) + i)
  BY <1>1
<1>3. ScopeOf(k) = [locals |-> [i \in 1..Upto(k) - Bottom(k) |-> LocalOf(Bottom(k) + i)],
                    captured |-> frames[k].closure]
  BY DEF ScopeOf, Upto, Bottom
<1>4. ScopeOf(k)' = [locals |-> [i \in 1..Upto(k)' - Bottom(k)' |-> LocalOf(Bottom(k) + i)'],
                     captured |-> frames'[k].closure]
  BY DEF ScopeOf, Upto, Bottom
<1>. QED
  BY <1>2, <1>3, <1>4

\* Only the variables of the innermost call change.
LEMMA TopChanges ==
  ASSUME RInv, frames # <<>>, SameFrames,
         \A j \in 1..Base : LocalOf(j)' = LocalOf(j),
         NEW L, L = View(Base, counted)'
  PROVE  Scopes!Becomes(L)
<1> DEFINE n == Len(frames)
<1>1. /\ n \in Nat \ {0} /\ DOMAIN frames = 1..n
      /\ \A k \in 1..n : /\ Bottom(k) \in Nat /\ Bottom(k) <= Base
                         /\ k < n => Bottom(k) < Bottom(k + 1)
      /\ Bottom(n) = Base
  BY FramesRise DEF RInv, UInv, Base
<1>2. /\ Len(Calls) = n /\ DOMAIN Calls = 1..n /\ Calls = [k \in 1..n |-> ScopeOf(k)]
      /\ Calls[n] = [locals |-> View(Bottom(n), Upto(n)), captured |-> frames[n].closure]
  BY <1>1, CallsAre DEF Calls
<1>3. Calls' = [k \in 1..n |-> ScopeOf(k)']
  BY <1>1 DEF Calls, SameFrames
<1>4. ASSUME NEW k \in 1..n, k # n
      PROVE  ScopeOf(k)' = ScopeOf(k)
  <2>1. k < n /\ k + 1 \in 1..n
    <3>1. n \in Nat
      BY <1>1
    <3> HIDE DEF n
    <3>. QED  BY <1>4, <3>1
  <2>2. Upto(k) = Bottom(k + 1) /\ Upto(k)' = Bottom(k + 1)'
    BY <1>4 DEF Upto, SameFrames
  <2>3. /\ Bottom(k)' = Bottom(k) /\ Bottom(k + 1)' = Bottom(k + 1)
        /\ frames'[k].closure = frames[k].closure
    BY <1>1, <2>1 DEF SameFrames
  <2>4. Bottom(k) \in Nat /\ Upto(k) \in Nat /\ Upto(k) <= Base
    BY <1>1, <2>1, <2>2
  <2>5. Base \in Nat
    BY <1>1
  <2>6. \A j \in 1..Upto(k) : j \in 1..Base
    BY <2>4, <2>5
  <2>. QED  BY <2>2, <2>3, <2>4, <2>6, ScopeKept
<1>5. ASSUME NEW k \in 1..n, k = n
      PROVE  ScopeOf(k)' = [locals |-> L, captured |-> frames[n].closure]
  <2>1. /\ k \in DOMAIN frames /\ Bottom(k)' = Base /\ Len(frames') = k
        /\ frames'[k].closure = frames[n].closure
    BY <1>1, <1>5 DEF SameFrames
  <2>2. Base' = Base
    BY <2>1 DEF Base, Bottom, Frame
  <2>3. L = [i \in 1..counted' - Base |-> LocalOf(Base + i)']
    BY <2>2 DEF View
  <2>4. ScopeOf(k)' = [locals |-> [i \in 1..counted' - Bottom(k)' |-> LocalOf(Bottom(k) + i)'],
                       captured |-> frames'[k].closure]
    BY <2>1 DEF ScopeOf, Bottom
  <2>5. \A i : LocalOf(Base + i)' = LocalOf(Bottom(k) + i)'
    BY <1>1, <2>1, <2>2
  <2>. QED  BY <2>1, <2>3, <2>4, <2>5
<1> HIDE DEF n, Calls, ScopeOf, View
<1>6. [Calls EXCEPT ![n].locals = L] = [k \in 1..n |-> IF k = n THEN [Calls[n] EXCEPT !.locals = L]
                                                       ELSE Calls[k]]
  BY <1>2
<1>7. [Calls[n] EXCEPT !.locals = L] = [locals |-> L, captured |-> frames[n].closure]
  <2>1. Calls[n] = [locals |-> View(Bottom(n), Upto(n)), captured |-> frames[n].closure]
    BY <1>2
  <2>. QED  BY <2>1, SMTT(30)
<1>8. ASSUME NEW k \in 1..n
      PROVE  ScopeOf(k)' = IF k = n THEN [Calls[n] EXCEPT !.locals = L] ELSE Calls[k]
  <2>1. CASE k = n
    BY <1>5, <1>7, <2>1
  <2>2. CASE k # n
    BY <1>2, <1>4, <2>2
  <2>. QED  BY <2>1, <2>2
<1>9. Calls' = [Calls EXCEPT ![n].locals = L]
  BY <1>3, <1>6, <1>8
<1>. QED
  BY <1>2, <1>9 DEF Scopes!Becomes

\* What a step leaves as it was when it writes no slot the compiler counts.
LEMMA LocalsKept ==
  ASSUME RInv, SameOpen, \A j \in 1..counted : stack'[j] = stack[j]
  PROVE  \A j \in 1..counted : LocalOf(j)' = LocalOf(j)
<1> TAKE j \in 1..counted
<1>1. BoxOf(j)' = BoxOf(j)
  BY SameBoxes
<1>. QED
  BY <1>1 DEF LocalOf

\* The same of what upvalues hold.
LEMMA ContentsKept ==
  ASSUME RInv, SameUpvalues, \A j \in 1..counted : stack'[j] = stack[j]
  PROVE  Contents' = Contents
<1>0. IInv /\ counted \in Nat
  BY DEF RInv, UInv, AsCounted
<1>2. ASSUME NEW u \in Upvalue
      PROVE  ContentOf(u)' = ContentOf(u)
  <2>1. CASE upvalue[u] = None \/ upvalue[u].value = Closed
    BY <2>1 DEF ContentOf, SameUpvalues
  <2>2. CASE upvalue[u] # None /\ upvalue[u].value # Closed
    <3>1. u \in Range(openUpvalues) /\ Index(upvalue[u].value) \in Nat
      BY <1>0, <2>2, OpenAre
    <3>2. Index(upvalue[u].value) < counted
      BY <3>1 DEF RInv, Fresh, Range
    <3>3. Index(upvalue[u].value) + 1 \in 1..counted
      BY <1>0, <3>1, <3>2
    <3>. QED  BY <2>2, <3>3 DEF ContentOf, SameUpvalues
  <2>. QED  BY <2>1, <2>2
<1>. QED
  BY <1>2 DEF Contents

\* The same of all calls.
LEMMA CallsKept ==
  ASSUME RInv, SameFrames, counted' = counted,
         \A j \in 1..counted : LocalOf(j)' = LocalOf(j)
  PROVE  Calls' = Calls
<1>2. CASE frames = <<>>
  <2>1. DOMAIN frames = {} /\ DOMAIN frames' = {}
    BY <1>2 DEF SameFrames
  <2>. QED  BY <2>1 DEF Calls
<1>3. CASE frames # <<>>
  <2> DEFINE n == Len(frames)
  <2>1. /\ n \in Nat \ {0} /\ DOMAIN frames = 1..n
        /\ \A k \in 1..n : Bottom(k) \in Nat /\ Bottom(k) <= Base
        /\ Bottom(n) = Base
    BY <1>3, FramesRise DEF RInv, UInv, Base
  <2>2. Base \in Nat /\ counted \in Nat /\ Base < counted
    BY <1>3, LocalsAre
  <2>3. ASSUME NEW k \in 1..n
        PROVE  ScopeOf(k)' = ScopeOf(k)
    <3>1. /\ Bottom(k)' = Bottom(k) /\ frames'[k].closure = frames[k].closure
          /\ Len(frames') = Len(frames)
      BY <2>1 DEF SameFrames
    <3>2. Upto(k)' = Upto(k) /\ Upto(k) \in Nat /\ Upto(k) <= counted
      <4>1. CASE k = n
        BY <2>2, <3>1, <4>1 DEF Upto
      <4>2. CASE k # n
        <5>1. k + 1 \in 1..n
          <6>1. n \in Nat
            BY <2>1
          <6> HIDE DEF n
          <6>. QED  BY <4>2, <6>1
        <5>2. Upto(k) = Bottom(k + 1) /\ Upto(k)' = Bottom(k + 1)'
          BY <3>1, <4>2 DEF Upto
        <5>3. Bottom(k + 1)' = Bottom(k + 1)
          BY <2>1, <5>1 DEF SameFrames
        <5>. QED  BY <2>1, <2>2, <5>1, <5>2, <5>3
      <4>. QED  BY <4>1, <4>2
    <3>3. \A j \in 1..Upto(k) : j \in 1..counted
      BY <2>2, <3>2
    <3>. QED  BY <2>1, <3>1, <3>2, <3>3, ScopeKept
  <2>. QED  BY <2>1, <2>3 DEF Calls, SameFrames
<1>. QED
  BY <1>2, <1>3

\* A step of which a script sees nothing.
LEMMA Stutters ==
  ASSUME RInv, SameFrames, SameUpvalues, counted' = counted,
         \A j \in 1..counted : stack'[j] = stack[j]
  PROVE  Calls' = Calls /\ Contents' = Contents
<1>1. SameOpen
  BY OpenAreSame DEF RInv, UInv
<1>. QED
  BY <1>1, LocalsKept, ContentsKept, CallsKept

-----------------------------------------------------------------------------
(* The invariant is kept.                                                   *)

\* What is not assigned is the same.
LEMMA SameUnchanged ==
  /\ frames' = frames => SameFrames
  /\ UNCHANGED <<openUpvalues, upvalue>> => SameUpvalues /\ SameOpen
<1>1. ASSUME frames' = frames PROVE SameFrames
  BY <1>1 DEF SameFrames, Bottom
<1>2. ASSUME UNCHANGED <<openUpvalues, upvalue>> PROVE SameUpvalues /\ SameOpen
  BY <1>2 DEF SameUpvalues, SameOpen
<1>. QED
  BY <1>1, <1>2

\* wrenEnsureStack() changes where upvalues point, and not at which slot.
LEMMA SameMoved ==
  ASSUME IInv, array' \in Nat, openUpvalues' = openUpvalues, upvalue' = MovedUpvalues
  PROVE  SameUpvalues
<1> SUFFICES ASSUME NEW u \in Upvalue
             PROVE  /\ upvalue'[u] = None <=> upvalue[u] = None
                    /\ upvalue[u] # None =>
                         /\ upvalue'[u].value = Closed <=> upvalue[u].value = Closed
                         /\ Index(upvalue'[u].value) = Index(upvalue[u].value)
                         /\ upvalue'[u].closed = upvalue[u].closed
  BY DEF SameUpvalues
<1>1. CASE u \notin Range(openUpvalues)
  BY <1>1 DEF MovedUpvalues
<1>2. CASE u \in Range(openUpvalues)
  <2>1. /\ upvalue[u] # None /\ upvalue[u].value # Closed
        /\ Index(upvalue[u].value) \in Nat
    BY <1>2, OpenAre
  <2>2. upvalue[u] \in OpenOrClosed
    BY <2>1 DEF IInv, Shape
  <2>3. upvalue[u] \in [value : Address, closed : {None}]
    BY <2>1, <2>2 DEF OpenOrClosed
  <2>4. upvalue'[u] = [value |-> <<array', Index(upvalue[u].value)>>, closed |-> None]
    <3>1. upvalue'[u] = [upvalue[u] EXCEPT !.value = <<array', Index(upvalue[u].value)>>]
      BY <1>2 DEF MovedUpvalues, Moved
    <3>. QED  BY <2>3, <3>1
  <2>5. /\ upvalue'[u].value # Closed
        /\ Index(upvalue'[u].value) = Index(upvalue[u].value)
        /\ upvalue'[u].closed = None /\ upvalue[u].closed = None
    BY <2>1, <2>3, <2>4 DEF Closed, Index
  <2>6. upvalue'[u] # None
    <3>1. upvalue'[u] \in [value : Int \X Int, closed : Value \cup {Junk, None}]
      BY <2>1, <2>4
    <3>. QED  BY <3>1, StackAssumption
  <2>. QED  BY <2>1, <2>5, <2>6
<1>. QED
  BY <1>1, <1>2

\* A step that writes above the slots the compiler counts keeps the invariant.
LEMMA FreshKept ==
  ASSUME RInv, SameFrames, SameOpen, counted' = counted,
         Len(stack') \in Nat, Len(stack') >= Len(stack),
         \A j \in 1..counted : stack'[j] = stack[j],
         pc' = "closure" => Shares(Peek)',
         pc' = "method" => counted > Index(apiStack')
  PROVE  Fresh'
<1>1. frames' # <<>> => counted' \in Index(Frame'.stackStart) + 1..Len(stack')
  <2> SUFFICES ASSUME frames' # <<>>
               PROVE  counted' \in Index(Frame'.stackStart) + 1..Len(stack')
    OBVIOUS
  <2>1. frames # <<>>
    BY DEF SameFrames
  <2>2. Base \in Nat /\ counted \in Base + 1..Len(stack) /\ Len(stack) \in Nat
    BY <2>1, LocalsAre
  <2>3. Len(frames) \in DOMAIN frames
    BY <2>1, FramesRise DEF RInv, UInv
  <2>4. Index(Frame'.stackStart) = Base
    BY <2>3 DEF SameFrames, Frame, Base, Bottom
  <2>. QED  BY <2>2, <2>4
<1>2. \A i \in 1..counted' : stack'[i] # Junk
  BY DEF RInv, Fresh
<1>3. \A k \in DOMAIN openUpvalues' : Index(upvalue'[openUpvalues'[k]].value) < counted'
  BY DEF RInv, Fresh, SameOpen, Range
<1>. QED
  BY <1>1, <1>2, <1>3 DEF Fresh

\* A closure that is being made is none of the script's temporaries yet.
LEMMA NewClosureFresh == RInv /\ NewClosure => Fresh' /\ Calls' = Calls /\ Contents' = Contents
<1> SUFFICES ASSUME RInv, NewClosure PROVE Fresh' /\ Calls' = Calls /\ Contents' = Contents
  OBVIOUS
<1>1. /\ pc = "run" /\ pc' = "closure" /\ stack' = Append(stack, <<>>)
      /\ UNCHANGED <<frames, openUpvalues, upvalue, counted>>
  BY DEF NewClosure, Push
<1>2. stack \in Seq(Content) /\ <<>> \in Content /\ Len(stack) = counted /\ Len(stack) \in Nat
  BY <1>1, Closures, LenProperties DEF RInv, UInv, IInv, Shape, AsCounted, Content, Value
<1>3. /\ Len(stack') = Len(stack) + 1 /\ stack'[Len(stack) + 1] = <<>>
      /\ \A j \in 1..Len(stack) : stack'[j] = stack[j]
  BY <1>1, <1>2, AppendProperties
<1>4. Peek' = <<>>
  <2>1. Len(stack) + 1 + -1 + 1 = Len(stack) + 1
    BY <1>2
  <2>. QED  BY <1>3, <2>1 DEF Peek, Slot, Plus, stackTop, At, Index
<1>5. Shares(Peek)'
  <2>1. Range(<<>>) = {}
    BY DEF Range
  <2>. QED  BY <1>4, <2>1 DEF Shares
<1>. QED
  BY <1>1, <1>2, <1>3, <1>5, SameUnchanged, FreshKept, Stutters

\* An upvalue is appended to the closure on top of the stack.
LEMMA TopWritten ==
  ASSUME RInv, pc = "closure", NEW w, stack' = Written(Plus(stackTop, -1), w)
  PROVE  /\ Len(stack) = counted + 1 /\ Len(stack) \in Nat /\ Len(stack') = Len(stack)
         /\ \A j \in 1..counted : stack'[j] = stack[j]
         /\ Peek' = w
<1>1. Len(stack) = counted + 1 /\ Len(stack) \in Nat /\ counted \in Nat
  BY TopSlot DEF RInv, UInv, AsCounted
<1>2. /\ Index(Plus(stackTop, -1)) + 1 = Len(stack) /\ DOMAIN stack = 1..Len(stack)
      /\ Len(stack) \in DOMAIN stack
  BY TopSlot DEF RInv, UInv
<1>3. stack' = [stack EXCEPT ![Len(stack)] = w]
  BY <1>2 DEF Written
<1>4. \A j \in 1..counted : stack'[j] = stack[j]
  BY <1>1, <1>2, <1>3
<1>5. Len(stack') = Len(stack) /\ stack'[Len(stack)] = w
  <2>1. Len(stack') = Len(stack)
    BY WrittenSlots DEF RInv, UInv
  <2>. QED  BY <1>2, <1>3, <2>1
<1>6. Peek' = w
  <2>1. Len(stack) + -1 + 1 = Len(stack)
    BY <1>1
  <2>. QED  BY <1>5, <2>1 DEF Peek, Slot, Plus, stackTop, At, Index
<1>. QED
  BY <1>1, <1>4, <1>5, <1>6

\* The closure on top is one, and has what it refers to.
LEMMA TopClosure ==
  ASSUME RInv, pc = "closure", Len(Peek) < MaxCaptures, NEW u \in Upvalue
  PROVE  /\ Range(Append(Peek, u)) = Range(Peek) \cup {u}
         /\ Shares(Peek)
<1>1. Peek \in Closure
  BY DEF RInv, UInv, IInv, Laid
<1>2. IsClosure(Peek) /\ IsClosure(Append(Peek, u))
  BY <1>1, AppendUpvalue, Closures DEF Content, Value
<1>. QED
  BY <1>1, <1>2, AppendUpvalue DEF UpvaluesOf, RInv, Fresh

\* Neither is one that is given an upvalue of its own function.
LEMMA CaptureOuterFresh ==
  ASSUME NEW i, RInv, CaptureOuter(i)
  PROVE  Fresh' /\ Calls' = Calls /\ Contents' = Contents
<1> DEFINE u == Frame.closure[i]
<1>1. /\ pc = "closure" /\ pc' = "closure" /\ Len(Peek) < MaxCaptures
      /\ i \in DOMAIN Frame.closure
      /\ stack' = Written(Plus(stackTop, -1), Append(Peek, u))
      /\ UNCHANGED <<frames, openUpvalues, upvalue, counted>>
  BY DEF CaptureOuter, pointers
<1>2. u \in Range(Frame.closure) /\ u \in Upvalue
  BY <1>1, TopFrame, Closures DEF RInv, UInv, Live
<1> HIDE DEF u
<1>3. /\ Len(stack) = counted + 1 /\ Len(stack) \in Nat /\ Len(stack') = Len(stack)
      /\ \A j \in 1..counted : stack'[j] = stack[j]
      /\ Peek' = Append(Peek, u)
  BY <1>1, TopWritten
<1>4. Shares(Peek)'
  <2>1. Range(Peek)' = Range(Peek) \cup {u} /\ Shares(Peek)
    BY <1>1, <1>2, <1>3, TopClosure
  <2>2. Frame' = Frame
    BY <1>1 DEF Frame
  <2>. QED  BY <1>1, <1>2, <2>1, <2>2 DEF Shares
<1>. QED
  BY <1>1, <1>3, <1>4, SameUnchanged, FreshKept, Stutters

\* One variable of the innermost call becomes another.
LEMMA OneChanges ==
  ASSUME RInv, frames # <<>>, SameFrames, counted' = counted,
         NEW p \in 1..counted - Base, NEW x,
         \A j \in 1..counted : j # Base + p => LocalOf(j)' = LocalOf(j),
         \A j \in 1..counted : j = Base + p => LocalOf(j)' = x
  PROVE  Scopes!Becomes([Scopes!Locals EXCEPT ![p] = x])
<1>1. /\ Scopes!Locals = View(Base, counted)
      /\ Base \in Nat /\ counted \in Nat /\ Base < counted
  BY LocalsAre
<1>2. Base' = Base
  <2>1. Len(frames) \in DOMAIN frames
    BY FramesRise DEF RInv, UInv
  <2>. QED  BY <2>1 DEF SameFrames, Frame, Base, Bottom
<1>3. ASSUME NEW k \in 1..counted - Base
      PROVE  LocalOf(Base + k)' = IF k = p THEN x ELSE LocalOf(Base + k)
  <2>1. Base + k \in 1..counted /\ (Base + k = Base + p <=> k = p)
    BY <1>1
  <2>2. \A j : j = Base + k => LocalOf(j)' = LocalOf(Base + k)'
    BY <1>2
  <2>. QED  BY <2>1, <2>2
<1>4. View(Base, counted)' = [k \in 1..counted - Base |-> LocalOf(Base + k)']
  BY <1>2 DEF View
<1>5. [Scopes!Locals EXCEPT ![p] = x]
        = [k \in 1..counted - Base |-> IF k = p THEN x ELSE LocalOf(Base + k)]
  BY <1>1 DEF View
<1>6. View(Base, counted)' = [Scopes!Locals EXCEPT ![p] = x]
  BY <1>3, <1>4, <1>5
<1>7. \A j \in 1..Base : LocalOf(j)' = LocalOf(j)
  <2> TAKE j \in 1..Base
  <2>1. j \in 1..counted /\ j # Base + p
    BY <1>1
  <2>. QED  BY <2>1
<1>. QED
  BY <1>6, <1>7, TopChanges

\* captureUpvalue() makes a new upvalue if no open one points at the local.
LEMMA NotShared ==
  ASSUME RInv, pc = "closure", NEW i \in Locals,
         NEW local, local = Plus(Frame.stackStart, i), ~Finds(Place(local), local)
  PROVE  /\ local \in Address /\ Index(local) = Base + i
         /\ Place(local) \in 1..Len(openUpvalues) + 1
         /\ \A u \in Range(openUpvalues) : Index(upvalue[u].value) # Base + i
<1> DEFINE p == Place(local)
           Spot(k) == Index(upvalue[openUpvalues[k]].value)
<1>1. IInv /\ pc # "done"
  BY DEF RInv, UInv
<1>2. /\ Base \in Nat /\ Height \in Nat /\ Frame.stackStart = <<array, Base>> /\ array \in Nat
  BY <1>1, TopFrame DEF Base, At, IInv, Shape
<1>3. i \in Nat
  BY <1>2 DEF Locals
<1>4. local = <<array, Base + i>> /\ local \in Address /\ Index(local) = Base + i
  BY <1>2, <1>3 DEF Plus, Address, Index
<1>5. openUpvalues \in Seq(Upvalue) /\ Len(openUpvalues) \in Nat
      /\ DOMAIN openUpvalues = 1..Len(openUpvalues)
  BY <1>1, LenProperties DEF IInv, Shape
<1>6. /\ p \in 1..Len(openUpvalues) + 1
      /\ p <= Len(openUpvalues) => Spot(p) <= Base + i
      /\ \A j \in 1..p - 1 : Spot(j) > Base + i
  BY <1>1, <1>4, PlaceFound
<1>7. /\ \A k \in 1..Len(openUpvalues) :
           Spot(k) \in Nat /\ upvalue[openUpvalues[k]].value = <<array, Spot(k)>>
      /\ \A j, k \in 1..Len(openUpvalues) : j < k => Spot(k) < Spot(j)
  <2>1. ASSUME NEW k \in 1..Len(openUpvalues)
        PROVE  Spot(k) \in Nat /\ upvalue[openUpvalues[k]].value = <<array, Spot(k)>>
    <3>1. openUpvalues[k] \in Range(openUpvalues)
      BY <1>5 DEF Range
    <3>2. openUpvalues[k] \in Live /\ upvalue[openUpvalues[k]].value # Closed
      BY <1>1, <3>1, OpenAre DEF Live
    <3>. QED  BY <1>1, <3>2, CapturedValue DEF At
  <2>. QED  BY <1>1, <1>5, <2>1 DEF IInv, Linked, OpenUpvaluesSorted
<1>8. p <= Len(openUpvalues) => upvalue[openUpvalues[p]].value # local
  BY DEF Finds
<1> HIDE DEF p, Spot
<1>9. ASSUME NEW k \in 1..Len(openUpvalues)
      PROVE  Spot(k) # Base + i
  <2>1. CASE k < p
    BY <1>2, <1>3, <1>5, <1>6, <1>7, <2>1
  <2>2. CASE k = p
    BY <1>4, <1>5, <1>7, <1>8, <2>2
  <2>3. CASE k > p
    <3>1. p \in 1..Len(openUpvalues) /\ Spot(k) < Spot(p) /\ Spot(p) <= Base + i
      BY <1>5, <1>6, <1>7, <2>3
    <3>2. Spot(k) \in Nat /\ Spot(p) \in Nat /\ Base + i \in Nat
      BY <1>2, <1>3, <1>7, <3>1
    <3>. QED  BY <3>1, <3>2
  <2>. QED  BY <1>5, <1>6, <2>1, <2>2, <2>3
<1>. QED
  BY <1>4, <1>5, <1>6, <1>9 DEF p, Spot, Range

\* A new upvalue makes a variable shared that was not.
LEMMA SharesOne ==
  ASSUME RInv, pc = "closure", pc' = "closure", NEW i \in Locals, i < Height - 1,
         Len(Peek) < MaxCaptures,
         NEW local, local = Plus(Frame.stackStart, i), ~Finds(Place(local), local),
         NEW new \in Upvalue, upvalue[new] = None,
         stack' = Written(Plus(stackTop, -1), Append(Peek, new)),
         openUpvalues' = InsertAt(openUpvalues, Place(local), new),
         upvalue' = [upvalue EXCEPT ![new] = [value |-> local, closed |-> None]],
         UNCHANGED <<frames, counted>>
  PROVE  Fresh' /\ i + 1 \in 1..counted - Base /\ Scopes!Share(i + 1, new)
<1> DEFINE p == Base + i + 1
<1>1. /\ IInv /\ frames # <<>> /\ SameFrames /\ pc # "done"
      /\ Base \in Nat /\ counted \in Base + 1..Len(stack)
  <2>1. frames # <<>>
    BY DEF RInv, UInv, IInv, Laid
  <2>. QED  BY <2>1, LocalsAre, SameUnchanged DEF RInv, UInv
<1>2. /\ Len(stack) = counted + 1 /\ Len(stack) \in Nat /\ Len(stack') = Len(stack)
      /\ \A j \in 1..counted : stack'[j] = stack[j]
      /\ Peek' = Append(Peek, new)
  BY TopWritten
<1>3. /\ i \in Nat /\ counted \in Nat /\ i + 1 \in 1..counted - Base
      /\ Base + (i + 1) = p /\ p \in 1..counted /\ p - 1 = Base + i
  <2>1. Height = Len(stack) - Base /\ i \in 0..Height - 1
    BY DEF Height, Base, Locals
  <2>. QED  BY <1>1, <1>2, <2>1
<1>4. /\ local \in Address /\ Index(local) = Base + i
      /\ Place(local) \in 1..Len(openUpvalues) + 1
      /\ \A u \in Range(openUpvalues) : Index(upvalue[u].value) # Base + i
  BY NotShared
<1>5. Range(openUpvalues') = Range(openUpvalues) \cup {new}
  <2> DEFINE n == Len(openUpvalues)
             q == Place(local)
  <2>1. /\ openUpvalues \in Seq(Upvalue) /\ n \in Nat
        /\ DOMAIN openUpvalues = 1..n
    BY <1>1, LenProperties DEF IInv, Shape
  <2>2. /\ openUpvalues' \in Seq(Upvalue) /\ Len(openUpvalues') = n + 1
        /\ \A k \in 1..n + 1 :
             openUpvalues'[k] = IF k < q THEN openUpvalues[k]
                                ELSE IF k = q THEN new ELSE openUpvalues[k - 1]
    BY <1>4, <2>1, Inserting
  <2>3. DOMAIN openUpvalues' = 1..n + 1 /\ q \in 1..n + 1
    BY <1>4, <2>2, LenProperties
  <2> HIDE DEF n, q
  <2>4. \A k \in 1..n + 1 : openUpvalues'[k] \in Range(openUpvalues) \cup {new}
    <3> TAKE k \in 1..n + 1
    <3>1. CASE k < q
      BY <2>1, <2>2, <2>3, <3>1 DEF Range
    <3>2. CASE k = q
      BY <2>2, <3>2
    <3>3. CASE k > q
      <4>1. k - 1 \in 1..n
        BY <2>1, <2>3, <3>3
      <4>2. openUpvalues'[k] = openUpvalues[k - 1]
        BY <2>1, <2>2, <2>3, <3>3
      <4>. QED  BY <2>1, <4>1, <4>2 DEF Range
    <3>. QED  BY <2>1, <2>3, <3>1, <3>2, <3>3
  <2>5. \A k \in 1..n : openUpvalues[k] \in Range(openUpvalues')
    <3> TAKE k \in 1..n
    <3>1. CASE k < q
      <4>1. k \in 1..n + 1 /\ openUpvalues'[k] = openUpvalues[k]
        BY <2>1, <2>2, <3>1
      <4>. QED  BY <2>3, <4>1 DEF Range
    <3>2. CASE k >= q
      <4>1. k + 1 \in 1..n + 1 /\ ~(k + 1 < q) /\ k + 1 # q /\ k + 1 - 1 = k
        BY <2>1, <2>3, <3>2
      <4>2. openUpvalues'[k + 1] = openUpvalues[k]
        BY <2>2, <4>1
      <4>. QED  BY <2>3, <4>1, <4>2 DEF Range
    <3>. QED  BY <2>1, <2>3, <3>1, <3>2
  <2>6. new \in Range(openUpvalues')
    <3>1. openUpvalues'[q] = new
      BY <2>1, <2>2, <2>3
    <3>. QED  BY <2>3, <3>1 DEF Range
  <2>. QED  BY <2>1, <2>3, <2>4, <2>5, <2>6 DEF Range
<1>6. /\ new \notin Range(openUpvalues)
      /\ upvalue'[new] = [value |-> local, closed |-> None]
      /\ \A u \in Upvalue : u # new => upvalue'[u] = upvalue[u]
  BY <1>1, OpenAre DEF IInv, Shape
<1>7. \A u \in Range(openUpvalues) :
        u \in Upvalue /\ u # new /\ upvalue'[u] = upvalue[u]
        /\ Index(upvalue[u].value) \in Nat /\ Index(upvalue[u].value) < counted
  BY <1>1, <1>6, OpenAre DEF RInv, Fresh, Range
<1>8. Index(upvalue'[new].value) = Base + i
  BY <1>4, <1>6
<1> DEFINE Pointing(j) == {u \in Range(openUpvalues) : Index(upvalue[u].value) = j - 1}
           Points2(j) == {u \in Range(openUpvalues') : Index(upvalue'[u].value) = j - 1}
<1>9. /\ Pointing(p) = {} /\ Points2(p) = {new}
      /\ \A j \in 1..counted : j # p => Points2(j) = Pointing(j)
  <2>1. Pointing(p) = {}
    BY <1>3, <1>4
  <2>2. Points2(p) = {new}
    BY <1>3, <1>4, <1>5, <1>6, <1>7, <1>8
  <2>3. ASSUME NEW j \in 1..counted, j # p
        PROVE  Points2(j) = Pointing(j)
    <3>1. j - 1 # Base + i
      BY <1>1, <1>3, <2>3
    <3>. QED  BY <1>5, <1>6, <1>7, <1>8, <3>1
  <2>. QED  BY <2>1, <2>2, <2>3
<1>10. \A j : /\ BoxOf(j) = IF Pointing(j) = {} THEN None ELSE CHOOSE u \in Pointing(j) : TRUE
              /\ BoxOf(j)' = IF Points2(j) = {} THEN None ELSE CHOOSE u \in Points2(j) : TRUE
  BY DEF BoxOf
<1> HIDE DEF Pointing, Points2, p
<1>11. BoxOf(p) = None
  BY <1>9, <1>10
<1>12. ASSUME NEW j \in 1..counted, j # p
       PROVE  LocalOf(j)' = LocalOf(j)
  <2>1. BoxOf(j)' = BoxOf(j)
    <3>1. Points2(j) = Pointing(j)
      BY <1>9, <1>12
    <3>2. BoxOf(j)' = IF Pointing(j) = {} THEN None ELSE CHOOSE u \in Pointing(j) : TRUE
      BY <1>10, <3>1
    <3>. QED  BY <1>10, <3>2
  <2>2. stack'[j] = stack[j]
    BY <1>2
  <2>. QED  BY <2>1, <2>2 DEF LocalOf
<1>13. ASSUME NEW j \in 1..counted, j = p
       PROVE  LocalOf(j)' = Scopes!Shared(new)
  <2>1. Points2(j) = {new}
    BY <1>9, <1>13
  <2>2. BoxOf(j)' = CHOOSE u \in {new} : TRUE
    BY <1>10, <2>1
  <2>3. BoxOf(j)' = new /\ new # None
    BY <2>2, StackAssumption
  <2>. QED  BY <2>3 DEF LocalOf, Scopes!Shared
<1>14. Scopes!Becomes([Scopes!Locals EXCEPT ![i + 1] = Scopes!Shared(new)])
  <2>1. Base + (i + 1) = p
    BY <1>3
  <2>. QED  BY <1>1, <1>3, <1>12, <1>13, <2>1, OneChanges
<1>15. /\ Scopes!Locals[i + 1].box = None /\ Scopes!Locals[i + 1].value = stack[p]
  <2>1. Scopes!Locals[i + 1] = LocalOf(p)
    BY <1>1, <1>3, LocalsAre
  <2>. QED  BY <1>11, <2>1 DEF LocalOf
<1>16. Contents[new] = None
  BY DEF Contents, ContentOf
<1>17. Contents' = [Contents EXCEPT ![new] = stack[p]]
  <2>1. ASSUME NEW u \in Upvalue, u # new
        PROVE  ContentOf(u)' = ContentOf(u)
    <3>1. upvalue'[u] = upvalue[u]
      BY <1>6, <2>1
    <3>2. CASE upvalue[u] = None \/ upvalue[u].value = Closed
      BY <3>1, <3>2 DEF ContentOf
    <3>3. CASE upvalue[u] # None /\ upvalue[u].value # Closed
      <4>1. u \in Range(openUpvalues)
        BY <1>1, <3>3, OpenAre
      <4>2. Index(upvalue[u].value) + 1 \in 1..counted
        BY <1>3, <1>7, <4>1
      <4>. QED  BY <1>2, <3>1, <3>3, <4>2 DEF ContentOf
    <3>. QED  BY <3>2, <3>3
  <2>2. ASSUME NEW u \in Upvalue, u = new
        PROVE  ContentOf(u)' = stack[p]
    <3>1. upvalue'[u] # None /\ upvalue'[u].value # Closed
      <4>1. local # Closed
        BY <1>4 DEF Address, Closed
      <4>2. upvalue'[u] \in [value : Int \X Int, closed : Value \cup {Junk, None}]
        BY <1>4, <1>6, <2>2 DEF Address
      <4>. QED  BY <1>6, <2>2, <4>1, <4>2, StackAssumption
    <3>2. Index(upvalue'[u].value) + 1 = p
      BY <1>8, <2>2 DEF p
    <3>3. stack'[p] = stack[p]
      BY <1>2, <1>3
    <3>. QED  BY <3>1, <3>2, <3>3 DEF ContentOf
  <2>. QED  BY <2>1, <2>2 DEF Contents
<1>18. Scopes!Share(i + 1, new)
  BY <1>14, <1>15, <1>16, <1>17 DEF Scopes!Share
<1>19. Fresh'
  <2>1. frames' # <<>> => counted' \in Index(Frame'.stackStart) + 1..Len(stack')
    BY <1>1, <1>2 DEF Frame, Base
  <2>2. \A j \in 1..counted' : stack'[j] # Junk
    BY <1>2 DEF RInv, Fresh
  <2>3. \A u \in Range(openUpvalues') : Index(upvalue'[u].value) < counted'
    BY <1>1, <1>3, <1>5, <1>7, <1>8
  <2>4. Shares(Peek)'
    <3>1. Range(Peek)' = Range(Peek) \cup {new} /\ Shares(Peek)
      BY <1>2, TopClosure
    <3>2. Frame' = Frame /\ Index(Frame.stackStart) = Base /\ Base + i >= Base
      BY <1>1, <1>3 DEF Frame, Base
    <3>. QED  BY <1>5, <1>7, <1>8, <3>1, <3>2 DEF Shares
  <2>. QED  BY <2>1, <2>2, <2>3, <2>4 DEF Fresh, Range
<1>. QED
  BY <1>3, <1>18, <1>19

\* One that captures a local shares it, if nothing has captured it yet.
LEMMA CaptureLocalFresh ==
  ASSUME NEW i, RInv, CaptureLocal(i)
  PROVE  /\ Fresh'
         /\ \/ Calls' = Calls /\ Contents' = Contents
            \/ i + 1 \in 1..counted - Base /\ \E new \in Upvalue : Scopes!Share(i + 1, new)
<1> DEFINE local == Plus(Frame.stackStart, i)
           p == Place(local)
<1>1. /\ pc = "closure" /\ pc' = "closure" /\ Len(Peek) < MaxCaptures
      /\ i \in Locals /\ i < Height - 1 /\ Captured(i)
      /\ UNCHANGED <<frames, counted>>
  BY DEF CaptureLocal
<1>2. CASE Finds(p, local)
  <2> DEFINE u == openUpvalues[p]
  <2>1. /\ stack' = Written(Plus(stackTop, -1), Append(Peek, u))
        /\ UNCHANGED <<openUpvalues, upvalue>>
    BY <1>1, <1>2 DEF Captured
  <2>2. IInv /\ pc # "done" /\ Base \in Nat /\ i \in Nat /\ Frame.stackStart = <<array, Base>>
    <3>1. IInv /\ pc # "done"
      BY <1>1 DEF RInv, UInv
    <3>. QED  BY <1>1, <3>1, TopFrame DEF Base, At, Locals
  <2>3. local \in Address /\ Index(local) = Base + i
    BY <2>2 DEF Plus, Index, Address, IInv, Shape
  <2>4. u \in Range(openUpvalues) /\ upvalue[u].value = local
    <3>1. p \in 1..Len(openUpvalues) + 1
      BY <2>2, <2>3, PlaceFound
    <3>2. /\ p <= Len(openUpvalues) /\ upvalue[u].value = local
          /\ openUpvalues \in Seq(Upvalue)
      BY <1>2, <2>2 DEF Finds, IInv, Shape
    <3>3. Len(openUpvalues) \in Nat /\ DOMAIN openUpvalues = 1..Len(openUpvalues)
      BY <3>2, LenProperties
    <3> HIDE DEF p
    <3>4. p \in 1..Len(openUpvalues)
      BY <3>1, <3>2, <3>3
    <3>. QED  BY <3>2, <3>3, <3>4 DEF Range
  <2>5. u \in Upvalue
    BY <2>2, <2>4, OpenAre
  <2> HIDE DEF u, local
  <2>6. /\ Len(stack) = counted + 1 /\ Len(stack) \in Nat /\ Len(stack') = Len(stack)
        /\ \A j \in 1..counted : stack'[j] = stack[j]
        /\ Peek' = Append(Peek, u)
    BY <1>1, <2>1, TopWritten
  <2>7. Shares(Peek)'
    <3>1. Range(Peek)' = Range(Peek) \cup {u} /\ Shares(Peek)
      BY <1>1, <2>5, <2>6, TopClosure
    <3>2. Frame' = Frame /\ Index(upvalue[u].value) >= Index(Frame.stackStart)
      BY <1>1, <2>2, <2>3, <2>4 DEF Frame, Base
    <3>. QED  BY <1>1, <2>1, <2>4, <3>1, <3>2 DEF Shares
  <2>. QED  BY <1>1, <2>1, <2>6, <2>7, SameUnchanged, FreshKept, Stutters
<1>3. CASE ~Finds(p, local)
  <2>1. PICK new \in Upvalue :
          /\ upvalue[new] = None
          /\ stack' = Written(Plus(stackTop, -1), Append(Peek, new))
          /\ openUpvalues' = InsertAt(openUpvalues, p, new)
          /\ upvalue' = [upvalue EXCEPT ![new] = [value |-> local, closed |-> None]]
    BY <1>1, <1>3 DEF Captured
  <2>. QED  BY <1>1, <1>3, <2>1, SharesOne
<1>. QED
  BY <1>2, <1>3

\* The calls of native code, and the slots it asks for.
LEMMA NativeFresh ==
  ASSUME RInv, IInv', counted' = counted,
         \/ \E n \in Nat \ {0} : CallMethod(n)
         \/ CallAllocator \/ WildAccess
  PROVE  Fresh' /\ Calls' = Calls /\ Contents' = Contents
<1>1. pc = "run" /\ UNCHANGED <<stack, frames, openUpvalues, upvalue>> /\ pc' # "closure"
  BY DEF CallMethod, CallAllocator, WildAccess, memory, pointers
<1>2. Len(stack) = counted /\ Len(stack) \in Nat
  BY <1>1, TopSlot DEF RInv, UInv, AsCounted
<1>3. pc' = "method" => counted > Index(apiStack')
  <2> SUFFICES ASSUME NEW n \in Nat \ {0}, CallMethod(n) PROVE counted > Index(apiStack')
    BY DEF CallAllocator, WildAccess
  <2>1. Index(apiStack') = Len(stack) + -n
    BY DEF CallMethod, Plus, stackTop, At, Index
  <2>. QED  BY <1>2, <2>1
<1>. QED
  BY <1>1, <1>2, <1>3, SameUnchanged, FreshKept, Stutters

\* Slots that native code asks for are above those the compiler counts.
LEMMA WrenEnsureSlotsFresh ==
  ASSUME NEW n \in Nat, RInv, IInv', WrenEnsureSlots(n)
  PROVE  Fresh' /\ Calls' = Calls /\ Contents' = Contents
<1> DEFINE more == Index(apiStack) + n - Len(stack)
           pad == [i \in 1..more |-> Junk]
<1>1. /\ pc \in {"method", "allocator"} /\ pc' = pc
      /\ Len(stack) - Index(apiStack) < n
      /\ EnsureStack(Index(apiStack) + n)
      /\ apiStack' = Moved(apiStack)
      /\ stack' = stack \o pad
      /\ frames' = MovedFrames /\ upvalue' = MovedUpvalues
      /\ openUpvalues' = openUpvalues /\ counted' = counted
  BY DEF WrenEnsureSlots
<1>2. IInv /\ array \in Nat /\ Len(stack) \in Nat /\ frames # <<>>
  BY <1>1, TopSlot DEF RInv, UInv, IInv, Shape, Laid
<1>3. Index(apiStack') = Index(apiStack) /\ Index(apiStack) \in Nat
  <2>1. apiStack # None /\ apiStack \in Nat \X Nat
    BY <1>1, <1>2 DEF IInv, Laid, Shape, Address
  <2>. QED  BY <1>1, <2>1 DEF Moved, Index
<1>4. more \in Nat
  BY <1>1, <1>2, <1>3
<1> HIDE DEF more
<1>5. pad \in Seq(Content) /\ stack \in Seq(Content)
  <2>1. pad \in [1..more -> Content]
    BY DEF Content
  <2>2. pad \in Seq(Content)
    BY <1>4, <2>1, SeqDef
  <2>. QED  BY <1>2, <2>2 DEF IInv, Shape
<1> HIDE DEF pad
<1>6. /\ Len(stack') \in Nat /\ Len(stack') >= Len(stack)
      /\ \A j \in 1..Len(stack) : stack'[j] = stack[j]
  <2>1. Len(pad) \in Nat
    BY <1>5, LenProperties
  <2>2. /\ Len(stack') = Len(stack) + Len(pad)
        /\ \A j \in 1..Len(stack) + Len(pad) :
             stack'[j] = IF j <= Len(stack) THEN stack[j] ELSE pad[j - Len(stack)]
    BY <1>1, <1>5, ConcatProperties
  <2>3. \A j \in 1..Len(stack) : j \in 1..Len(stack) + Len(pad) /\ j <= Len(stack)
    BY <1>2, <2>1
  <2>. QED  BY <1>2, <2>1, <2>2, <2>3
<1>7. array' \in Nat /\ array <= array'
  BY <1>1, <1>2 DEF EnsureStack
<1>8. SameUpvalues
  BY <1>1, <1>2, <1>7, SameMoved
<1>9. SameFrames
  <2>1. /\ MovedFrames \in Seq(FrameType) /\ Len(MovedFrames) = Len(frames)
        /\ \A k \in DOMAIN frames :
             /\ Index(MovedFrames[k].stackStart) = Index(frames[k].stackStart)
             /\ MovedFrames[k].closure = frames[k].closure
    BY <1>1, <1>2, <1>3, <1>6, <1>7, MoveKeeps
  <2>2. DOMAIN frames' = DOMAIN frames
    BY <1>1 DEF MovedFrames
  <2>. QED  BY <1>1, <1>2, <2>1, <2>2 DEF SameFrames, Bottom
<1>10. \A j \in 1..counted : stack'[j] = stack[j]
  <2>1. counted \in Nat /\ counted <= Len(stack)
    BY <1>2, LocalsAre
  <2>. QED  BY <1>2, <1>6, <2>1
<1>11. SameOpen
  BY <1>2, <1>8, OpenAreSame
<1>12. pc' = "method" => counted > Index(apiStack')
  BY <1>1, <1>3 DEF RInv, Fresh
<1>. QED
  BY <1>1, <1>6, <1>8, <1>9, <1>10, <1>11, <1>12, FreshKept, Stutters

\* The script can reach none of the upvalues that are collected.
LEMMA CollectGarbageForgets ==
  RInv /\ CollectGarbage => Fresh' /\ \E S \in SUBSET Upvalue : Scopes!Forget(S)
<1> SUFFICES ASSUME RInv, CollectGarbage
             PROVE  Fresh' /\ \E S \in SUBSET Upvalue : Scopes!Forget(S)
  OBVIOUS
<1> DEFINE garbage == UNION {S \in SUBSET {u \in Upvalue : upvalue[u] # None} : Unreached(S)}
<1>1. /\ upvalue' = [u \in Upvalue |-> IF u \in garbage THEN None ELSE upvalue[u]]
      /\ UNCHANGED <<pc, stack, frames, apiStack, openUpvalues, counted>>
  BY DEF CollectGarbage, memory
<1>2. garbage \in SUBSET Upvalue /\ garbage \cap Marked = {} /\ None \notin garbage
  BY StackAssumption DEF Unreached
<1>3. \A u \in Upvalue \ garbage :
        upvalue[u] # None => UpvaluesOf(upvalue[u].closed) \cap garbage = {}
  BY DEF Unreached
<1> HIDE DEF garbage
<1>4. IInv /\ counted \in Nat /\ Len(stack) \in Nat /\ DOMAIN stack = 1..Len(stack)
  BY TopSlot DEF RInv, UInv, AsCounted
<1>5. \A u \in Range(openUpvalues) : u \in Upvalue /\ upvalue'[u] = upvalue[u]
  BY <1>1, <1>2, <1>4, OpenAre DEF Marked
<1>6. SameOpen /\ SameFrames
  BY <1>1, <1>5, SameUnchanged DEF SameOpen
<1>7. Shares(Peek)' <=> Shares(Peek)
  <2>1. Peek' = Peek /\ Frame' = Frame
    BY <1>1 DEF Peek, Slot, Plus, stackTop, At, Index, Frame
  <2>. QED  BY <1>1, <1>5, <2>1 DEF Shares
<1>8. Fresh'
  <2>1. /\ pc' = "closure" => Shares(Peek)'
        /\ pc' = "method" => counted > Index(apiStack')
    BY <1>1, <1>7 DEF RInv, Fresh
  <2>. QED  BY <1>1, <1>4, <1>6, <2>1, FreshKept
<1>9. Calls' = Calls
  BY <1>1, <1>6, LocalsKept, CallsKept
<1>10. Contents' = [u \in Upvalue |-> IF u \in garbage THEN None ELSE Contents[u]]
  <2>1. ASSUME NEW u \in Upvalue
        PROVE  ContentOf(u)' = IF u \in garbage THEN None ELSE ContentOf(u)
    BY <1>1 DEF ContentOf
  <2>. QED  BY <2>1 DEF Contents
<1>11. ASSUME NEW v, v \notin Data \cup {None}, v # Junk, NEW i \in 1..Len(stack), v = stack[i]
       PROVE  Range(v) \cap garbage = {}
  BY <1>2, <1>4, <1>11 DEF Marked, UpvaluesOf, IsClosure
<1>12. ASSUME NEW b \in Upvalue \ garbage, Contents[b] \notin Data \cup {None}
       PROVE  Range(Contents[b]) \cap garbage = {}
  <2>1. upvalue[b] # None
    BY <1>12 DEF Contents, ContentOf
  <2>2. CASE upvalue[b].value = Closed
    <3>1. Contents[b] = upvalue[b].closed /\ upvalue[b].closed # Junk
      BY <2>1, <2>2 DEF Contents, ContentOf, RInv, UInv, Wrote
    <3>. QED  BY <1>3, <1>12, <2>1, <3>1 DEF UpvaluesOf, IsClosure
  <2>3. CASE upvalue[b].value # Closed
    <3>1. b \in Range(openUpvalues) /\ Index(upvalue[b].value) \in 0..Len(stack) - 1
      BY <1>4, <2>1, <2>3, OpenAre
    <3>2. Index(upvalue[b].value) < counted
      BY <3>1 DEF RInv, Fresh, Range
    <3>3. Index(upvalue[b].value) + 1 \in 1..counted /\ Index(upvalue[b].value) + 1 \in 1..Len(stack)
      BY <1>4, <3>1, <3>2
    <3>4. Contents[b] = stack[Index(upvalue[b].value) + 1]
      BY <2>1, <2>3 DEF Contents, ContentOf
    <3>5. Contents[b] # Junk
      BY <3>3, <3>4 DEF RInv, Fresh
    <3>. QED  BY <1>11, <1>12, <3>3, <3>4, <3>5
  <2>. QED  BY <2>2, <2>3
<1>13. ASSUME NEW k \in DOMAIN Calls
       PROVE  /\ Range(Calls[k].captured) \cap garbage = {}
              /\ \A i \in DOMAIN Calls[k].locals :
                   LET l == Calls[k].locals[i]
                   IN /\ l.box \notin garbage
                      /\ l.value \notin Data \cup {None} => Range(l.value) \cap garbage = {}
  <2>1. k \in DOMAIN frames /\ frames # <<>>
    BY <1>13 DEF Calls
  <2>2. k \in 1..Len(frames) /\ DOMAIN frames = 1..Len(frames)
        /\ Bottom(k) \in Nat /\ Bottom(k) <= Base /\ Bottom(k) <= Len(stack)
    <3>1. Base \in Nat /\ counted \in Base + 1..Len(stack)
      BY <2>1, LocalsAre
    <3>2. k \in 1..Len(frames) /\ DOMAIN frames = 1..Len(frames)
          /\ Bottom(k) \in Nat /\ Bottom(k) <= Base
      BY <1>4, <2>1, FramesRise DEF Base
    <3>. QED  BY <1>4, <3>1, <3>2
  <2>3. /\ Calls[k] = [locals |-> View(Bottom(k), Upto(k)), captured |-> frames[k].closure]
        /\ Upto(k) \in Bottom(k)..Len(stack)
    BY <2>1, <2>2, CallsAre
  <2>4. Upto(k) <= counted
    <3>1. CASE k = Len(frames)
      BY <1>4, <3>1 DEF Upto
    <3>2. CASE k # Len(frames)
      <4>1. Upto(k) = Bottom(k + 1) /\ k + 1 \in 1..Len(frames)
        <5>1. Len(frames) \in Nat
          BY <1>4, <2>1, FramesRise
        <5>. QED  BY <2>2, <3>2, <5>1 DEF Upto
      <4>2. Bottom(k + 1) <= Base /\ Bottom(k + 1) \in Nat
        BY <1>4, <2>1, <4>1, FramesRise DEF Base
      <4>3. Base \in Nat /\ Base < counted
        BY <2>1, LocalsAre
      <4>. QED  BY <1>4, <4>1, <4>2, <4>3
    <3>. QED  BY <3>1, <3>2
  <2>5. Range(Calls[k].captured) \cap garbage = {}
    BY <1>2, <2>1, <2>3 DEF Marked
  <2>6. ASSUME NEW i \in 1..Upto(k) - Bottom(k)
        PROVE  LET l == Calls[k].locals[i]
               IN /\ l.box \notin garbage
                  /\ l.value \notin Data \cup {None} => Range(l.value) \cap garbage = {}
    <3> DEFINE j == Bottom(k) + i
    <3>1. j \in 1..Len(stack) /\ j \in 1..counted /\ j \in Nat
      BY <1>4, <2>2, <2>3, <2>4
    <3>2. Calls[k].locals[i] = LocalOf(j)
      BY <2>3 DEF View
    <3> HIDE DEF j
    <3>3. LocalOf(j).box = BoxOf(j) /\ LocalOf(j).value \in {stack[j], None}
      BY DEF LocalOf
    <3>4. BoxOf(j) \notin garbage
      BY <1>2, <1>4, <3>1, BoxesAre DEF Marked
    <3>5. stack[j] # Junk
      BY <3>1 DEF RInv, Fresh
    <3>. QED  BY <1>11, <3>1, <3>2, <3>3, <3>4, <3>5
  <2>7. DOMAIN Calls[k].locals = 1..Upto(k) - Bottom(k)
    BY <2>3 DEF View
  <2>. QED  BY <2>5, <2>6, <2>7
<1>14. Scopes!Forget(garbage)
  BY <1>9, <1>10, <1>12, <1>13 DEF Scopes!Forget, Scopes!Range, Range
<1>. QED
  BY <1>2, <1>8, <1>14

-----------------------------------------------------------------------------
(* Instructions that a script notices.                                      *)

\* Some variables of the innermost call are gone, and one is new.
LEMMA Replaces ==
  ASSUME RInv, frames # <<>>, SameFrames, NEW low \in 0..counted - Base, NEW x,
         counted' = Base + low + 1,
         \A j \in 1..Base + low : LocalOf(j)' = LocalOf(j),
         \A j \in 1..Base + low + 1 : j = Base + low + 1 => LocalOf(j)' = x
  PROVE  Scopes!Becomes(Append(SubSeq(Scopes!Locals, 1, low), x))
<1> DEFINE kept == SubSeq(Scopes!Locals, 1, low)
           S == LocalType \cup {x}
<1>1. /\ Scopes!Locals \in Seq(LocalType) /\ Len(Scopes!Locals) = counted - Base
      /\ Base \in Nat /\ counted \in Nat /\ Base < counted
      /\ \A i \in 1..counted - Base : Scopes!Locals[i] = LocalOf(Base + i)
  BY LocalsAre DEF Scopes!Size
<1>2. Base' = Base
  <2>1. Len(frames) \in DOMAIN frames
    BY FramesRise DEF RInv, UInv
  <2>. QED  BY <2>1 DEF SameFrames, Frame, Base, Bottom
<1>3. low \in Nat /\ low \in 0..Len(Scopes!Locals)
  BY <1>1
<1>4. /\ kept \in Seq(LocalType) /\ Len(kept) = low
      /\ \A i \in 1..low : kept[i] = LocalOf(Base + i)
  <2>1. /\ kept \in Seq(LocalType) /\ Len(kept) = low
        /\ \A i \in 1..low : kept[i] = Scopes!Locals[i]
    BY <1>1, <1>3, Prefix
  <2>2. \A i \in 1..low : i \in 1..counted - Base
    BY <1>1, <1>3
  <2>. QED  BY <1>1, <2>1, <2>2
<1> HIDE DEF kept
<1>5. /\ Append(kept, x) = [i \in 1..low + 1 |-> Append(kept, x)[i]]
      /\ \A i \in 1..low : Append(kept, x)[i] = LocalOf(Base + i)
      /\ Append(kept, x)[low + 1] = x
  <2>1. kept \in Seq(S) /\ x \in S
    BY <1>4, SeqMonotonic
  <2> HIDE DEF S
  <2>2. /\ Append(kept, x) \in Seq(S) /\ Len(Append(kept, x)) = low + 1
        /\ \A i \in 1..low : Append(kept, x)[i] = kept[i]
        /\ Append(kept, x)[low + 1] = x
    BY <1>4, <2>1, AppendProperties
  <2>3. Append(kept, x) \in [1..low + 1 -> S]
    BY <2>2, LenProperties
  <2>. QED  BY <1>4, <2>2, <2>3
<1>6. View(Base, counted)' = [i \in 1..low + 1 |-> LocalOf(Base + i)']
  <2>1. counted' - Base' = low + 1
    BY <1>1, <1>2, <1>3
  <2>. QED  BY <1>2, <2>1 DEF View
<1>7. ASSUME NEW i \in 1..low + 1
      PROVE  LocalOf(Base + i)' = Append(kept, x)[i]
  <2>1. /\ Base + i \in 1..Base + low + 1
        /\ i # low + 1 => i \in 1..low /\ Base + i \in 1..Base + low
        /\ i = low + 1 => Base + i = Base + low + 1
    BY <1>1, <1>3
  <2>2. \A j : j = Base + i => LocalOf(j)' = LocalOf(Base + i)'
    BY <1>2
  <2>3. CASE i = low + 1
    BY <1>5, <2>1, <2>2, <2>3
  <2>4. CASE i # low + 1
    BY <1>5, <2>1, <2>2, <2>4
  <2>. QED  BY <2>3, <2>4
<1>8. View(Base, counted)' = Append(kept, x)
  BY <1>5, <1>6, <1>7
<1>9. \A j \in 1..Base : LocalOf(j)' = LocalOf(j)
  BY <1>1, <1>3
<1>. QED
  BY <1>8, <1>9, TopChanges DEF kept

\* A slot is pushed, and counted.
LEMMA Declares ==
  ASSUME RInv, frames # <<>>, SameFrames, SameUpvalues, counted' = counted + 1, NEW v,
         \A j \in 1..counted : stack'[j] = stack[j], stack'[counted + 1] = v
  PROVE  Scopes!Becomes(Append(Scopes!Locals, Scopes!Private(v))) /\ Contents' = Contents
<1>1. /\ Scopes!Locals \in Seq(LocalType) /\ Len(Scopes!Locals) = counted - Base
      /\ Base \in Nat /\ counted \in Nat /\ Base < counted
  BY LocalsAre DEF Scopes!Size
<1>2. IInv /\ SameOpen
  BY OpenAreSame DEF RInv, UInv
<1>3. \A j \in 1..counted : LocalOf(j)' = LocalOf(j)
  BY <1>2, LocalsKept
<1>4. ASSUME NEW j \in 1..counted + 1, j = counted + 1
      PROVE  LocalOf(j)' = Scopes!Private(v)
  <2>1. BoxOf(j)' = BoxOf(j)
    BY <1>2, SameBoxes
  <2>2. BoxOf(j) = None
    <3> SUFFICES ASSUME BoxOf(j) # None PROVE FALSE
      OBVIOUS
    <3>1. BoxOf(j) \in Range(openUpvalues) /\ Index(upvalue[BoxOf(j)].value) = counted
      BY <1>1, <1>2, <1>4, BoxesAre
    <3>2. Index(upvalue[BoxOf(j)].value) < counted
      BY <3>1 DEF RInv, Fresh, Range
    <3>. QED  BY <1>1, <3>1, <3>2
  <2>3. stack'[j] = v
    BY <1>4
  <2>. QED  BY <2>1, <2>2, <2>3 DEF LocalOf, Scopes!Private
<1>5. /\ counted - Base \in 0..counted - Base /\ Base + (counted - Base) = counted
      /\ SubSeq(Scopes!Locals, 1, counted - Base) = Scopes!Locals
  BY <1>1, SubSeqFull
<1>6. Scopes!Becomes(Append(SubSeq(Scopes!Locals, 1, counted - Base), Scopes!Private(v)))
  BY <1>3, <1>4, <1>5, Replaces
<1>7. Contents' = Contents
  BY ContentsKept
<1>. QED
  BY <1>5, <1>6, <1>7

\* A constant, a local or an upvalue is pushed.
LEMMA LoadDeclares == RInv /\ Load => Scopes!Declare
<1> SUFFICES ASSUME RInv, Load PROVE Scopes!Declare
  OBVIOUS
<1>1. /\ pc = "run" /\ counted' = counted + 1
      /\ UNCHANGED <<frames, openUpvalues, upvalue>>
  BY DEF Load
<1>2. /\ IInv /\ frames # <<>> /\ pc # "done" /\ SameFrames /\ SameUpvalues
      /\ Len(stack) = counted /\ stack \in Seq(Content)
  BY <1>1, SameUnchanged DEF RInv, UInv, IInv, Laid, Shape, AsCounted
<1>3. ASSUME NEW v, Push(v)
      PROVE  Scopes!Becomes(Append(Scopes!Locals, Scopes!Private(v))) /\ Contents' = Contents
  <2>1. stack \in Seq(Content \cup {v}) /\ v \in Content \cup {v}
    BY <1>2
  <2>2. /\ \A j \in 1..Len(stack) : stack'[j] = stack[j]
        /\ stack'[Len(stack) + 1] = v
    BY <1>3, <2>1, AppendProperties DEF Push
  <2>. QED  BY <1>1, <1>2, <2>2, Declares
<1> DEFINE Known == Data \cup {Scopes!Read(Scopes!Locals[i]) : i \in 1..Scopes!Size}
                     \cup {Contents[b] : b \in Range(Scopes!Top.captured)} \cup Scopes!Closures
<1>4. ASSUME NEW v \in Known, Push(v)
      PROVE  Scopes!Declare
  BY <1>3, <1>4 DEF Scopes!Declare, Scopes!Range, Range
<1>5. /\ Scopes!Top.captured = Frame.closure /\ Scopes!Size = counted - Base
      /\ Base \in Nat /\ counted \in Nat /\ Base < counted
      /\ \A i \in 1..counted - Base : Scopes!Read(Scopes!Locals[i]) = stack[Base + i]
  BY <1>2, LocalsAre
<1>6. ASSUME NEW d \in Data
      PROVE  d \in Known
  OBVIOUS
<1>7. ASSUME NEW i \in Locals
      PROVE  Slot(Plus(stackStart, i)) \in Known
  <2>1. Slot(Plus(stackStart, i)) = stack[Base + i + 1]
    BY <1>2, TopFrame DEF Slot, Plus, Index, Base
  <2>2. i + 1 \in 1..counted - Base /\ Base + (i + 1) = Base + i + 1
    BY <1>2, <1>5 DEF Locals, Height, Base
  <2>. QED  BY <1>5, <2>1, <2>2
<1>8. ASSUME NEW i \in DOMAIN Frame.closure
      PROVE  LET u == upvalue[Frame.closure[i]]
             IN (IF u.value = Closed THEN u.closed ELSE Slot(u.value)) \in Known
  <2> DEFINE b == Frame.closure[i]
  <2>1. b \in Range(Frame.closure) /\ b \in Upvalue /\ upvalue[b] # None
    BY <1>2, TopFrame, Closures DEF Live
  <2>2. Contents[b] = IF upvalue[b].value = Closed THEN upvalue[b].closed
                      ELSE Slot(upvalue[b].value)
    BY <2>1 DEF Contents, ContentOf, Slot
  <2>. QED  BY <1>5, <2>1, <2>2
<1> HIDE DEF Known
<1>. QED
  BY <1>4, <1>6, <1>7, <1>8 DEF Load

\* A closure refers to what its scope has captured or shares, and becomes one
\* of its temporaries.
LEMMA ClosureDoneDeclares == RInv /\ ClosureDone => Scopes!Declare
<1> SUFFICES ASSUME RInv, ClosureDone PROVE Scopes!Declare
  OBVIOUS
<1>1. /\ pc = "closure" /\ counted' = counted + 1
      /\ UNCHANGED <<stack, frames, openUpvalues, upvalue>>
  BY DEF ClosureDone, memory, pointers
<1>2. /\ IInv /\ frames # <<>> /\ SameFrames /\ SameUpvalues
      /\ Len(stack) = counted + 1 /\ Peek = stack[Len(stack)]
      /\ Peek \in Closure /\ Shares(Peek)
  BY <1>1, SameUnchanged, TopSlot DEF RInv, UInv, IInv, Laid, AsCounted, Fresh
<1>3. Scopes!Becomes(Append(Scopes!Locals, Scopes!Private(Peek))) /\ Contents' = Contents
  BY <1>1, <1>2, Declares
<1>4. /\ Scopes!Top.captured = Frame.closure /\ Scopes!Size = counted - Base
      /\ Base \in Nat /\ counted \in Nat /\ Base < counted
      /\ \A i \in 1..counted - Base : Scopes!Locals[i] = LocalOf(Base + i)
  BY <1>2, LocalsAre
<1> DEFINE Shareable == {b \in Upvalue : \E i \in 1..Scopes!Size : Scopes!Locals[i].box = b}
                         \cup Range(Scopes!Top.captured)
<1>5. ASSUME NEW u \in Range(Peek)
      PROVE  u \in Shareable
  <2>1. CASE u \in Range(Frame.closure)
    BY <1>4, <2>1
  <2>2. CASE u \in Range(openUpvalues) /\ Index(upvalue[u].value) >= Base
    <3> DEFINE i == Index(upvalue[u].value) - Base + 1
    <3>1. u \in Upvalue /\ Index(upvalue[u].value) \in Nat
      BY <1>2, <2>2, OpenAre
    <3>2. Index(upvalue[u].value) < counted
      BY <2>2 DEF RInv, Fresh, Range
    <3>3. i \in 1..counted - Base /\ Base + i = Index(upvalue[u].value) + 1
      BY <1>4, <2>2, <3>1, <3>2
    <3>4. BoxOf(Base + i) = u
      BY <1>2, <2>2, <3>3, BoxesAre
    <3> HIDE DEF i
    <3>5. LocalOf(Base + i).box = BoxOf(Base + i)
      BY DEF LocalOf
    <3>6. Scopes!Locals[i].box = u
      BY <1>4, <3>3, <3>4, <3>5
    <3>. QED  BY <1>4, <3>1, <3>3, <3>6
  <2>. QED  BY <1>2, <2>1, <2>2 DEF Shares, Base
<1> HIDE DEF Shareable
<1>6. Peek \in UNION {[1..m -> Shareable] : m \in 0..MaxCaptures}
  <2>1. PICK m \in 0..MaxCaptures : Peek \in [1..m -> Upvalue]
    BY <1>2 DEF Closure
  <2>2. \A k \in 1..m : Peek[k] \in Shareable
    BY <1>5, <2>1 DEF Range
  <2>3. Peek \in [1..m -> Shareable]
    BY <2>1, <2>2
  <2>. QED  BY <2>1, <2>3
<1>7. Peek \in Scopes!Closures
  BY <1>6 DEF Shareable, Scopes!Closures, Scopes!SeqOf, Scopes!Range, Range
<1>. QED
  BY <1>3, <1>7 DEF Scopes!Declare

\* A write to a counted slot assigns the variable that is there, which may be
\* one that other calls and closures share.
LEMMA WritesPrivate ==
  ASSUME RInv, frames # <<>>, SameFrames, UNCHANGED <<openUpvalues, upvalue>>,
         counted' = counted, NEW p \in 1..counted - Base, NEW v,
         stack' = [stack EXCEPT ![Base + p] = v], BoxOf(Base + p) = None
  PROVE  /\ Scopes!Becomes([Scopes!Locals EXCEPT ![p] = Scopes!Private(v)])
         /\ Contents' = Contents
<1> DEFINE q == Base + p
<1>1. /\ IInv /\ Base \in Nat /\ counted \in Base + 1..Len(stack) /\ Len(stack) \in Nat
      /\ DOMAIN stack = 1..Len(stack) /\ SameUpvalues /\ SameOpen
  BY LocalsAre, SameUnchanged, TopSlot DEF RInv, UInv
<1>2. q \in 1..counted /\ q \in DOMAIN stack /\ q \in Nat
  BY <1>1
<1>3. /\ stack' = [stack EXCEPT ![q] = v] /\ BoxOf(q) = None
  OBVIOUS
<1> HIDE DEF q
<1>4. \A j \in 1..counted : j # q => stack'[j] = stack[j]
  BY <1>1, <1>3
<1>5. stack'[q] = v
  BY <1>2, <1>3
<1>6. ASSUME NEW j \in 1..counted
      PROVE  BoxOf(j)' = BoxOf(j)
  BY <1>1, SameBoxes
<1>7. \A j \in 1..counted : j # q => LocalOf(j)' = LocalOf(j)
  BY <1>4, <1>6 DEF LocalOf
<1>8. \A j \in 1..counted : j = q => LocalOf(j)' = Scopes!Private(v)
  BY <1>3, <1>5, <1>6 DEF LocalOf, Scopes!Private
<1>9. Scopes!Becomes([Scopes!Locals EXCEPT ![p] = Scopes!Private(v)])
  BY <1>7, <1>8, OneChanges DEF q
<1>10. ASSUME NEW u \in Upvalue
       PROVE  ContentOf(u)' = ContentOf(u)
  <2>1. CASE upvalue[u] = None \/ upvalue[u].value = Closed
    BY <2>1 DEF ContentOf
  <2>2. CASE upvalue[u] # None /\ upvalue[u].value # Closed
    <3>1. u \in Range(openUpvalues) /\ Index(upvalue[u].value) \in 0..Len(stack) - 1
      BY <1>1, <2>2, OpenAre
    <3>2. BoxOf(Index(upvalue[u].value) + 1) = u /\ u # None
      BY <1>1, <3>1, BoxesAre
    <3>3. Index(upvalue[u].value) + 1 \in 1..Len(stack) /\ Index(upvalue[u].value) + 1 # q
      BY <1>1, <1>3, <3>1, <3>2
    <3>. QED  BY <1>1, <1>3, <2>2, <3>3 DEF ContentOf
  <2>. QED  BY <2>1, <2>2
<1>. QED
  BY <1>9, <1>10 DEF Contents

\* A write to a slot that an upvalue points at is one to what they share.
LEMMA WritesShared ==
  ASSUME RInv, SameFrames, UNCHANGED <<openUpvalues, upvalue>>,
         counted' = counted, NEW b \in Range(openUpvalues), NEW v,
         NEW q, q = Index(upvalue[b].value) + 1, stack' = [stack EXCEPT ![q] = v]
  PROVE  Calls' = Calls /\ Contents' = [Contents EXCEPT ![b] = v]
<1>1. /\ IInv /\ Len(stack) \in Nat /\ DOMAIN stack = 1..Len(stack)
      /\ SameUpvalues /\ SameOpen /\ counted \in Nat
  BY SameUnchanged, TopSlot DEF RInv, UInv, AsCounted
<1>2. /\ b \in Upvalue /\ upvalue[b] # None /\ upvalue[b].value # Closed
      /\ q \in 1..Len(stack) /\ BoxOf(q) = b /\ b # None
  <2>1. /\ b \in Upvalue /\ upvalue[b] # None /\ upvalue[b].value # Closed
        /\ Index(upvalue[b].value) \in 0..Len(stack) - 1
    BY <1>1, OpenAre
  <2>2. BoxOf(q) = b /\ b # None
    BY <1>1, BoxesAre
  <2>. QED  BY <1>1, <2>1, <2>2
<1>3. ASSUME NEW j \in 1..counted
      PROVE  LocalOf(j)' = LocalOf(j)
  <2>1. BoxOf(j)' = BoxOf(j)
    BY <1>1, SameBoxes
  <2>2. CASE j = q
    <3>1. BoxOf(j) # None
      BY <1>2, <2>2
    <3>. QED  BY <2>1, <3>1 DEF LocalOf
  <2>3. CASE j # q
    <3>1. stack'[j] = stack[j]
      BY <1>1, <2>3
    <3>. QED  BY <2>1, <3>1 DEF LocalOf
  <2>. QED  BY <2>2, <2>3
<1>4. Calls' = Calls
  BY <1>3, CallsKept
<1>5. ASSUME NEW u \in Upvalue, u # b
      PROVE  ContentOf(u)' = ContentOf(u)
  <2>1. CASE upvalue[u] = None \/ upvalue[u].value = Closed
    BY <2>1 DEF ContentOf
  <2>2. CASE upvalue[u] # None /\ upvalue[u].value # Closed
    <3>1. u \in Range(openUpvalues) /\ Index(upvalue[u].value) \in 0..Len(stack) - 1
      BY <1>1, <2>2, OpenAre
    <3>2. BoxOf(Index(upvalue[u].value) + 1) = u
      BY <1>1, <3>1, BoxesAre
    <3>3. Index(upvalue[u].value) + 1 \in 1..Len(stack) /\ Index(upvalue[u].value) + 1 # q
      BY <1>1, <1>2, <1>5, <3>1, <3>2
    <3>4. stack'[Index(upvalue[u].value) + 1] = stack[Index(upvalue[u].value) + 1]
      BY <1>1, <3>3
    <3>. QED  BY <2>2, <3>4 DEF ContentOf
  <2>. QED  BY <2>1, <2>2
<1>6. ContentOf(b)' = v
  <2>1. stack'[q] = v
    BY <1>1, <1>2
  <2>. QED  BY <1>2, <2>1 DEF ContentOf
<1>7. Contents' = [Contents EXCEPT ![b] = v]
  <2>1. \A u \in Upvalue : ContentOf(u)' = IF u = b THEN v ELSE ContentOf(u)
    <3> TAKE u \in Upvalue
    <3>1. CASE u = b
      BY <1>2, <1>6, <3>1 DEF ContentOf
    <3>. QED  BY <1>5, <3>1
  <2>. QED  BY <2>1 DEF Contents
<1>. QED
  BY <1>4, <1>7

\* A write to a slot of the running frame assigns one of its variables.
LEMMA Assigns ==
  ASSUME RInv, frames # <<>>, UNCHANGED <<frames, openUpvalues, upvalue, counted>>,
         NEW p \in 1..counted - Base, NEW v \in Scopes!Assignable,
         stack' = [stack EXCEPT ![Base + p] = v]
  PROVE  Scopes!Assign(p)
<1>1. /\ IInv /\ Base \in Nat /\ counted \in Base + 1..Len(stack) /\ Len(stack) \in Nat
      /\ SameFrames /\ Scopes!Locals[p] = LocalOf(Base + p)
  BY LocalsAre, SameUnchanged DEF RInv, UInv
<1>2. Scopes!Locals[p].box = BoxOf(Base + p)
  <2>1. LocalOf(Base + p).box = BoxOf(Base + p)
    BY DEF LocalOf
  <2>. QED  BY <1>1, <2>1
<1>3. CASE BoxOf(Base + p) = None
  <2>1. /\ Scopes!Becomes([Scopes!Locals EXCEPT ![p] = Scopes!Private(v)])
        /\ Contents' = Contents
    BY <1>1, <1>3, WritesPrivate
  <2>. QED  BY <1>2, <1>3, <2>1 DEF Scopes!Assign
<1>4. CASE BoxOf(Base + p) # None
  <2> DEFINE b == BoxOf(Base + p)
             q == Base + p
  <2>1. q \in Nat /\ q - 1 + 1 = q
    BY <1>1
  <2>2. b \in Range(openUpvalues) /\ Index(upvalue[b].value) = q - 1
    BY <1>1, <1>4, <2>1, BoxesAre
  <2>3. q = Index(upvalue[b].value) + 1 /\ stack' = [stack EXCEPT ![q] = v]
    BY <2>1, <2>2
  <2>4. Scopes!Locals[p].box = b /\ b # None
    BY <1>2, <1>4
  <2> HIDE DEF b, q
  <2>5. Calls' = Calls /\ Contents' = [Contents EXCEPT ![b] = v]
    BY <1>1, <2>2, <2>3, WritesShared
  <2>6. Scopes!AssignBox(b)
    BY <2>5 DEF Scopes!AssignBox
  <2>. QED  BY <2>4, <2>6 DEF Scopes!Assign
<1>. QED
  BY <1>3, <1>4

\* What the youngest temporary holds, and constants, can be assigned.
LEMMA AssignableAre ==
  RInv /\ frames # <<>> /\ pc = "run" =>
    Peek \in Scopes!Assignable /\ Len(stack) = counted /\ Peek = stack[counted]
<1> SUFFICES ASSUME RInv, frames # <<>>, pc = "run"
             PROVE  Peek \in Scopes!Assignable /\ Len(stack) = counted /\ Peek = stack[counted]
  OBVIOUS
<1>1. Len(stack) = counted /\ Peek = stack[counted]
  BY TopSlot DEF RInv, UInv, AsCounted
<1>2. /\ Scopes!Size = counted - Base /\ Base \in Nat /\ counted \in Nat /\ Base < counted
      /\ \A i \in 1..counted - Base : Scopes!Read(Scopes!Locals[i]) = stack[Base + i]
  BY LocalsAre
<1>3. counted - Base \in 1..counted - Base /\ Base + (counted - Base) = counted
  BY <1>2
<1>4. Scopes!Read(Scopes!Locals[Scopes!Size]) = stack[counted]
  BY <1>2, <1>3
<1>. QED
  BY <1>1, <1>4 DEF Scopes!Assignable

\* CODE_STORE_LOCAL.
LEMMA StoreLocalAssigns ==
  ASSUME NEW i \in Nat, RInv, StoreLocal(i)
  PROVE  i + 1 \in 1..Scopes!Size /\ Scopes!Assign(i + 1)
<1>1. /\ pc = "run" /\ i \in Locals
      /\ stack' = Written(Plus(stackStart, i), Peek)
      /\ UNCHANGED <<frames, openUpvalues, upvalue, counted>>
  BY DEF StoreLocal, pointers
<1>2. frames # <<>> /\ pc # "done" /\ IInv
  BY <1>1 DEF RInv, UInv, IInv, Laid
<1>3. Base \in Nat /\ Scopes!Size = counted - Base /\ Len(stack) \in Nat
  BY <1>2, LocalsAre
<1>4. Peek \in Scopes!Assignable /\ Len(stack) = counted
  BY <1>1, <1>2, AssignableAre
<1>5. i + 1 \in 1..counted - Base /\ Base + (i + 1) = Base + i + 1
  BY <1>1, <1>3, <1>4 DEF Locals, Height, Base
<1>6. stack' = [stack EXCEPT ![Base + (i + 1)] = Peek]
  <2>1. Index(Plus(stackStart, i)) + 1 = Base + i + 1
    BY <1>2, TopFrame DEF Plus, Index, Base
  <2>. QED  BY <1>1, <1>5, <2>1 DEF Written
<1>. QED
  BY <1>1, <1>2, <1>3, <1>4, <1>5, <1>6, Assigns

\* The receiver's slot, or what an allocator leaves there.
LEMMA ConstructAssigns ==
  ASSUME NEW d \in Data, RInv, Construct(d) \/ AllocatorReturns(d)
  PROVE  \E i \in 1..Scopes!Size : Scopes!Assign(i)
<1>1. /\ pc \in {"run", "allocator"}
      /\ UNCHANGED <<frames, openUpvalues, upvalue, counted>>
  BY DEF Construct, AllocatorReturns, pointers
<1>2. frames # <<>> /\ pc # "done" /\ IInv
  BY <1>1 DEF RInv, UInv, IInv, Laid
<1>3. /\ Base \in Nat /\ Scopes!Size = counted - Base /\ counted \in Base + 1..Len(stack)
      /\ Len(stack) \in Nat
  BY <1>2, LocalsAre
<1>4. PICK a : /\ stack' = Written(a, d) /\ Index(a) \in Base..counted - 1
  <2>1. CASE Construct(d)
    <3>1. stack' = Written(stackStart, d) /\ Index(stackStart) = Base
      BY <1>2, <2>1, TopFrame DEF Construct, Base
    <3>. QED  BY <1>3, <3>1
  <2>2. CASE AllocatorReturns(d)
    <3>1. stack' = Written(apiStack, d) /\ apiStack # None /\ pc = "allocator"
      BY <1>2, <2>2 DEF AllocatorReturns, IInv, Laid
    <3>2. apiStack \in Nat \X Nat
      BY <1>2, <3>1 DEF IInv, Shape, Address
    <3>3. /\ Index(apiStack) < Len(stack) /\ Index(apiStack) >= Base /\ Index(apiStack) \in Nat
          /\ Len(stack) = counted
      BY <1>2, <3>1, <3>2 DEF IInv, Laid, Base, Index, RInv, UInv, AsCounted
    <3>. QED  BY <1>3, <3>1, <3>3
  <2>. QED  BY <2>1, <2>2
<1>5. Index(a) - Base + 1 \in 1..counted - Base /\ Base + (Index(a) - Base + 1) = Index(a) + 1
  BY <1>3, <1>4
<1>6. stack' = [stack EXCEPT ![Base + (Index(a) - Base + 1)] = d]
  BY <1>4, <1>5 DEF Written
<1>7. d \in Scopes!Assignable
  BY DEF Scopes!Assignable
<1>8. Scopes!Assign(Index(a) - Base + 1)
  BY <1>1, <1>2, <1>5, <1>6, <1>7, Assigns
<1>. QED
  BY <1>3, <1>5, <1>8

\* CODE_STORE_UPVALUE, to an upvalue that is open or closed.
LEMMA StoreUpvalueAssigns ==
  ASSUME NEW i \in Nat, RInv, StoreUpvalue(i)
  PROVE  \E b \in Range(Scopes!Top.captured) : Scopes!AssignBox(b)
<1> DEFINE b == Frame.closure[i]
<1>1. /\ pc = "run" /\ i \in DOMAIN Frame.closure
      /\ UNCHANGED <<frames, openUpvalues, counted>>
  BY DEF StoreUpvalue
<1>2. frames # <<>> /\ pc # "done" /\ IInv /\ SameFrames
  BY <1>1, SameUnchanged DEF RInv, UInv, IInv, Laid
<1>3. Scopes!Top.captured = Frame.closure /\ Peek \in Scopes!Assignable
  BY <1>1, <1>2, LocalsAre, AssignableAre
<1>4. b \in Range(Frame.closure) /\ b \in Live /\ b \in Upvalue /\ upvalue[b] # None
  BY <1>1, <1>2, TopFrame, Closures DEF Live
<1>5. CASE upvalue[b].value # Closed
  <2>1. stack' = Written(upvalue[b].value, Peek) /\ UNCHANGED upvalue
    BY <1>5 DEF StoreUpvalue
  <2>2. b \in Range(openUpvalues)
    BY <1>2, <1>4, <1>5, OpenAre
  <2> HIDE DEF b
  <2>3. Calls' = Calls /\ Contents' = [Contents EXCEPT ![b] = Peek]
    BY <1>1, <1>2, <2>1, <2>2, WritesShared DEF Written
  <2>4. Scopes!AssignBox(b)
    BY <1>3, <2>3 DEF Scopes!AssignBox
  <2>. QED  BY <1>3, <1>4, <2>4
<1>6. CASE upvalue[b].value = Closed
  <2>1. stack' = stack /\ upvalue' = [upvalue EXCEPT ![b].closed = Peek]
    BY <1>6 DEF StoreUpvalue
  <2> HIDE DEF b
  <2>2. upvalue[b] \in [value : {Closed}, closed : Content] /\ upvalue \in [Upvalue -> OpenOrClosed \cup {None}]
    <3>1. upvalue[b] \in OpenOrClosed /\ upvalue \in [Upvalue -> OpenOrClosed \cup {None}]
      BY <1>2, <1>4 DEF IInv, Shape
    <3>2. upvalue[b] \notin [value : Address, closed : {None}]
      BY <1>6 DEF Address, Closed
    <3>. QED  BY <3>1, <3>2 DEF OpenOrClosed
  <2>3. /\ upvalue'[b] = [value |-> Closed, closed |-> Peek]
        /\ \A u \in Upvalue : u # b => upvalue'[u] = upvalue[u]
    BY <1>4, <1>6, <2>1, <2>2
  <2>4. Peek \in Content
    BY <1>2, TopSlot, SlotValue
  <2>5. upvalue'[b] # None
    <3>1. upvalue'[b] \in [value : Int \X Int, closed : Value \cup {Junk, None}]
      BY <2>3, <2>4 DEF Content, Closed
    <3>. QED  BY <3>1, StackAssumption
  <2>6. SameOpen
    <3>1. \A u \in Range(openUpvalues) : u \in Upvalue /\ u # b
      BY <1>2, <1>6, OpenAre
    <3>. QED  BY <1>1, <2>3, <3>1 DEF SameOpen
  <2>7. Calls' = Calls
    BY <1>1, <1>2, <2>1, <2>6, LocalsKept, CallsKept
  <2>8. Contents' = [Contents EXCEPT ![b] = Peek]
    <3>1. \A u \in Upvalue : ContentOf(u)' = IF u = b THEN Peek ELSE ContentOf(u)
      BY <2>1, <2>3, <2>5 DEF ContentOf
    <3>. QED  BY <3>1 DEF Contents
  <2>9. Scopes!AssignBox(b)
    BY <1>3, <2>7, <2>8 DEF Scopes!AssignBox
  <2>. QED  BY <1>3, <1>4, <2>9
<1>. QED
  BY <1>5, <1>6

\* Upvalues at slot number `b` and above are closed, or there are none.
ClosesFrom(b) ==
  /\ Range(openUpvalues') = {u \in Range(openUpvalues) : Index(upvalue[u].value) < b}
  /\ \A u \in Upvalue :
       upvalue'[u] = IF u \in Range(openUpvalues) /\ Index(upvalue[u].value) >= b
                     THEN [value |-> Closed, closed |-> stack[Index(upvalue[u].value) + 1]]
                     ELSE upvalue[u]

\* An upvalue that is closed holds what its slot held, and a slot below is what
\* it was.
LEMMA Closes ==
  ASSUME RInv, NEW b \in Nat, ClosesFrom(b), \A j \in 1..b : stack'[j] = stack[j]
  PROVE  /\ Contents' = Contents
         /\ \A j \in 1..b : LocalOf(j)' = LocalOf(j)
         /\ \A j : j = b + 1 => BoxOf(j)' = None
<1>1. IInv /\ Len(stack) \in Nat /\ DOMAIN stack = 1..Len(stack)
  BY TopSlot DEF RInv, UInv
<1>2. ASSUME NEW u \in Upvalue
      PROVE  ContentOf(u)' = ContentOf(u)
  <2>1. CASE upvalue[u] = None \/ upvalue[u].value = Closed
    <3>1. u \notin Range(openUpvalues)
      BY <1>1, <2>1, OpenAre
    <3>. QED  BY <2>1, <3>1 DEF ClosesFrom, ContentOf
  <2>2. CASE upvalue[u] # None /\ upvalue[u].value # Closed
    <3>1. u \in Range(openUpvalues) /\ Index(upvalue[u].value) \in 0..Len(stack) - 1
      BY <1>1, <2>2, OpenAre
    <3> DEFINE q == Index(upvalue[u].value) + 1
    <3>2. q \in 1..Len(stack) /\ ContentOf(u) = stack[q]
      BY <1>1, <2>2, <3>1 DEF ContentOf
    <3>3. CASE Index(upvalue[u].value) >= b
      <4>1. upvalue'[u] = [value |-> Closed, closed |-> stack[q]]
        BY <3>1, <3>3 DEF ClosesFrom
      <4>2. stack[q] \in Content
        BY <1>1, <3>2, SlotValue
      <4> HIDE DEF q
      <4>3. upvalue'[u] \in [value : Int \X Int, closed : Value \cup {Junk, None}]
        BY <4>1, <4>2 DEF Content, Closed
      <4>4. upvalue'[u] # None
        BY <4>3, StackAssumption
      <4>. QED  BY <3>2, <4>1, <4>4 DEF ContentOf
    <3>4. CASE Index(upvalue[u].value) < b
      <4>1. upvalue'[u] = upvalue[u]
        <5>1. ~(Index(upvalue[u].value) >= b)
          BY <1>1, <3>1, <3>4
        <5>. QED  BY <5>1 DEF ClosesFrom
      <4>2. stack'[q] = stack[q]
        BY <3>1, <3>4
      <4>. QED  BY <2>2, <4>1, <4>2 DEF ContentOf
    <3>. QED  BY <3>1, <3>3, <3>4
  <2>. QED  BY <2>1, <2>2
<1>3. Contents' = Contents
  BY <1>2 DEF Contents
<1>4. \A u \in Range(openUpvalues') :
        /\ u \in Range(openUpvalues) /\ upvalue'[u] = upvalue[u]
        /\ Index(upvalue[u].value) \in Nat /\ Index(upvalue[u].value) < b
  <2> TAKE u \in Range(openUpvalues')
  <2>1. u \in Range(openUpvalues) /\ Index(upvalue[u].value) < b
    BY DEF ClosesFrom
  <2>2. u \in Upvalue /\ Index(upvalue[u].value) \in Nat
    BY <1>1, <2>1, OpenAre
  <2>3. ~(Index(upvalue[u].value) >= b)
    BY <2>1, <2>2
  <2>. QED  BY <2>1, <2>2, <2>3 DEF ClosesFrom
<1> DEFINE Pointing(j) == {u \in Range(openUpvalues) : Index(upvalue[u].value) = j - 1}
           Points2(j) == {u \in Range(openUpvalues') : Index(upvalue'[u].value) = j - 1}
<1>5. \A j : /\ BoxOf(j) = IF Pointing(j) = {} THEN None ELSE CHOOSE u \in Pointing(j) : TRUE
             /\ BoxOf(j)' = IF Points2(j) = {} THEN None ELSE CHOOSE u \in Points2(j) : TRUE
  BY DEF BoxOf
<1>6. ASSUME NEW j \in 1..b
      PROVE  Points2(j) = Pointing(j)
  <2>1. \A u \in Range(openUpvalues) :
          Index(upvalue[u].value) = j - 1 => u \in Range(openUpvalues')
    BY <1>6 DEF ClosesFrom
  <2>. QED  BY <1>4, <2>1
<1>7. Points2(b + 1) = {}
  BY <1>4
<1> HIDE DEF Pointing, Points2
<1>8. ASSUME NEW j \in 1..b
      PROVE  LocalOf(j)' = LocalOf(j)
  <2>1. BoxOf(j)' = IF Pointing(j) = {} THEN None ELSE CHOOSE u \in Pointing(j) : TRUE
    BY <1>5, <1>6
  <2>2. BoxOf(j)' = BoxOf(j) /\ stack'[j] = stack[j]
    BY <1>5, <2>1
  <2>. QED  BY <2>2 DEF LocalOf
<1>9. \A j : j = b + 1 => BoxOf(j)' = None
  BY <1>5, <1>7
<1>. QED
  BY <1>3, <1>8, <1>9

\* closeUpvalues() does that.
LEMMA CloseUpvalues ==
  ASSUME RInv, NEW last \in Address,
         openUpvalues' = StillOpen(last), upvalue' = ClosedUpvalues(last, stack)
  PROVE  ClosesFrom(Index(last))
<1> DEFINE n == Len(openUpvalues)
           Spot(k) == Index(upvalue[openUpvalues[k]].value)
           b == Index(last)
<1>1. /\ IInv /\ openUpvalues \in Seq(Upvalue) /\ n \in Nat /\ DOMAIN openUpvalues = 1..n
      /\ b \in Nat
  BY LenProperties DEF RInv, UInv, IInv, Shape, Address, Index
<1>2. PICK m \in 0..n :
        /\ Closing(last) = 1..m
        /\ openUpvalues' \in Seq(Upvalue)
        /\ Len(openUpvalues') = n - m
        /\ \A k \in 1..n - m : openUpvalues'[k] = openUpvalues[m + k] /\ Spot(m + k) < b
        /\ \A k \in 1..m : Spot(k) >= b
  BY <1>1, ClosesTop
<1>3. DOMAIN openUpvalues' = 1..n - m
  BY <1>2, LenProperties
<1>4. \A k \in 1..n : Spot(k) \in Int
  BY <1>1, OpenAre DEF Range
<1> HIDE DEF n, Spot, b
<1>5. ASSUME NEW k \in 1..n
      PROVE  (Spot(k) >= b <=> k \in 1..m) /\ (Spot(k) < b => k - m \in 1..n - m)
  <2>1. CASE k \in 1..m
    BY <1>1, <1>2, <1>4, <2>1
  <2>2. CASE k \notin 1..m
    <3>1. k - m \in 1..n - m /\ m + (k - m) = k
      BY <1>1, <2>2
    <3>2. Spot(k) < b
      BY <1>2, <3>1
    <3>. QED  BY <1>1, <1>4, <2>2, <3>1, <3>2
  <2>. QED  BY <2>1, <2>2
<1>6. ASSUME NEW u \in Range(openUpvalues)
      PROVE  (Index(upvalue[u].value) >= b <=> \E k \in Closing(last) : openUpvalues[k] = u)
  <2>1. PICK k \in 1..n : openUpvalues[k] = u
    BY <1>1 DEF Range
  <2>2. CASE Index(upvalue[u].value) >= b
    BY <1>2, <1>5, <2>1, <2>2 DEF Spot
  <2>3. ASSUME NEW l \in Closing(last), openUpvalues[l] = u
        PROVE  Index(upvalue[u].value) >= b
    BY <1>2, <2>3 DEF Spot
  <2>. QED  BY <2>2, <2>3
<1>7. Range(openUpvalues') = {u \in Range(openUpvalues) : Index(upvalue[u].value) < b}
  <2>1. ASSUME NEW k \in 1..n - m
        PROVE  /\ openUpvalues'[k] \in Range(openUpvalues)
               /\ Index(upvalue[openUpvalues'[k]].value) < b
    <3>1. m + k \in 1..n
      BY <1>1
    <3>. QED  BY <1>1, <1>2, <3>1 DEF Range, Spot
  <2>2. ASSUME NEW k \in 1..n, Spot(k) < b
        PROVE  openUpvalues[k] \in Range(openUpvalues')
    <3>1. k - m \in 1..n - m /\ m + (k - m) = k
      BY <1>1, <1>5, <2>2
    <3>2. openUpvalues'[k - m] = openUpvalues[k]
      BY <1>2, <3>1
    <3>. QED  BY <1>3, <3>1, <3>2 DEF Range
  <2>. QED  BY <1>1, <1>3, <2>1, <2>2 DEF Range, Spot
<1>8. ASSUME NEW u \in Upvalue, u \notin Range(openUpvalues)
      PROVE  ~ \E k \in Closing(last) : openUpvalues[k] = u
  BY <1>1, <1>2, <1>8 DEF Range
<1>9. ASSUME NEW u \in Upvalue
      PROVE  upvalue'[u] = IF u \in Range(openUpvalues) /\ Index(upvalue[u].value) >= b
                           THEN [value |-> Closed,
                                 closed |-> stack[Index(upvalue[u].value) + 1]]
                           ELSE upvalue[u]
  <2>1. (\E k \in Closing(last) : openUpvalues[k] = u)
          <=> u \in Range(openUpvalues) /\ Index(upvalue[u].value) >= b
    BY <1>6, <1>8
  <2>. QED  BY <2>1 DEF ClosedUpvalues
<1>. QED
  BY <1>7, <1>9 DEF ClosesFrom, b

\* CODE_POP and CODE_CLOSE_UPVALUE.
LEMMA PopLeaves == RInv /\ Pop => Scopes!Leave
<1> SUFFICES ASSUME RInv, Pop PROVE Scopes!Leave
  OBVIOUS
<1>1. /\ pc = "run" /\ Height > 1 /\ stack' = Front(stack) /\ counted' = counted - 1
      /\ frames' = frames
  BY DEF Pop
<1>2. /\ IInv /\ frames # <<>> /\ SameFrames /\ stack \in Seq(Content)
      /\ Len(stack) = counted
  BY <1>1, SameUnchanged DEF RInv, UInv, IInv, Laid, Shape, AsCounted
<1>3. /\ Scopes!Locals \in Seq(LocalType) /\ Scopes!Size = counted - Base
      /\ Len(Scopes!Locals) = counted - Base
      /\ Base \in Nat /\ counted \in Nat /\ Base + 1 < counted
      /\ \A i \in 1..counted - Base : Scopes!Locals[i] = LocalOf(Base + i)
  <2>1. Base + 1 < Len(stack)
    <3>1. Base \in Nat /\ Len(stack) \in Nat
      BY <1>2, LocalsAre
    <3>. QED  BY <1>1, <3>1 DEF Height, Base
  <2>. QED  BY <1>2, <2>1, LocalsAre DEF Scopes!Size
<1> DEFINE b == counted - 1
<1>4. b \in Nat /\ Base < b /\ b - Base \in 0..counted - Base
  BY <1>3
<1>5. \A j \in 1..b : stack'[j] = stack[j]
  <2>1. stack' = SubSeq(stack, 1, b) /\ b \in 0..Len(stack)
    BY <1>1, <1>2, <1>3 DEF Front
  <2>. QED  BY <1>2, <2>1, Prefix
<1>6. ClosesFrom(b)
  <2>1. CASE Temporary(Len(stack) - 1) /\ UNCHANGED <<openUpvalues, upvalue>>
    <3>1. \A u \in Range(openUpvalues) :
            Index(upvalue[u].value) < b /\ Index(upvalue[u].value) \in Nat
      <4> TAKE u \in Range(openUpvalues)
      <4>1. Index(upvalue[u].value) # b
        BY <1>2, <2>1 DEF Temporary, Range
      <4>2. Index(upvalue[u].value) < counted /\ Index(upvalue[u].value) \in Nat
        BY <1>2, OpenAre DEF RInv, Fresh, Range
      <4>. QED  BY <1>3, <4>1, <4>2
    <3>2. \A u \in Range(openUpvalues) : ~(Index(upvalue[u].value) >= b)
      BY <1>4, <3>1
    <3>. QED  BY <2>1, <3>1, <3>2 DEF ClosesFrom
  <2>2. CASE /\ openUpvalues' = StillOpen(Plus(stackTop, -1))
             /\ upvalue' = ClosedUpvalues(Plus(stackTop, -1), stack)
    <3>1. Plus(stackTop, -1) \in Address /\ Index(Plus(stackTop, -1)) = b
      <4>1. Plus(stackTop, -1) = <<array, counted + -1>> /\ array \in Nat
        BY <1>2 DEF Plus, stackTop, At, IInv, Shape
      <4>2. counted + -1 = b
        BY <1>3
      <4>. QED  BY <1>4, <4>1, <4>2 DEF Address, Index
    <3>. QED  BY <2>2, <3>1, CloseUpvalues
  <2>. QED  BY <2>1, <2>2 DEF Pop
<1> HIDE DEF b
<1>7. /\ Contents' = Contents
      /\ \A j \in 1..b : LocalOf(j)' = LocalOf(j)
  BY <1>4, <1>5, <1>6, Closes
<1>8. View(Base, counted)' = SubSeq(Scopes!Locals, 1, b - Base)
  <2> DEFINE rest == SubSeq(Scopes!Locals, 1, b - Base)
  <2>1. /\ rest \in Seq(LocalType) /\ Len(rest) = b - Base
        /\ \A i \in 1..b - Base : rest[i] = Scopes!Locals[i]
    BY <1>3, <1>4, Prefix
  <2> HIDE DEF rest
  <2>2. rest = [i \in 1..b - Base |-> rest[i]]
    <3>1. rest \in [1..b - Base -> LocalType]
      BY <2>1, LenProperties
    <3>. QED  BY <3>1
  <2>3. Base' = Base
    BY <1>1 DEF Base, Frame
  <2>4. View(Base, counted)' = [i \in 1..b - Base |-> LocalOf(Base + i)']
    BY <1>1, <2>3 DEF View, b
  <2>5. ASSUME NEW i \in 1..b - Base
        PROVE  LocalOf(Base + i)' = rest[i]
    <3>1. Base + i \in 1..b /\ i \in 1..counted - Base
      BY <1>3, <1>4
    <3>2. \A j : j = Base + i => LocalOf(j)' = LocalOf(Base + i)'
      BY <2>3
    <3>. QED  BY <1>3, <1>7, <2>1, <3>1, <3>2
  <2>6. View(Base, counted)' = rest
    BY <2>2, <2>4, <2>5
  <2>. QED  BY <2>6 DEF rest
<1>9. Scopes!Becomes(SubSeq(Scopes!Locals, 1, b - Base))
  <2>1. \A j \in 1..Base : j \in 1..b
    BY <1>3, <1>4
  <2>. QED  BY <1>2, <1>7, <1>8, <2>1, TopChanges
<1>10. b - Base = Scopes!Size - 1
  BY <1>3 DEF b
<1>. QED
  BY <1>7, <1>9, <1>10 DEF Scopes!Leave, Scopes!Without

\* Native code leaves its result in the first slot of its window.
LEMMA MethodReturnsCalls ==
  ASSUME NEW d \in Data, RInv, MethodReturns(d)
  PROVE  \E n \in 1..Scopes!Size : Scopes!CallNative(n)
<1> DEFINE top == Index(apiStack)
           w == Written(apiStack, d)
<1>1. /\ pc = "method" /\ counted' = top + 1
      /\ stack' = SubSeq(w, 1, top + 1)
      /\ UNCHANGED <<frames, openUpvalues, upvalue>>
  BY DEF MethodReturns, MethodTop
<1>2. /\ IInv /\ frames # <<>> /\ SameFrames /\ SameUpvalues /\ SameOpen /\ stack \in Seq(Content)
      /\ top < counted /\ DOMAIN stack = 1..Len(stack)
  BY <1>1, SameUnchanged, TopSlot DEF RInv, UInv, IInv, Laid, Shape, Fresh
<1>3. /\ Scopes!Locals \in Seq(LocalType) /\ Scopes!Size = counted - Base
      /\ Base \in Nat /\ counted \in Base + 1..Len(stack) /\ Len(stack) \in Nat
  BY <1>2, LocalsAre
<1>4. top \in Nat /\ top >= Base
  <2>1. apiStack # None /\ apiStack \in Nat \X Nat
    BY <1>1, <1>2 DEF IInv, Laid, Shape, Address
  <2>. QED  BY <1>2, <2>1 DEF IInv, Laid, Base, Index
<1>5. /\ \A j \in 1..top : stack'[j] = stack[j]
      /\ \A j : j = top + 1 => stack'[j] = d
  <2>1. /\ w = [stack EXCEPT ![top + 1] = d]
        /\ w \in Seq(Content \cup {d}) /\ Len(w) = Len(stack)
    BY <1>2, WrittenSlots DEF Written
  <2>2. top + 1 \in 0..Len(stack) /\ top + 1 \in 1..Len(stack)
    BY <1>2, <1>3, <1>4
  <2>3. /\ \A j \in 1..top : w[j] = stack[j]
        /\ w[top + 1] = d
    BY <1>2, <1>4, <2>1, <2>2
  <2> HIDE DEF w, top
  <2>4. \A j \in 1..top + 1 : stack'[j] = w[j]
    BY <1>1, <2>1, <2>2, Prefix
  <2>. QED  BY <1>4, <2>3, <2>4
<1> HIDE DEF top, w
<1>6. \A u \in Range(openUpvalues) :
        Index(upvalue[u].value) \in Nat /\ Index(upvalue[u].value) < top
  BY <1>1, <1>2, OpenAre DEF IInv, Linked, Range, top
<1>7. \A j \in 1..top : LocalOf(j)' = LocalOf(j)
  <2> TAKE j \in 1..top
  <2>1. BoxOf(j)' = BoxOf(j) /\ stack'[j] = stack[j]
    BY <1>2, <1>5, SameBoxes
  <2>. QED  BY <2>1 DEF LocalOf
<1>8. ASSUME NEW j \in 1..top + 1, j = top + 1
      PROVE  LocalOf(j)' = Scopes!Private(d)
  <2>1. BoxOf(j)' = BoxOf(j) /\ stack'[j] = d
    BY <1>2, <1>5, <1>8, SameBoxes
  <2>2. BoxOf(j) = None
    <3> SUFFICES ASSUME BoxOf(j) # None PROVE FALSE
      OBVIOUS
    <3>1. BoxOf(j) \in Range(openUpvalues) /\ Index(upvalue[BoxOf(j)].value) = top
      BY <1>2, <1>4, <1>8, BoxesAre
    <3>. QED  BY <1>4, <1>6, <3>1
  <2>. QED  BY <2>1, <2>2 DEF LocalOf, Scopes!Private
<1>9. Contents' = Contents
  <2> SUFFICES ASSUME NEW u \in Upvalue PROVE ContentOf(u)' = ContentOf(u)
    BY DEF Contents
  <2>1. CASE upvalue[u] = None \/ upvalue[u].value = Closed
    BY <1>1, <2>1 DEF ContentOf
  <2>2. CASE upvalue[u] # None /\ upvalue[u].value # Closed
    <3>1. u \in Range(openUpvalues)
      BY <1>2, <2>2, OpenAre
    <3>2. Index(upvalue[u].value) + 1 \in 1..top
      BY <1>4, <1>6, <3>1
    <3>. QED  BY <1>1, <1>5, <2>2, <3>2 DEF ContentOf
  <2>. QED  BY <2>1, <2>2
<1>10. /\ top - Base \in 0..counted - Base /\ Base + (top - Base) = top
       /\ counted - top \in 1..counted - Base
       /\ Scopes!Size - (counted - top) = top - Base
  BY <1>2, <1>3, <1>4 DEF top
<1>11. Scopes!Becomes(Append(SubSeq(Scopes!Locals, 1, top - Base), Scopes!Private(d)))
  <2>1. counted' = Base + (top - Base) + 1
    BY <1>1, <1>10 DEF top
  <2>. QED  BY <1>2, <1>7, <1>8, <1>10, <2>1, Replaces
<1>12. Scopes!CallNative(counted - top)
  BY <1>9, <1>10, <1>11 DEF Scopes!CallNative, Scopes!Without
<1>. QED
  BY <1>3, <1>10, <1>12

-----------------------------------------------------------------------------
(* Calls of functions, and returns from them.                               *)

\* What SubSeq() returns, as a function.
LEMMA Part ==
  ASSUME NEW s \in Seq(LocalType), NEW a \in 1..Len(s), NEW b \in a..Len(s)
  PROVE  SubSeq(s, a, b) = [i \in 1..b - a + 1 |-> s[a + i - 1]]
<1>1. Len(s) \in Nat
  BY LenProperties
<1>2. \A i \in a..b : s[i] \in LocalType
  <2> TAKE i \in a..b
  <2>1. i \in 1..Len(s)
    BY <1>1
  <2>. QED  BY <2>1, ElementOfSeq
<1>3. /\ SubSeq(s, a, b) \in Seq(LocalType) /\ Len(SubSeq(s, a, b)) = b - a + 1
      /\ \A i \in 1..b - a + 1 : SubSeq(s, a, b)[i] = s[a + i - 1]
  BY <1>1, <1>2, SubSeqProperties
<1>4. SubSeq(s, a, b) \in [1..b - a + 1 -> LocalType]
  BY <1>3, LenProperties
<1>. QED
  BY <1>3, <1>4

\* The same of Append().
LEMMA Appended ==
  ASSUME NEW S, NEW s \in Seq(S), NEW x
  PROVE  Append(s, x) = [i \in 1..Len(s) + 1 |-> IF i = Len(s) + 1 THEN x ELSE s[i]]
<1> DEFINE T == S \cup {x}
           t == Append(s, x)
<1>1. s \in Seq(T) /\ x \in T /\ Len(s) \in Nat
  BY SeqMonotonic, LenProperties
<1> HIDE DEF T
<1>2. /\ t \in Seq(T) /\ Len(t) = Len(s) + 1
      /\ \A i \in 1..Len(s) : t[i] = s[i]
      /\ t[Len(s) + 1] = x
  BY <1>1, AppendProperties
<1> HIDE DEF t
<1>3. t \in [1..Len(s) + 1 -> T]
  BY <1>2, LenProperties
<1>4. \A i \in 1..Len(s) + 1 : i # Len(s) + 1 => i \in 1..Len(s)
  BY <1>1
<1>. QED
  BY <1>2, <1>3, <1>4 DEF t

\* The slots of the receiver and the arguments change hands.
LEMMA CallEnters ==
  ASSUME NEW n \in Nat \ {0}, RInv, IInv', Call(n)
  PROVE  n \in 1..Scopes!Size /\ Scopes!Enter(n)
<1> DEFINE m == Len(frames)
           low == counted - n
           callee == stack[low + 1]
<1>1. /\ pc = "run" /\ pc' = "run" /\ Arguments(n)
      /\ stack' = stack /\ openUpvalues' = openUpvalues /\ counted' = counted
      /\ EnsureStack(Needed(n))
      /\ upvalue' = MovedUpvalues
  BY DEF Call
<1>2. /\ IInv /\ frames # <<>> /\ pc # "done" /\ Len(stack) = counted
      /\ Len(stack) \in Nat \ {0} /\ array \in Nat
  BY <1>1, TopSlot DEF RInv, UInv, IInv, Laid, Shape, AsCounted
<1>3. /\ Scopes!Locals \in Seq(LocalType) /\ Scopes!Size = counted - Base
      /\ Len(Scopes!Locals) = counted - Base
      /\ Base \in Nat /\ counted \in Nat /\ n \in Nat /\ Base < counted
      /\ \A i \in 1..counted - Base : /\ Scopes!Locals[i] = LocalOf(Base + i)
                                      /\ Scopes!Read(Scopes!Locals[i]) = stack[Base + i]
  BY <1>2, LocalsAre DEF Scopes!Size
<1>4. /\ low \in Nat /\ low + 1 \in 1..Len(stack) /\ Base < low /\ n = counted - low
      /\ low - Base \in 1..counted - Base /\ n \in 1..counted - Base /\ Base + (low - Base) = low
      /\ low - Base + n = counted - Base
  <2>1. n < counted - Base
    BY <1>1, <1>2 DEF Arguments, Height, Base
  <2>. QED  BY <1>2, <1>3, <2>1
<1>5. /\ Slot(Plus(stackTop, -n)) = callee
      /\ Plus(Moved(stackTop), -n) = <<array', low>>
  <2>1. counted + -n = low
    BY <1>2
  <2>. QED  BY <1>2, <2>1 DEF Slot, Plus, Moved, stackTop, At, Index
<1>6. /\ IsClosure(callee)
      /\ frames' = Append(MovedFrames, [stackStart |-> <<array', low>>, closure |-> callee,
                                        height |-> MaxSlots + n - 1])
  BY <1>5 DEF Call
<1>7. callee \in Closure
  <2>1. callee \in Content
    BY <1>2, <1>4, SlotValue
  <2>. QED  BY <1>6, <2>1, Closures
<1>8. callee \notin Data
  BY <1>6 DEF IsClosure
<1>9. array' \in Nat /\ array <= array'
  <2>1. array' \in Nat
    BY DEF IInv, Shape
  <2>. QED  BY <1>1, <1>2, <2>1 DEF EnsureStack
<1>10. SameUpvalues /\ SameOpen
  BY <1>1, <1>2, <1>9, SameMoved, OpenAreSame
<1> HIDE DEF low, callee
<1>11. /\ \A j \in 1..counted : LocalOf(j)' = LocalOf(j)
       /\ Contents' = Contents
  BY <1>1, <1>10, LocalsKept, ContentsKept
<1>12. /\ m \in Nat \ {0} /\ DOMAIN frames = 1..m
       /\ \A k \in 1..m : /\ Bottom(k) \in Nat /\ Bottom(k) <= Base
                          /\ k < m => Bottom(k) < Bottom(k + 1)
       /\ Bottom(m) = Base
  BY <1>2, FramesRise DEF Base
<1>13. /\ MovedFrames \in Seq(FrameType) /\ Len(MovedFrames) = m
       /\ \A k \in 1..m :
            /\ Index(MovedFrames[k].stackStart) = Index(frames[k].stackStart)
            /\ MovedFrames[k].closure = frames[k].closure
  BY <1>1, <1>2, <1>9, <1>12, MoveKeeps
<1> DEFINE callFrame == [stackStart |-> <<array', low>>, closure |-> callee,
                         height |-> MaxSlots + n - 1]
<1>14. frames' = [k \in 1..m + 1 |-> IF k = m + 1 THEN callFrame ELSE MovedFrames[k]]
  BY <1>6, <1>13, Appended
<1>15. /\ Len(frames') = m + 1 /\ DOMAIN frames' = 1..m + 1
       /\ \A k \in 1..m : Bottom(k)' = Bottom(k) /\ frames'[k].closure = frames[k].closure
       /\ \A k : k = m + 1 => Bottom(k)' = low /\ frames'[k].closure = callee
  <2>1. frames' \in Seq(FrameType)
    BY DEF IInv, Shape
  <2>2. DOMAIN frames' = 1..m + 1
    BY <1>14
  <2>3. Len(frames') = m + 1
    <3>1. 1..Len(frames') = 1..m + 1 /\ Len(frames') \in Nat
      BY <2>1, <2>2, LenProperties
    <3>. QED  BY <1>12, <3>1
  <2> HIDE DEF m
  <2>4. \A k \in 1..m : frames'[k] = MovedFrames[k]
    <3> TAKE k \in 1..m
    <3>1. k \in 1..m + 1 /\ k # m + 1
      BY <1>12
    <3>. QED  BY <1>14, <3>1
  <2>5. frames'[m + 1] = callFrame
    BY <1>12, <1>14
  <2>6. \A k \in 1..m : Bottom(k)' = Bottom(k)
    BY <1>13, <2>4 DEF Bottom
  <2>7. \A k : k = m + 1 => Bottom(k)' = low /\ frames'[k].closure = callee
    BY <2>5 DEF Bottom, Index
  <2>. QED  BY <1>13, <2>2, <2>3, <2>4, <2>6, <2>7
<1>16. /\ Calls \in Seq(ScopeType) /\ Len(Calls) = m /\ DOMAIN Calls = 1..m
       /\ \A k \in 1..m : Calls[k] = ScopeOf(k)
       /\ Calls[m].captured = frames[m].closure
  <2>1. m \in 1..m
    BY <1>12
  <2>. QED  BY <1>2, <1>12, <2>1, CallsAre DEF Calls
<1> DEFINE without == SubSeq(Scopes!Locals, 1, low - Base)
           arguments == SubSeq(Scopes!Locals, low - Base + 1, counted - Base)
<1>17. /\ without = [i \in 1..low - Base |-> LocalOf(Base + i)]
       /\ arguments = [i \in 1..n |-> LocalOf(low + i)]
  <2>1. /\ 1 \in 1..Len(Scopes!Locals) /\ low - Base \in 1..Len(Scopes!Locals)
        /\ low - Base + 1 \in 1..Len(Scopes!Locals)
        /\ counted - Base \in low - Base + 1..Len(Scopes!Locals)
        /\ counted - Base - (low - Base + 1) + 1 = n /\ low - Base - 1 + 1 = low - Base
    BY <1>3, <1>4
  <2>2. without = [i \in 1..low - Base |-> Scopes!Locals[1 + i - 1]]
    BY <1>3, <2>1, Part
  <2>3. arguments = [i \in 1..n |-> Scopes!Locals[low - Base + 1 + i - 1]]
    BY <1>3, <2>1, Part
  <2>4. \A i \in 1..low - Base : 1 + i - 1 = i /\ i \in 1..counted - Base
    BY <1>3, <1>4
  <2>5. \A i \in 1..n : /\ low - Base + 1 + i - 1 \in 1..counted - Base
                        /\ Base + (low - Base + 1 + i - 1) = low + i
    BY <1>3, <1>4
  <2> HIDE DEF without, arguments
  <2>6. without = [i \in 1..low - Base |-> LocalOf(Base + i)]
    BY <1>3, <2>2, <2>4
  <2>7. arguments = [i \in 1..n |-> LocalOf(low + i)]
    <3>1. \A i \in 1..n : Scopes!Locals[low - Base + 1 + i - 1] = LocalOf(low + i)
      BY <1>3, <2>5
    <3>. QED  BY <2>3, <3>1
  <2>. QED  BY <2>6, <2>7
<1> HIDE DEF without, arguments, m
<1>18. ASSUME NEW k \in 1..m, k # m
       PROVE  ScopeOf(k)' = Calls[k]
  <2>1. k < m /\ k + 1 \in 1..m /\ k # m + 1
    BY <1>12, <1>18
  <2>2. Upto(k) = Bottom(k + 1) /\ Upto(k)' = Bottom(k + 1)'
    BY <1>15, <1>18, <2>1 DEF Upto, m
  <2>3. Bottom(k)' = Bottom(k) /\ Upto(k)' = Upto(k) /\ frames'[k].closure = frames[k].closure
    BY <1>15, <2>1, <2>2
  <2>4. Bottom(k) \in Nat /\ Upto(k) \in Nat /\ Upto(k) <= Base
    BY <1>12, <2>1, <2>2
  <2>5. \A j \in 1..Upto(k) : j \in 1..counted
    BY <1>3, <2>4
  <2>6. ScopeOf(k)' = ScopeOf(k)
    BY <1>11, <2>3, <2>4, <2>5, ScopeKept
  <2>. QED  BY <1>16, <2>6
<1>19. ASSUME NEW k \in 1..m, k = m
       PROVE  ScopeOf(k)' = [locals |-> without, captured |-> frames[m].closure]
  <2>1. k # m + 1 /\ Upto(k)' = Bottom(k + 1)'
    BY <1>12, <1>15, <1>19 DEF Upto
  <2>2. Upto(k)' = low /\ Bottom(k)' = Base /\ frames'[k].closure = frames[m].closure
    BY <1>12, <1>15, <1>19, <2>1
  <2>3. ScopeOf(k)' = [locals |-> [i \in 1..Upto(k)' - Bottom(k)' |-> LocalOf(Bottom(k) + i)'],
                       captured |-> frames'[k].closure]
    BY DEF ScopeOf, Upto, Bottom
  <2>4. ASSUME NEW i \in 1..low - Base
        PROVE  LocalOf(Bottom(k) + i)' = LocalOf(Base + i)
    <3>1. Base + i \in 1..counted
      BY <1>3, <1>4
    <3>2. \A j : j = Base + i => LocalOf(j)' = LocalOf(Bottom(k) + i)'
      BY <2>2
    <3>. QED  BY <1>11, <3>1, <3>2
  <2>. QED  BY <1>17, <2>2, <2>3, <2>4
<1>20. ASSUME NEW k, k = m + 1
       PROVE  ScopeOf(k)' = [locals |-> arguments, captured |-> callee]
  <2>1. Upto(k)' = counted /\ Bottom(k)' = low /\ frames'[k].closure = callee
    BY <1>1, <1>15, <1>20 DEF Upto
  <2>2. ScopeOf(k)' = [locals |-> [i \in 1..Upto(k)' - Bottom(k)' |-> LocalOf(Bottom(k) + i)'],
                       captured |-> frames'[k].closure]
    BY DEF ScopeOf, Upto, Bottom
  <2>3. ASSUME NEW i \in 1..n
        PROVE  LocalOf(Bottom(k) + i)' = LocalOf(low + i)
    <3>1. low + i \in 1..counted
      BY <1>3, <1>4
    <3>2. \A j : j = low + i => LocalOf(j)' = LocalOf(Bottom(k) + i)'
      BY <2>1
    <3>. QED  BY <1>11, <3>1, <3>2
  <2>4. counted - low = n
    BY <1>4
  <2>. QED  BY <1>17, <2>1, <2>2, <2>3, <2>4
<1>21. Calls' = [k \in 1..m + 1 |-> ScopeOf(k)']
  BY <1>15 DEF Calls
<1> DEFINE before == [Calls EXCEPT ![m].locals = without]
           entered == [locals |-> arguments, captured |-> callee]
<1>22. /\ before \in Seq(ScopeType) /\ Len(before) = m
       /\ \A k \in 1..m : before[k] = IF k = m THEN [locals |-> without,
                                                      captured |-> frames[m].closure]
                                      ELSE Calls[k]
  <2> DEFINE x == [Calls[m] EXCEPT !.locals = without]
  <2>1. m \in 1..Len(Calls) /\ Calls[m] \in ScopeType
    BY <1>12, <1>16, ElementOfSeq
  <2>2. without \in Seq(LocalType)
    <3>1. low - Base \in 0..Len(Scopes!Locals)
      BY <1>3, <1>4
    <3>. QED  BY <1>3, <3>1, Prefix DEF without
  <2>3. x = [locals |-> without, captured |-> frames[m].closure] /\ x \in ScopeType
    BY <1>16, <2>1, <2>2 DEF ScopeType
  <2> HIDE DEF x
  <2>4. before = [Calls EXCEPT ![m] = x]
    BY <1>16, <2>1 DEF x
  <2>. QED  BY <1>16, <2>1, <2>3, <2>4, ExceptSeq
<1> HIDE DEF before, entered
<1>23. Append(before, entered) = [k \in 1..m + 1 |-> IF k = m + 1 THEN entered ELSE before[k]]
  BY <1>22, Appended
<1>24. ASSUME NEW k \in 1..m + 1
       PROVE  ScopeOf(k)' = IF k = m + 1 THEN entered ELSE before[k]
  <2>1. CASE k = m + 1
    BY <1>20, <2>1 DEF entered
  <2>2. CASE k # m + 1
    <3>1. k \in 1..m
      BY <1>12, <2>2
    <3>2. CASE k = m
      BY <1>19, <1>22, <2>2, <3>1, <3>2
    <3>3. CASE k # m
      BY <1>18, <1>22, <2>2, <3>1, <3>3
    <3>. QED  BY <3>2, <3>3
  <2>. QED  BY <2>1, <2>2
<1>25. Calls' = Append(before, entered)
  BY <1>21, <1>23, <1>24
<1>26. /\ Scopes!Size - n = low - Base /\ Scopes!Size - n + 1 = low - Base + 1
       /\ Scopes!Read(Scopes!Locals[low - Base + 1]) = callee
  <2>1. low - Base + 1 \in 1..counted - Base /\ Base + (low - Base + 1) = low + 1
    BY <1>3, <1>4
  <2>. QED  BY <1>3, <1>4, <2>1 DEF callee
<1>27. Scopes!Enter(n)
  BY <1>3, <1>8, <1>11, <1>16, <1>25, <1>26
     DEF Scopes!Enter, Scopes!Without, before, entered, without, arguments
<1>. QED
  BY <1>3, <1>4, <1>27

\* The frame's upvalues are closed, and its result takes the place of its slots.
LEMMA ReturnReturns == RInv /\ IInv' /\ Return => Scopes!Return /\ (pc' = "done" => Fresh')
<1> SUFFICES ASSUME RInv, IInv', Return
             PROVE  Scopes!Return /\ (pc' = "done" => Fresh')
  OBVIOUS
<1> DEFINE m == Len(frames)
           rest == Front(frames)
           result == Peek
<1>1. /\ pc = "run" /\ frames' = rest
      /\ openUpvalues' = StillOpen(stackStart) /\ upvalue' = ClosedUpvalues(stackStart, stack)
  BY DEF Return
<1>2. /\ IInv /\ frames # <<>> /\ stackStart \in Address /\ Index(stackStart) = Base
      /\ frames \in Seq(FrameType) /\ Index(frames[1].stackStart) = 0
      /\ Len(stack) = counted /\ Len(stack) \in Nat \ {0} /\ DOMAIN stack = 1..Len(stack)
  BY <1>1, TopSlot DEF RInv, UInv, IInv, Laid, Shape, AsCounted, Base
<1>3. /\ Scopes!Size = counted - Base /\ Base \in Nat /\ counted \in Base + 1..Len(stack)
      /\ Scopes!Read(Scopes!Locals[Scopes!Size]) = result
  <2>1. /\ Scopes!Size = counted - Base /\ Base \in Nat /\ counted \in Base + 1..Len(stack)
        /\ \A i \in 1..counted - Base : Scopes!Read(Scopes!Locals[i]) = stack[Base + i]
    BY <1>2, LocalsAre
  <2>2. counted - Base \in 1..counted - Base /\ Base + (counted - Base) = counted
    BY <1>2, <2>1
  <2>3. result = stack[counted]
    BY <1>1, <1>2, AssignableAre
  <2>. QED  BY <2>1, <2>2, <2>3
<1>4. /\ m \in Nat \ {0} /\ DOMAIN frames = 1..m
      /\ \A k \in 1..m : /\ Bottom(k) \in Nat /\ Bottom(k) <= Base
                         /\ k < m => Bottom(k) < Bottom(k + 1)
      /\ Bottom(m) = Base
  BY <1>2, FramesRise DEF Base
<1>5. /\ Len(rest) = m - 1 /\ DOMAIN rest = 1..m - 1
      /\ \A k \in 1..m - 1 : rest[k] = frames[k]
  <2>1. rest = SubSeq(frames, 1, m - 1) /\ m - 1 \in 0..m
    BY <1>4 DEF Front
  <2> HIDE DEF rest
  <2>2. /\ rest \in Seq(FrameType) /\ Len(rest) = m - 1
        /\ \A k \in 1..m - 1 : rest[k] = frames[k]
    BY <1>2, <2>1, Prefix
  <2>. QED  BY <2>2, LenProperties
<1>6. ClosesFrom(Base)
  BY <1>1, <1>2, CloseUpvalues
<1> HIDE DEF m, rest, result
<1>7. /\ \A j \in 1..Base : stack'[j] = stack[j]
      /\ rest # <<>> => /\ counted' = Base + 1
                        /\ \A j : j = Base + 1 => stack'[j] = result
  <2>1. CASE rest = <<>>
    <3>1. m = 1
      <4>1. Len(rest) = 0
        BY <2>1
      <4>. QED  BY <1>4, <1>5, <4>1
    <3>2. Base = 0
      BY <1>2, <1>4, <3>1 DEF Bottom
    <3>. QED  BY <2>1, <3>2
  <2>2. CASE rest # <<>>
    <3> DEFINE w == Written(stackStart, result)
    <3>1. stack' = SubSeq(w, 1, Base + 1) /\ counted' = Base + 1
      BY <2>2 DEF Return, rest, result, Base
    <3>2. /\ w = [stack EXCEPT ![Base + 1] = result]
          /\ w \in Seq(Content \cup {result}) /\ Len(w) = Len(stack)
      BY <1>2, WrittenSlots DEF Written
    <3>3. Base + 1 \in 0..Len(stack) /\ Base + 1 \in 1..Len(stack)
      BY <1>2, <1>3
    <3>4. /\ \A j \in 1..Base : w[j] = stack[j]
          /\ w[Base + 1] = result
      BY <1>2, <1>3, <3>2, <3>3
    <3> HIDE DEF w
    <3>5. \A j \in 1..Base + 1 : stack'[j] = w[j]
      BY <3>1, <3>2, <3>3, Prefix
    <3>. QED  BY <1>3, <3>1, <3>4, <3>5
  <2>. QED  BY <2>1, <2>2
<1>8. /\ Contents' = Contents
      /\ \A j \in 1..Base : LocalOf(j)' = LocalOf(j)
      /\ \A j : j = Base + 1 => BoxOf(j)' = None
  BY <1>3, <1>6, <1>7, Closes
<1>9. /\ Calls \in Seq(ScopeType) /\ Len(Calls) = m /\ DOMAIN Calls = 1..m
      /\ \A k \in 1..m : Calls[k] = ScopeOf(k)
      /\ \A k \in 1..m : Calls[k] = [locals |-> View(Bottom(k), Upto(k)),
                                     captured |-> frames[k].closure]
  BY <1>2, <1>4, CallsAre DEF Calls, m
<1>10. Calls' = [k \in 1..m - 1 |-> ScopeOf(k)']
  BY <1>1, <1>5 DEF Calls
<1>11. CASE rest = <<>>
  <2>1. m = 1
    <3>1. Len(rest) = 0
      BY <1>11
    <3>. QED  BY <1>4, <1>5, <3>1
  <2>2. Calls' = <<>>
    BY <1>10, <2>1
  <2>3. Scopes!Return
    BY <1>8, <1>9, <2>1, <2>2 DEF Scopes!Return
  <2>4. Fresh'
    <3>1. Base = 0
      BY <1>2, <1>4, <2>1 DEF Bottom
    <3>2. frames' = <<>> /\ counted' = 0 /\ pc' = "done"
      BY <1>1, <1>11 DEF Return, rest
    <3>3. Range(openUpvalues') = {}
      <4>1. \A u \in Range(openUpvalues) : ~(Index(upvalue[u].value) < 0)
        BY <1>2, OpenAre
      <4>. QED  BY <1>6, <3>1, <4>1 DEF ClosesFrom
    <3>4. DOMAIN openUpvalues' = {}
      BY <3>3 DEF Range
    <3>. QED  BY <3>2, <3>4 DEF Fresh
  <2>. QED  BY <2>3, <2>4
<1>12. CASE rest # <<>>
  <2> DEFINE c == m - 1
             temporary == Scopes!Private(result)
             kept == SubSeq(Calls, 1, c)
  <2>1. c \in 1..c /\ c \in 1..m /\ c < m /\ c + 1 = m /\ c \in 0..m /\ c \in Nat /\ c # 0
    BY <1>4, <1>5, <1>12, EmptySeq
  <2>2. /\ kept \in Seq(ScopeType) /\ Len(kept) = c
        /\ \A k \in 1..c : kept[k] = Calls[k]
    BY <1>9, <2>1, Prefix
  <2> DEFINE below == View(Bottom(c), Base)
  <2>3. /\ below \in Seq(LocalType) /\ Len(below) = Base - Bottom(c)
        /\ below = [i \in 1..Base - Bottom(c) |-> LocalOf(Bottom(c) + i)]
        /\ Calls[c] = [locals |-> below, captured |-> frames[c].closure]
        /\ Bottom(c) \in Nat /\ Bottom(c) < Base
    <3>1. Upto(c) = Base
      <4>1. c # m /\ c + 1 = m
        BY <2>1
      <4> HIDE DEF c
      <4>2. Upto(c) = Bottom(c + 1)
        BY <4>1 DEF Upto, m
      <4>. QED  BY <1>4, <4>1, <4>2
    <3>2. Bottom(c) \in Nat /\ Bottom(c) < Base
      BY <1>4, <2>1
    <3>3. Calls[c] = [locals |-> below, captured |-> frames[c].closure]
      BY <1>9, <2>1, <3>1
    <3>4. Calls[c] \in ScopeType
      BY <1>9, <2>1, ElementOfSeq
    <3>5. below \in Seq(LocalType)
      BY <3>3, <3>4 DEF ScopeType
    <3>6. below = [i \in 1..Base - Bottom(c) |-> LocalOf(Bottom(c) + i)]
      BY DEF View
    <3>7. Len(below) = Base - Bottom(c)
      <4>1. 1..Len(below) = 1..Base - Bottom(c) /\ Len(below) \in Nat
        BY <3>5, <3>6, LenProperties
      <4>. QED  BY <1>3, <3>2, <4>1
    <3>. QED  BY <3>2, <3>3, <3>5, <3>6, <3>7
  <2> HIDE DEF c, kept, below
  <2>4. ASSUME NEW k \in 1..c, k # c
        PROVE  ScopeOf(k)' = Calls[k]
    <3>1. k < m /\ k + 1 \in 1..c /\ k \in 1..m /\ k + 1 \in 1..m /\ k # m
      BY <2>1, <2>4
    <3>2. Upto(k) = Bottom(k + 1) /\ Upto(k)' = Bottom(k + 1)'
      BY <1>1, <1>5, <2>4, <3>1 DEF Upto, m, c
    <3>3. \A i \in 1..c : Bottom(i)' = Bottom(i) /\ frames'[i].closure = frames[i].closure
      BY <1>1, <1>5 DEF Bottom, c
    <3>4. Upto(k) \in Nat /\ Upto(k) <= Base /\ Bottom(k) \in Nat
      BY <1>4, <3>1, <3>2
    <3>5. \A j \in 1..Upto(k) : j \in 1..Base
      BY <1>3, <3>4
    <3>. QED  BY <1>8, <1>9, <3>1, <3>2, <3>3, <3>4, <3>5, ScopeKept
  <2> DEFINE joined == Append(below, temporary)
  <2>5. joined = [i \in 1..Base - Bottom(c) + 1 |->
                    IF i = Base - Bottom(c) + 1 THEN temporary ELSE below[i]]
    <3>1. joined = [i \in 1..Len(below) + 1 |->
                      IF i = Len(below) + 1 THEN temporary ELSE below[i]]
      <4>1. below \in Seq(LocalType)
        BY <2>3
      <4> HIDE DEF temporary
      <4>. QED  BY <4>1, Appended
    <3>2. Len(below) = Base - Bottom(c)
      BY <2>3
    <3> HIDE DEF joined
    <3>. QED  BY <3>1, <3>2
  <2> HIDE DEF joined, temporary
  <2>6. ASSUME NEW k \in 1..c, k = c
        PROVE  ScopeOf(k)' = [locals |-> joined, captured |-> frames[c].closure]
    <3>1. /\ Bottom(k)' = Bottom(c) /\ frames'[k].closure = frames[c].closure
          /\ Upto(k)' = Base + 1
      BY <1>1, <1>5, <1>7, <1>12, <2>6 DEF Bottom, Upto, c
    <3>2. ScopeOf(k)' = [locals |-> [i \in 1..Upto(k)' - Bottom(k)' |-> LocalOf(Bottom(k) + i)'],
                         captured |-> frames'[k].closure]
      BY DEF ScopeOf, Upto, Bottom
    <3>3. Base + 1 - Bottom(c) = Base - Bottom(c) + 1
      BY <1>3, <2>3
    <3>4. ASSUME NEW i \in 1..Base - Bottom(c) + 1
          PROVE  LocalOf(Bottom(k) + i)' = joined[i]
      <4>1. CASE i = Base - Bottom(c) + 1
        <5>1. \A j : j = Base + 1 => BoxOf(j)' = None /\ stack'[j] = result
          BY <1>7, <1>8, <1>12
        <5>2. \A j : j = Base + 1 => LocalOf(j)' = temporary
          BY <5>1 DEF LocalOf, Scopes!Private, temporary
        <5>3. \A j : j = Base + 1 => LocalOf(Bottom(k) + i)' = LocalOf(j)'
          <6>1. (Bottom(k) + i)' = Base + 1
            BY <1>3, <2>3, <3>1, <4>1
          <6>. QED  BY <6>1
        <5>4. joined[i] = temporary
          BY <2>5, <4>1
        <5>. QED  BY <5>2, <5>3, <5>4
      <4>2. CASE i # Base - Bottom(c) + 1
        <5>1. i \in 1..Base - Bottom(c) /\ Bottom(c) + i \in 1..Base
          BY <1>3, <2>3, <4>2
        <5>2. \A j : j = Bottom(c) + i => LocalOf(Bottom(k) + i)' = LocalOf(j)'
          BY <3>1
        <5>3. joined[i] = below[i]
          BY <2>5, <4>2
        <5>. QED  BY <1>8, <2>3, <5>1, <5>2, <5>3
      <4>. QED  BY <4>1, <4>2
    <3>5. joined = [i \in 1..Base - Bottom(c) + 1 |-> joined[i]]
      BY <2>5
    <3>6. [i \in 1..Upto(k)' - Bottom(k)' |-> LocalOf(Bottom(k) + i)']
            = [i \in 1..Base - Bottom(c) + 1 |-> LocalOf(Bottom(k) + i)']
      <4>1. Upto(k)' - Bottom(k)' = Base - Bottom(c) + 1
        <5>1. /\ Upto(k)' = Base + 1 /\ Bottom(k)' = Bottom(c)
              /\ Base \in Nat /\ Bottom(c) \in Nat
          BY <1>3, <2>3, <3>1
        <5>. QED  BY <3>3, <5>1
      <4>. QED  BY <4>1
    <3>7. joined = [i \in 1..Base - Bottom(c) + 1 |-> LocalOf(Bottom(k) + i)']
      BY <3>4, <3>5
    <3>. QED  BY <3>1, <3>2, <3>6, <3>7
  <2> DEFINE x == [locals |-> joined, captured |-> frames[c].closure]
  <2>7. [kept EXCEPT ![c].locals = Append(@, temporary)] = [kept EXCEPT ![c] = x]
    <3>1. kept[c] = [locals |-> below, captured |-> frames[c].closure]
      BY <2>1, <2>2, <2>3
    <3>2. [kept[c] EXCEPT !.locals = Append(@, temporary)] = x
      <4>1. /\ kept[c].locals = below
            /\ [kept[c] EXCEPT !.locals = joined] = x
        BY <3>1
      <4>. QED  BY <4>1 DEF joined
    <3>3. [kept EXCEPT ![c].locals = Append(@, temporary)]
            = [kept EXCEPT ![c] = [kept[c] EXCEPT !.locals = Append(@, temporary)]]
      OBVIOUS
    <3> HIDE DEF x
    <3>. QED  BY <3>2, <3>3
  <2>8. [kept EXCEPT ![c] = x] = [k \in 1..c |-> IF k = c THEN x ELSE Calls[k]]
    <3>1. DOMAIN kept = 1..c
      BY <2>2, LenProperties
    <3>. QED  BY <2>2, <3>1
  <2>9. \A k \in 1..c : ScopeOf(k)' = IF k = c THEN x ELSE Calls[k]
    BY <2>4, <2>6
  <2>10. Calls' = [kept EXCEPT ![c].locals = Append(@, temporary)]
    <3>1. Calls' = [k \in 1..c |-> ScopeOf(k)']
      BY <1>10 DEF c
    <3> HIDE DEF x
    <3>. QED  BY <2>7, <2>8, <2>9, <3>1
  <2>11. Scopes!Return
    BY <1>3, <1>8, <1>9, <2>1, <2>10 DEF Scopes!Return, c, kept, temporary
  <2>12. pc' # "done"
    BY <1>1, <1>12 DEF Return, rest
  <2>. QED  BY <2>11, <2>12
<1>. QED
  BY <1>11, <1>12


-----------------------------------------------------------------------------
(* Each step is one of the abstract specification, or none of its business. *)

Stutter == Calls' = Calls /\ Contents' = Contents
Forgets == \E S \in SUBSET Upvalue : Scopes!Forget(S)
Maps == Stutter \/ Forgets \/ (frames # <<>> /\ Scopes!Step)

\* RunningFresh, of the state after a step.
LEMMA PrimedRunning == (UInv /\ pc \in {"run", "allocator"} => Fresh)'
  BY RunningFresh, PTL

\* Instructions that have no operand and closures.
LEMMA StackStep ==
  RInv /\ UInv' /\ (Load \/ Pop \/ NewClosure \/ ClosureDone \/ Return) => Fresh' /\ Maps
<1> SUFFICES ASSUME RInv, UInv', Load \/ Pop \/ NewClosure \/ ClosureDone \/ Return
             PROVE  Fresh' /\ Maps
  OBVIOUS
<1>1. /\ pc \in {"run", "closure"} /\ frames # <<>> /\ IInv'
  <2>1. pc \in {"run", "closure"}
    BY DEF Load, Pop, NewClosure, ClosureDone, Return
  <2>. QED  BY <2>1 DEF RInv, UInv, IInv, Laid
<1>2. CASE Load
  <2>1. pc' = "run"
    BY <1>2 DEF Load, Push
  <2>. QED  BY <1>1, <1>2, <2>1, PrimedRunning, LoadDeclares DEF Maps, Scopes!Step
<1>3. CASE Pop
  <2>1. pc' = "run"
    BY <1>3 DEF Pop
  <2>. QED  BY <1>1, <1>3, <2>1, PrimedRunning, PopLeaves DEF Maps, Scopes!Step
<1>4. CASE NewClosure
  BY <1>4, NewClosureFresh DEF Maps, Stutter
<1>5. CASE ClosureDone
  <2>1. pc' = "run"
    BY <1>5 DEF ClosureDone
  <2>. QED  BY <1>1, <1>5, <2>1, PrimedRunning, ClosureDoneDeclares DEF Maps, Scopes!Step
<1>6. CASE Return
  <2>1. pc' \in {"run", "done"}
    BY <1>6 DEF Return
  <2>. QED  BY <1>1, <1>6, <2>1, PrimedRunning, ReturnReturns DEF Maps, Scopes!Step
<1>. QED
  BY <1>2, <1>3, <1>4, <1>5, <1>6

\* Instructions that name a variable.
LEMMA VariableStep ==
  ASSUME NEW i \in Nat, RInv, UInv',
         StoreLocal(i) \/ StoreUpvalue(i) \/ CaptureLocal(i) \/ CaptureOuter(i)
  PROVE  Fresh' /\ Maps
<1>1. pc \in {"run", "closure"} /\ frames # <<>> /\ pc # "done"
  <2>1. pc \in {"run", "closure"}
    BY DEF StoreLocal, StoreUpvalue, CaptureLocal, CaptureOuter
  <2>. QED  BY <2>1 DEF RInv, UInv, IInv, Laid
<1>2. CASE StoreLocal(i)
  <2>1. pc' = "run"
    BY <1>2 DEF StoreLocal
  <2>. QED  BY <1>1, <1>2, <2>1, PrimedRunning, StoreLocalAssigns DEF Maps, Scopes!Step
<1>3. CASE StoreUpvalue(i)
  <2>1. pc' = "run"
    BY <1>3 DEF StoreUpvalue
  <2>2. \E b \in Range(Scopes!Top.captured) : Scopes!AssignBox(b)
    BY <1>3, StoreUpvalueAssigns
  <2>3. Scopes!Step
    BY <2>2 DEF Scopes!Step, Scopes!Range, Range
  <2>. QED  BY <1>1, <2>1, <2>3, PrimedRunning DEF Maps
<1>4. CASE CaptureLocal(i)
  <2>1. Fresh'
    BY <1>4, CaptureLocalFresh
  <2>2. CASE Stutter
    BY <2>1, <2>2 DEF Maps
  <2>3. CASE i + 1 \in 1..counted - Base /\ \E new \in Upvalue : Scopes!Share(i + 1, new)
    <3>1. Scopes!Size = counted - Base
      BY <1>1, LocalsAre
    <3>2. Scopes!Step
      BY <2>3, <3>1 DEF Scopes!Step
    <3>. QED  BY <1>1, <2>1, <3>2 DEF Maps
  <2>. QED  BY <1>4, <2>2, <2>3, CaptureLocalFresh DEF Stutter
<1>5. CASE CaptureOuter(i)
  BY <1>5, CaptureOuterFresh DEF Maps, Stutter
<1>. QED
  BY <1>2, <1>3, <1>4, <1>5

\* Calls of functions and of native code, and what that does.
LEMMA CallStep ==
  ASSUME NEW n \in Nat \ {0}, RInv, UInv', Call(n) \/ CallMethod(n)
  PROVE  Fresh' /\ Maps
<1>1. pc = "run" /\ frames # <<>> /\ IInv'
  BY DEF RInv, UInv, IInv, Laid, Call, CallMethod
<1>2. CASE Call(n)
  <2>1. pc' = "run"
    BY <1>2 DEF Call
  <2>2. Scopes!Step
    BY <1>1, <1>2, CallEnters DEF Scopes!Step
  <2>. QED  BY <1>1, <2>1, <2>2, PrimedRunning DEF Maps
<1>3. CASE CallMethod(n)
  <2>1. counted' = counted
    BY <1>3 DEF CallMethod
  <2>. QED  BY <1>1, <1>3, <2>1, NativeFresh DEF Maps, Stutter
<1>. QED
  BY <1>2, <1>3

\* Native code returns, or an instance is made.
LEMMA DataStep ==
  ASSUME NEW d \in Data, RInv, UInv', Construct(d) \/ MethodReturns(d) \/ AllocatorReturns(d)
  PROVE  Fresh' /\ Maps
<1>1. /\ pc \in {"run", "method", "allocator"} /\ pc' = "run"
  BY DEF Construct, MethodReturns, AllocatorReturns
<1>2. frames # <<>>
  BY <1>1 DEF RInv, UInv, IInv, Laid
<1>3. Scopes!Step
  <2>1. CASE MethodReturns(d)
    BY <2>1, MethodReturnsCalls DEF Scopes!Step
  <2>2. CASE Construct(d) \/ AllocatorReturns(d)
    BY <2>2, ConstructAssigns DEF Scopes!Step
  <2>. QED  BY <2>1, <2>2
<1>. QED
  BY <1>1, <1>2, <1>3, PrimedRunning DEF Maps

\* Every step keeps the invariant and is one that WrenScopes allows.
LEMMA StepMaps ==
  ASSUME Modest, RInv, [Next]_vars
  PROVE  RInv' /\ Maps
<1>1. UInv' /\ IInv'
  BY StepCounts DEF RInv, UInv
<1> SUFFICES Fresh' /\ Maps
  BY <1>1 DEF RInv
<1>2. ASSUME NEW n \in 1..MaxArgs, Call(n) \/ CallMethod(n)
      PROVE  Fresh' /\ Maps
  <2>1. n \in Nat \ {0}
    BY StackAssumption
  <2>. QED  BY <1>1, <1>2, <2>1, CallStep
<1>3. ASSUME NEW n \in MethodSlots \cup AllocatorSlots, WrenEnsureSlots(n)
      PROVE  Fresh' /\ Maps
  <2>1. n \in Nat
    BY StackAssumption
  <2>. QED  BY <1>1, <1>3, <2>1, WrenEnsureSlotsFresh DEF Maps, Stutter
<1>4. ASSUME NEW i \in 0..MaxSlots + MaxArgs,
             StoreLocal(i) \/ StoreUpvalue(i) \/ CaptureLocal(i) \/ CaptureOuter(i)
      PROVE  Fresh' /\ Maps
  <2>1. i \in Nat
    BY StackAssumption
  <2>. QED  BY <1>1, <1>4, <2>1, VariableStep
<1>5. ASSUME NEW d \in Data, Construct(d) \/ MethodReturns(d) \/ AllocatorReturns(d)
      PROVE  Fresh' /\ Maps
  BY <1>1, <1>5, DataStep
<1>6. CASE Load \/ Pop \/ NewClosure \/ ClosureDone \/ Return
  BY <1>1, <1>6, StackStep
<1>7. CASE CallAllocator \/ WildAccess
  <2>1. counted' = counted
    BY <1>7 DEF CallAllocator, WildAccess
  <2>. QED  BY <1>1, <1>7, <2>1, NativeFresh DEF Maps, Stutter
<1>8. CASE CollectGarbage
  BY <1>8, CollectGarbageForgets DEF Maps, Forgets
<1>9. CASE UNCHANGED vars
  <2>1. UNCHANGED <<pc, array, capacity, stack, frames, stackStart, apiStack,
                    openUpvalues, upvalue, counted>>
    BY <1>9 DEF vars, memory, pointers
  <2>2. Fresh'
    BY <2>1 DEF RInv, Fresh, Shares, Frame, Peek, Slot, Plus, stackTop, At, Index
  <2>3. Calls' = Calls /\ Contents' = Contents
    BY <2>1, SameUnchanged, Stutters
  <2>. QED  BY <2>2, <2>3 DEF Maps, Stutter
<1>. QED
  BY <1>2, <1>3, <1>4, <1>5, <1>6, <1>7, <1>8, <1>9 DEF Next

\* So are the initial states.
LEMMA InitMaps == Init => RInv /\ Scopes!Init
<1> SUFFICES ASSUME Init PROVE RInv /\ Scopes!Init
  OBVIOUS
<1>1. UInv /\ pc = "run"
  BY InitCounts DEF Init
<1>2. RInv
  BY <1>1, RunningFresh DEF RInv
<1>3. /\ stack = << <<>> >> /\ counted = 1 /\ openUpvalues = <<>>
      /\ upvalue = [u \in Upvalue |-> None]
      /\ frames = <<[stackStart |-> <<0, 0>>, closure |-> <<>>, height |-> MaxSlots]>>
  BY DEF Init, At
<1>4. Contents = [u \in Upvalue |-> None]
  BY <1>3 DEF Contents, ContentOf
<1>5. \A i : BoxOf(i) = None
  BY <1>3 DEF BoxOf, Range
<1>6. LocalOf(1) = [value |-> <<>>, box |-> None]
  BY <1>3, <1>5 DEF LocalOf
<1>7. ScopeOf(1) = [locals |-> <<[value |-> <<>>, box |-> None]>>, captured |-> <<>>]
  <2>1. ScopeOf(1) = [locals |-> [i \in 1..1 - 0 |-> LocalOf(0 + i)], captured |-> <<>>]
    BY <1>3 DEF ScopeOf, Index
  <2>2. [i \in 1..1 - 0 |-> LocalOf(0 + i)] = [i \in {1} |-> LocalOf(1)]
    <3>1. 1..1 - 0 = {1} /\ \A i \in {1} : 0 + i = 1
      OBVIOUS
    <3>. QED  BY <3>1
  <2>. QED  BY <1>6, <2>1, <2>2
<1>8. Calls = <<ScopeOf(1)>>
  <2>1. DOMAIN frames = {1}
    BY <1>3
  <2>. QED  BY <2>1 DEF Calls
<1>9. Scopes!Init
  BY <1>4, <1>7, <1>8 DEF Scopes!Init, Scopes!Private
<1>. QED
  BY <1>2, <1>9

\* IsScopes: what a script sees of its variables is what it would see if no
\* upvalue, no stack and no collector stood in between; a variable that closures
\* share is one for all of them, before and after it is closed.
THEOREM ScopesImplemented == Modest => (Spec => IsScopes)
<1> SUFFICES ASSUME Modest PROVE Spec => IsScopes
  OBVIOUS
<1>1. Init => RInv /\ Scopes!Init
  BY InitMaps
<1>2. RInv /\ [Next]_vars => RInv' /\ Maps
  BY StepMaps
<1>3. RInv /\ Maps => [Scopes!Next]_(Scopes!vars)
  <2> SUFFICES ASSUME RInv, Maps PROVE [Scopes!Next]_(Scopes!vars)
    OBVIOUS
  <2>1. CASE Stutter
    BY <2>1 DEF Stutter, Scopes!vars
  <2>2. CASE Forgets
    BY <2>2 DEF Forgets, Scopes!Next
  <2>3. CASE frames # <<>> /\ Scopes!Step
    <3>1. Calls # <<>>
      BY <2>3, CallsAre, FramesRise DEF RInv, UInv
    <3>. QED  BY <2>3, <3>1 DEF Scopes!Next
  <2>. QED  BY <2>1, <2>2, <2>3 DEF Maps
<1>. QED
  BY <1>1, <1>2, <1>3, PTL DEF Spec, IsScopes, Scopes!Spec


=============================================================================

--------------------------- MODULE WrenHeapProofs ---------------------------
(***************************************************************************)
(* A finalizer is found through a class that is still there, and C functions*)
(* pop the temporary roots they push, for any scripts and any number of     *)
(* objects; and where C functions keep their locals, which WrenHeapSafety   *)
(* builds on.                                                               *)
(*                                                                         *)
(* The list the collector frees has the youngest object first, so it is     *)
(* enough that the class of a foreign object is older than the object.  For *)
(* the roots, each C function is followed along its steps.                  *)
(***************************************************************************)
EXTENDS WrenHeap, SequenceTheorems, TLAPS

\* The class of a foreign object is older.
Older(o, r) ==
  /\ "kind" \in DOMAIN r
  /\ r.kind = "foreign" => "class" \in DOMAIN r /\ r.class \in 1..o - 1

\* A C function writes the class of an object only where the object is the class
\* it is creating, and only CODE_CLOSURE captures.
Operations ==
  Allocating \cup
  {"fiber", "root", "unroot", "superclass", "methods", "metaclass", "foreign", "constant",
   "capture", "register", "symbol", "handle", "rehandle", "compiler", "endCompiler", "enter",
   "push", "top"}

LocalNames ==
  {"", "metaclassName", "metaclass", "classClass", "classObj", "name", "superclass", "value",
   "method", "fn", "closure", "upvalue", "token1", "token2", "module", "moduleName", "removed",
   "from", "to", "result", "fiber"}

Steps ==
  {s \in [do : Operations, x : LocalNames, y : LocalNames] :
     /\ s.do = "metaclass" => s.x = "classObj"
     /\ s.do = "upvalue" => s.x = "upvalue"}

\* A step pushes a temporary root, pops one, or leaves them alone.
Depths == 0..WREN_MAX_TEMP_ROOTS

Deepens(do, p, q) ==
  /\ p \in Depths /\ q \in Depths
  /\ q = IF do = "root" THEN p + 1 ELSE IF do = "unroot" THEN p - 1 ELSE p

\* The steps of code lead from p temporary roots to q.
Runs(code, p, q) ==
  /\ code \in Seq(Steps)
  /\ \E D \in [1..Len(code) + 1 -> Depths] :
       /\ D[1] = p /\ D[Len(code) + 1] = q
       /\ \A k \in 1..Len(code) : Deepens(code[k].do, D[k], D[k + 1])

ClassObj == Local("classObj")

Numbered ==
  /\ script \in Scripts
  /\ next \in Nat \ {0} /\ next <= MaxObjects + 1
  /\ Allocated \subseteq 1..next - 1

\* The class being created is no foreign object, even if its number outlives it.
Creating ==
  /\ ClassObj \in 1..next - 1 \cup {None}
  /\ ClassObj \in Allocated => heap[ClassObj].kind # "foreign"

\* The C function in progress pops the roots it has, and none that it has not.
Rooted ==
  /\ \E S : tempRoots \in Seq(S)
  /\ Runs(native.code, Len(tempRoots), 0)

FInv ==
  /\ Numbered
  /\ Rooted
  /\ \A o \in Allocated : Older(o, heap[o])
  /\ Creating
  /\ FinalizersSeeClass

-----------------------------------------------------------------------------
(* What a step may do to the heap, and to the C function in progress.       *)

\* An object is what it was to a finalizer.
Kin(r, s) ==
  /\ "kind" \in DOMAIN s
  /\ s.kind = "foreign" => r.kind = "foreign" /\ "class" \in DOMAIN s /\ s.class = r.class

HeapKept(h) == DOMAIN h \subseteq Allocated /\ \A o \in DOMAIN h : Kin(heap[o], h[o])

HeapGrown(h) ==
  /\ next <= MaxObjects
  /\ DOMAIN h \subseteq Allocated \cup {next}
  /\ \A o \in DOMAIN h : IF o = next THEN Older(next, h[next]) ELSE Kin(heap[o], h[o])

HeapStep ==
  /\ UNCHANGED script
  /\ \/ next' = next /\ HeapKept(heap')
     \/ next' = next + 1 /\ HeapGrown(heap')

NativeStays ==
  /\ Rooted'
  /\ ClassObj' \in {None, ClassObj}

NativeCreates ==
  /\ Rooted'
  /\ ClassObj' = next /\ next' = next + 1
  /\ next \in DOMAIN heap' => heap'[next].kind # "foreign"

\* A step that frees or rewrites objects, or adds one, and goes on with the C
\* function keeps the invariant if no finalizer was blind.
LEMMA Keeps ==
  ASSUME FInv, HeapStep, NativeStays \/ NativeCreates, FinalizersSeeClass'
  PROVE  FInv'
<1>1. /\ next \in Nat \ {0} /\ next <= MaxObjects + 1 /\ Allocated \subseteq 1..next - 1
      /\ script' = script /\ MaxObjects' = MaxObjects /\ MaxObjects \in Nat
      /\ None \notin 1..MaxObjects /\ script \in Scripts
  BY HeapAssumption DEF FInv, Numbered, HeapStep, MaxObjects
<1>2. next' \in {next, next + 1} /\ next' <= MaxObjects + 1 /\ next' \in Nat \ {0}
  BY <1>1 DEF HeapStep, HeapGrown
<1> DEFINE m == MaxObjects
           n == next
           p == next'
<1>3. 1..n - 1 \subseteq 1..p - 1 /\ 1..p - 1 \subseteq 1..m
  <2>1. n \in Nat /\ m \in Nat /\ (p = n \/ p = n + 1) /\ p <= m + 1
    BY <1>1, <1>2
  <2> HIDE DEF n, m, p
  <2>. QED  BY <2>1
<1>4. \A o \in DOMAIN heap' : \/ o \in Allocated /\ o \in 1..next - 1 /\ Kin(heap[o], heap'[o])
                              \/ o = next /\ next' = next + 1 /\ Older(o, heap'[o])
  BY <1>1 DEF HeapStep, HeapKept, HeapGrown
<1>5. DOMAIN heap' \subseteq 1..next' - 1
  <2>1. next' = next \/ next' = next + 1
    BY <1>2
  <2>. QED  BY <1>1, <1>4, <2>1
<1>6. ASSUME NEW o \in DOMAIN heap' PROVE Older(o, heap'[o])
  <2>1. CASE o \in Allocated /\ Kin(heap[o], heap'[o])
    BY <2>1 DEF FInv, Older, Kin
  <2>. QED  BY <1>4, <2>1
<1>7. Creating'
  <2>1. CASE NativeCreates
    <3>1. ClassObj' = next /\ next' = next + 1 /\ next \in 1..next' - 1
      BY <1>1, <2>1 DEF NativeCreates
    <3>. QED  BY <2>1, <3>1 DEF NativeCreates, Creating, Allocated
  <2>2. CASE ClassObj' = None
    <3>1. None \notin DOMAIN heap'
      <4>1. \A o \in 1..next' - 1 : o \in 1..MaxObjects
        BY <1>3
      <4>. QED  BY <1>1, <1>5, <4>1
    <3>. QED  BY <2>2, <3>1 DEF Creating, Allocated
  <2>3. CASE ClassObj' = ClassObj
    <3>1. ClassObj \in 1..next - 1 \cup {None} /\ ClassObj \in 1..next' - 1 \cup {None}
      <4>1. ClassObj \in 1..next - 1 \cup {None}
        BY DEF FInv, Creating
      <4>2. 1..next - 1 \subseteq 1..next' - 1
        BY <1>3
      <4>. QED  BY <4>1, <4>2
    <3>2. ASSUME ClassObj \in DOMAIN heap'
          PROVE  heap'[ClassObj].kind # "foreign"
      <4>1. ClassObj # next
        <5>1. next \notin 1..next - 1
          BY <1>1
        <5>2. next # None \/ next \notin DOMAIN heap'
          <6>1. \A o \in 1..next' - 1 : o \in 1..MaxObjects
            BY <1>3
          <6>. QED  BY <1>1, <1>5, <6>1
        <5>. QED  BY <3>1, <3>2, <5>1, <5>2
      <4>2. ClassObj \in Allocated /\ Kin(heap[ClassObj], heap'[ClassObj])
        BY <1>4, <3>2, <4>1
      <4>. QED  BY <4>2 DEF FInv, Creating, Kin
    <3>. QED  BY <2>3, <3>1, <3>2 DEF Creating, Allocated
  <2>. QED  BY <2>1, <2>2, <2>3 DEF NativeStays
<1>8. Rooted'
  BY DEF NativeStays, NativeCreates
<1>. QED
  BY <1>1, <1>2, <1>5, <1>6, <1>7, <1>8 DEF FInv, Numbered, Allocated, MaxObjects

FieldSet(x, f, v) == [heap EXCEPT ![x] = [heap[x] EXCEPT ![f] = v]]

\* A field is written that is not the class, or the class of a class.
LEMMA FieldWritten ==
  ASSUME FInv, NEW x, NEW f, NEW v,
         \/ f \notin {"kind", "class"}
         \/ f = "class" /\ (x \in Allocated => heap[x].kind # "foreign")
  PROVE  HeapKept(FieldSet(x, f, v))
<1> DEFINE h == [heap EXCEPT ![x] = [heap[x] EXCEPT ![f] = v]]
<1>1. DOMAIN h = Allocated
  BY DEF Allocated
<1>2. ASSUME NEW o \in Allocated
      PROVE  Kin(heap[o], h[o])
  <2>1. "kind" \in DOMAIN heap[o] /\ (heap[o].kind = "foreign" => "class" \in DOMAIN heap[o])
    BY DEF FInv, Older
  <2>2. CASE o # x
    BY <2>1, <2>2 DEF Kin, Allocated
  <2>3. CASE o = x
    <3>1. h[o] = [heap[x] EXCEPT ![f] = v]
      BY <2>3 DEF Allocated
    <3> HIDE DEF h
    <3>2. h[o]["kind"] = heap[x]["kind"] /\ "kind" \in DOMAIN h[o] /\ DOMAIN h[o] = DOMAIN heap[x]
      <4>1. f # "kind"
        OBVIOUS
      <4>. QED  BY <2>1, <2>3, <3>1, <4>1
    <3>3. heap[x].kind = "foreign" => f # "class" /\ h[o]["class"] = heap[x]["class"]
      BY <2>1, <2>3, <3>1
    <3>. QED  BY <2>1, <2>3, <3>2, <3>3 DEF Kin
  <2>. QED  BY <2>2, <2>3
<1>. QED
  BY <1>1, <1>2 DEF HeapKept, FieldSet

\* A heap that does not change.
LEMMA SameHeap == FInv /\ heap' = heap => HeapKept(heap')
  BY DEF FInv, Older, HeapKept, Kin, Allocated

\* An object is allocated that is not foreign, or of a class that is there.
LEMMA ObjectAdded ==
  ASSUME FInv, NEW r, next <= MaxObjects, Older(next, r)
  PROVE  HeapGrown(With(r)) /\ With(r)[next] = r
<1>1. next \notin Allocated
  BY DEF FInv, Numbered
<1>2. /\ DOMAIN With(r) = Allocated \cup {next} /\ With(r)[next] = r
      /\ \A o \in Allocated : With(r)[o] = heap[o]
  BY <1>1 DEF With
<1>3. \A o \in Allocated : Kin(heap[o], heap[o])
  BY DEF FInv, Older, Kin
<1> HIDE DEF With, Kin
<1>. QED
  BY <1>1, <1>2, <1>3 DEF HeapGrown

\* The same when a field of another is written as well.
AddedSet(r, x, f, v) == [With(r) EXCEPT ![x] = [With(r)[x] EXCEPT ![f] = v]]

\* The new object may be stored in another, as an operand on the stack is.
LEMMA AddedAndWritten ==
  ASSUME FInv, NEW r, next <= MaxObjects, Older(next, r), NEW x, NEW f, NEW v,
         f \notin {"kind", "class"}
  PROVE  HeapGrown(AddedSet(r, x, f, v))
<1> DEFINE w == With(r)
           h == AddedSet(r, x, f, v)
<1>1. h = [w EXCEPT ![x] = [w[x] EXCEPT ![f] = v]]
  BY DEF AddedSet
<1>2. HeapGrown(w)
  BY ObjectAdded
<1> HIDE DEF w, h
<1>3. DOMAIN h = DOMAIN w
  BY <1>1
<1>4. ASSUME NEW o \in DOMAIN h
      PROVE  Kin(w[o], h[o]) /\ (Older(o, w[o]) => Older(o, h[o]))
  <2>1. "kind" \in DOMAIN w[o] /\ (w[o].kind = "foreign" => "class" \in DOMAIN w[o])
    BY <1>2, <1>3, <1>4 DEF HeapGrown, Older, Kin
  <2>2. h[o] = w[o] \/ h[o] = [w[o] EXCEPT ![f] = v]
    BY <1>1, <1>3, <1>4
  <2>3. /\ DOMAIN h[o] = DOMAIN w[o] /\ h[o].kind = w[o].kind
        /\ w[o].kind = "foreign" => h[o].class = w[o].class
    BY <2>1, <2>2
  <2>. QED  BY <2>1, <2>3 DEF Kin, Older
<1>5. ASSUME NEW o \in DOMAIN h
      PROVE  IF o = next THEN Older(next, h[next]) ELSE Kin(heap[o], h[o])
  BY <1>2, <1>3, <1>4, <1>5 DEF HeapGrown, Kin
<1>. QED
  BY <1>2, <1>3, <1>5 DEF HeapGrown, h

-----------------------------------------------------------------------------
(* Temporary roots along the steps of a C function.                         *)

\* The steps that change no temporary root.
PlainSteps == {s \in Steps : s.do \notin {"root", "unroot"}}

\* One step.
LEMMA StepRuns ==
  ASSUME NEW s \in Steps, NEW p, NEW q, Deepens(s.do, p, q)
  PROVE  Runs(<<s>>, p, q)
<1> DEFINE D == [k \in 1..2 |-> IF k = 1 THEN p ELSE q]
           code == <<s>>
<1>1. code \in Seq(Steps) /\ Len(code) = 1 /\ code[1] = s
  OBVIOUS
<1>2. D \in [1..2 -> Depths] /\ D[1] = p /\ D[2] = q
  BY DEF Deepens
<1>3. 1..Len(code) + 1 = 1..2 /\ 1..Len(code) = {1} /\ Len(code) + 1 = 2
  BY <1>1
<1> HIDE DEF D, code
<1>4. \A k \in 1..Len(code) : Deepens(code[k].do, D[k], D[k + 1])
  BY <1>1, <1>2, <1>3
<1>5. Runs(code, p, q)
  BY <1>1, <1>2, <1>3, <1>4 DEF Runs
<1>. QED
  BY <1>5 DEF code

\* Steps that change no root, at any depth.
LEMMA Flat ==
  ASSUME NEW code \in Seq(PlainSteps), NEW d \in Depths
  PROVE  Runs(code, d, d)
<1> DEFINE D == [k \in 1..Len(code) + 1 |-> d]
<1>1. code \in Seq(Steps) /\ Len(code) \in Nat
  BY DEF PlainSteps
<1>2. \A k \in 1..Len(code) : k \in 1..Len(code) + 1 /\ k + 1 \in 1..Len(code) + 1
                               /\ code[k] \in PlainSteps
  BY <1>1
<1>3. \A k \in 1..Len(code) : Deepens(code[k].do, d, d)
  BY <1>2 DEF Deepens, PlainSteps
<1>4. D \in [1..Len(code) + 1 -> Depths] /\ D[1] = d /\ D[Len(code) + 1] = d
  BY <1>1
<1>5. \A k \in 1..Len(code) : Deepens(code[k].do, D[k], D[k + 1])
  BY <1>2, <1>3
<1> HIDE DEF D
<1>. QED
  BY <1>1, <1>4, <1>5 DEF Runs

\* Calls one after the other.
LEMMA Joined ==
  ASSUME NEW s, NEW t, NEW p, NEW q, NEW r, Runs(s, p, q), Runs(t, q, r)
  PROVE  Runs(s \o t, p, r)
<1>1. PICK D \in [1..Len(s) + 1 -> Depths] :
        /\ D[1] = p /\ D[Len(s) + 1] = q
        /\ \A k \in 1..Len(s) : Deepens(s[k].do, D[k], D[k + 1])
  BY DEF Runs
<1>2. PICK E \in [1..Len(t) + 1 -> Depths] :
        /\ E[1] = q /\ E[Len(t) + 1] = r
        /\ \A k \in 1..Len(t) : Deepens(t[k].do, E[k], E[k + 1])
  BY DEF Runs
<1>3. s \in Seq(Steps) /\ t \in Seq(Steps)
  BY DEF Runs
<1> DEFINE m == Len(s)
           n == Len(t)
           u == s \o t
           F == [k \in 1..m + n + 1 |-> IF k <= m THEN D[k] ELSE E[k - m]]
<1>4. m \in Nat /\ n \in Nat
  BY <1>3
<1>5. /\ u \in Seq(Steps) /\ Len(u) = m + n
      /\ \A k \in 1..m + n : u[k] = IF k <= m THEN s[k] ELSE t[k - m]
  BY <1>3, ConcatProperties
<1>6. D \in [1..m + 1 -> Depths] /\ D[m + 1] = q /\ E \in [1..n + 1 -> Depths] /\ E[n + 1] = r
  BY <1>1, <1>2
<1>7. \A k \in 1..m : Deepens(s[k].do, D[k], D[k + 1])
  BY <1>1
<1>8. \A k \in 1..n : Deepens(t[k].do, E[k], E[k + 1])
  BY <1>2
<1> HIDE DEF m, n, u
<1>9. F \in [1..m + n + 1 -> Depths]
  <2>1. ASSUME NEW k \in 1..m + n + 1, k <= m PROVE D[k] \in Depths
    <3>1. k \in 1..m + 1
      BY <1>4, <2>1
    <3>. QED  BY <1>6, <3>1
  <2>2. ASSUME NEW k \in 1..m + n + 1, ~(k <= m) PROVE E[k - m] \in Depths
    <3>1. k - m \in 1..n + 1
      BY <1>4, <2>2
    <3>. QED  BY <1>6, <3>1
  <2>. QED  BY <2>1, <2>2
<1>10. F[1] = p /\ F[m + n + 1] = r
  <2>1. 1 \in 1..m + n + 1 /\ m + n + 1 \in 1..m + n + 1 /\ ~(m + n + 1 <= m)
        /\ (m + n + 1) - m = n + 1
    BY <1>4
  <2>2. F[m + n + 1] = r
    BY <1>6, <2>1
  <2>3. F[1] = p
    <3>1. CASE 1 <= m
      BY <1>1, <2>1, <3>1
    <3>2. CASE m = 0
      <4>1. F[1] = E[1] /\ D[1] = q
        BY <1>6, <2>1, <3>2
      <4>. QED  BY <1>1, <1>2, <4>1
    <3>. QED  BY <1>4, <3>1, <3>2
  <2>. QED  BY <2>2, <2>3
<1>11. ASSUME NEW k \in 1..m + n
       PROVE  Deepens(u[k].do, F[k], F[k + 1])
  <2>1. k \in 1..m + n + 1 /\ k + 1 \in 1..m + n + 1 /\ k \in Int
    BY <1>4
  <2>2. CASE k < m
    <3>1. k \in 1..m /\ k <= m /\ k + 1 <= m
      BY <1>4, <2>1, <2>2
    <3>2. F[k] = D[k] /\ F[k + 1] = D[k + 1] /\ u[k] = s[k]
      BY <1>5, <2>1, <3>1
    <3>. QED  BY <1>7, <3>1, <3>2
  <2>3. CASE k = m
    <3>1. k \in 1..m /\ k <= m /\ ~(k + 1 <= m) /\ (k + 1) - m = 1 /\ k + 1 = m + 1
      BY <1>4, <2>1, <2>3
    <3>2. F[k] = D[k] /\ F[k + 1] = E[(k + 1) - m] /\ u[k] = s[k]
      BY <1>5, <2>1, <3>1
    <3>3. F[k + 1] = D[k + 1]
      BY <1>2, <1>6, <3>1, <3>2
    <3>. QED  BY <1>7, <3>1, <3>2, <3>3
  <2>4. CASE k > m
    <3>1. k - m \in 1..n /\ ~(k <= m) /\ ~(k + 1 <= m) /\ (k + 1) - m = (k - m) + 1
      BY <1>4, <2>1, <2>4
    <3>2. F[k] = E[k - m] /\ F[k + 1] = E[(k - m) + 1] /\ u[k] = t[k - m]
      BY <1>5, <2>1, <3>1
    <3>. QED  BY <1>8, <3>1, <3>2
  <2>. QED  BY <1>4, <2>1, <2>2, <2>3, <2>4
<1> HIDE DEF F
<1>12. Runs(u, p, r)
  BY <1>4, <1>5, <1>9, <1>10, <1>11 DEF Runs
<1>. QED
  BY <1>12 DEF u

-----------------------------------------------------------------------------
(* The steps of a C function.                                               *)

\* The step a C function is at, and the steps after it with the roots they find.
LEMMA NowIs ==
  ASSUME FInv, native.code # <<>>
  PROVE  /\ Now \in Steps
         /\ \E q : /\ Deepens(Now.do, Len(tempRoots), q)
                   /\ Runs(Tail(native.code), q, 0)
<1> DEFINE code == native.code
           rest == Tail(native.code)
           n == Len(code)
<1>1. code \in Seq(Steps) /\ code # <<>>
  BY DEF FInv, Rooted, Runs
<1>2. /\ Head(code) \in Steps /\ Head(code) = code[1]
      /\ rest \in Seq(Steps) /\ Len(rest) = n - 1 /\ n \in Nat /\ n >= 1
      /\ \A k \in 1..n - 1 : rest[k] = code[k + 1]
  BY <1>1, HeadTailProperties
<1>3. PICK D \in [1..n + 1 -> Depths] :
        /\ D[1] = Len(tempRoots) /\ D[n + 1] = 0
        /\ \A k \in 1..n : Deepens(code[k].do, D[k], D[k + 1])
  BY DEF FInv, Rooted, Runs
<1> DEFINE E == [k \in 1..(n - 1) + 1 |-> D[k + 1]]
<1> HIDE DEF code, rest, n
<1>4. Deepens(Head(code).do, Len(tempRoots), D[2])
  BY <1>2, <1>3
<1>5. /\ E \in [1..(n - 1) + 1 -> Depths] /\ E[1] = D[2] /\ E[(n - 1) + 1] = 0
      /\ \A k \in 1..n - 1 : Deepens(rest[k].do, E[k], E[k + 1])
  <2>1. \A k \in 1..(n - 1) + 1 : k + 1 \in 1..n + 1
    BY <1>2
  <2>2. E \in [1..(n - 1) + 1 -> Depths] /\ E[1] = D[2] /\ E[(n - 1) + 1] = 0
    BY <1>2, <1>3, <2>1
  <2>3. \A k \in 1..n - 1 : Deepens(rest[k].do, E[k], E[k + 1])
    <3> TAKE k \in 1..n - 1
    <3>1. k \in 1..(n - 1) + 1 /\ k + 1 \in 1..(n - 1) + 1 /\ k + 1 \in 1..n
      BY <1>2
    <3>2. E[k] = D[k + 1] /\ E[k + 1] = D[(k + 1) + 1] /\ rest[k] = code[k + 1]
      BY <1>2, <3>1
    <3>. QED  BY <1>3, <3>1, <3>2
  <2>. QED  BY <2>2, <2>3
<1> HIDE DEF E
<1>6. Runs(rest, D[2], 0)
  BY <1>2, <1>5 DEF Runs
<1>. QED
  BY <1>2, <1>4, <1>6 DEF code, rest, Now

\* A step gives a value to the local it is about.
LEMMA Proceeds ==
  ASSUME FInv, NEW x, NEW v, native.code # <<>>, Proceed(x, v)
  PROVE  /\ native'.code = Tail(native.code)
         /\ ClassObj' \in {None, ClassObj} \/ (x = "classObj" /\ ClassObj' = v)
<1> DEFINE rest == Tail(native.code)
           locals == [n \in DOMAIN native.locals \cup {x} |->
                        IF n = x THEN v ELSE native.locals[n]]
           kept == [n \in DOMAIN locals \cap Names(rest) |-> locals[n]]
<1>1. native' = [code |-> rest, locals |-> kept]
  BY DEF Proceed
<1>3. \A n \in DOMAIN kept : \/ n = x /\ kept[n] = v
                             \/ n \in DOMAIN native.locals /\ kept[n] = native.locals[n]
  OBVIOUS
<1>4. native'.code = Tail(native.code) /\ native'.locals = kept
  BY <1>1
<1> HIDE DEF rest, kept
<1>5. ClassObj' = IF "classObj" \in DOMAIN kept THEN kept["classObj"] ELSE None
  BY <1>4 DEF ClassObj, Local
<1>6. "classObj" \in DOMAIN native.locals => ClassObj = native.locals["classObj"]
  BY DEF ClassObj, Local
<1>7. CASE "classObj" \notin DOMAIN kept
  BY <1>4, <1>5, <1>7
<1>8. CASE "classObj" \in DOMAIN kept
  <2>1. ClassObj' = kept["classObj"]
    BY <1>5, <1>8
  <2>2. \/ "classObj" = x /\ kept["classObj"] = v
        \/ kept["classObj"] = ClassObj
    BY <1>3, <1>6, <1>8
  <2>. QED  BY <1>4, <2>1, <2>2
<1>. QED
  BY <1>7, <1>8

\* What a step does to the temporary roots.
RootsFollow ==
  \/ Now.do \notin {"root", "unroot"} /\ tempRoots' = tempRoots
  \/ Now.do = "root" /\ \E v : tempRoots' = Append(tempRoots, v)
  \/ Now.do = "unroot" /\ tempRoots' = Front(tempRoots)

\* A step leads to the roots that the steps after it begin with.
LEMMA RootsStep ==
  ASSUME FInv, native.code # <<>>, native'.code = Tail(native.code), RootsFollow
  PROVE  Rooted'
<1>1. PICK q : Deepens(Now.do, Len(tempRoots), q) /\ Runs(Tail(native.code), q, 0)
  BY NowIs
<1>2. PICK S : tempRoots \in Seq(S)
  BY DEF FInv, Rooted
<1>3. Len(tempRoots) \in Nat /\ Len(tempRoots) \in Depths /\ q \in Depths
  BY <1>1, <1>2 DEF Deepens
<1>4. (\E T : tempRoots' \in Seq(T)) /\ Len(tempRoots') = q
  <2>1. CASE Now.do \notin {"root", "unroot"} /\ tempRoots' = tempRoots
    BY <1>1, <1>2, <2>1 DEF Deepens
  <2>2. ASSUME NEW v, Now.do = "root", tempRoots' = Append(tempRoots, v)
        PROVE  (\E T : tempRoots' \in Seq(T)) /\ Len(tempRoots') = q
    <3>1. tempRoots \in Seq(S \cup {v})
      BY <1>2
    <3>2. tempRoots' \in Seq(S \cup {v}) /\ Len(tempRoots') = Len(tempRoots) + 1
      BY <2>2, <3>1
    <3>. QED  BY <1>1, <2>2, <3>2 DEF Deepens
  <2>3. CASE Now.do = "unroot" /\ tempRoots' = Front(tempRoots)
    <3>1. q = Len(tempRoots) - 1 /\ q \in Nat
      BY <1>1, <1>3, <2>3 DEF Deepens, Depths
    <3>2. tempRoots # <<>> /\ tempRoots' = SubSeq(tempRoots, 1, Len(tempRoots) - 1)
      BY <1>3, <2>3, <3>1 DEF Front
    <3>3. tempRoots' \in Seq(S) /\ Len(tempRoots') = Len(tempRoots) - 1
      <4>1. 1 \in 1..Len(tempRoots) /\ Len(tempRoots) - 1 \in 0..Len(tempRoots)
        BY <1>3, <3>1
      <4>. QED  BY <1>2, <1>3, <3>1, <3>2, <4>1, SubSeqProperties
    <3>. QED  BY <3>1, <3>3
  <2>. QED  BY <2>1, <2>2, <2>3 DEF RootsFollow
<1>5. Runs(native'.code, Len(tempRoots'), 0)
  BY <1>1, <1>4
<1>. QED
  BY <1>4, <1>5 DEF Rooted

\* wrenPushRoot() and wrenPopRoot() are steps of their own.
LEMMA StepRoots ==
  Allocate \/ Reallocate \/ Root \/ Write \/ Publish \/ Push \/ CaptureUpvalue => RootsFollow
<1>1. Allocate \/ Reallocate \/ CaptureUpvalue => RootsFollow
  BY DEF Allocate, Reallocate, CaptureUpvalue, RootsFollow, Doing, roots
<1>2. Write \/ Publish \/ Push => RootsFollow
  BY DEF Write, Publish, Push, RootsFollow, Doing, roots
<1>3. Root => RootsFollow
  BY DEF Root, RootsFollow, Doing
<1>. QED
  BY <1>1, <1>2, <1>3

\* A step that only uses its locals leaves the class being created alone.
LEMMA Continues == FInv /\ native.code # <<>> /\ Continue /\ RootsFollow => NativeStays
<1> SUFFICES ASSUME FInv, native.code # <<>>, Continue, RootsFollow PROVE NativeStays
  OBVIOUS
<1>1. Proceed(Now.x, Local(Now.x))
  BY DEF Continue
<1>2. Now.x = "classObj" => Local(Now.x) = ClassObj
  BY DEF ClassObj
<1>. QED
  BY <1>1, <1>2, Proceeds, RootsStep DEF NativeStays

\* No step of a C function allocates a foreign object: only SetSlotNewForeign does.
LEMMA AllocateKeeps == FInv /\ Allocate /\ UNCHANGED script => FInv'
<1> SUFFICES ASSUME FInv, Allocate, UNCHANGED script PROVE FInv'
  OBVIOUS
<1>1. /\ native.code # <<>> /\ next <= MaxObjects /\ next' = next + 1 /\ blind' = blind
      /\ Proceed(Now.x, next)
  BY DEF Allocate
<1>2. PICK r : /\ heap' = With(r)
               /\ "kind" \in DOMAIN r /\ r.kind # "foreign"
  <2>1. ASSUME NEW v PROVE \A r \in {NewString, NewSingleClass(v), NewFunction, NewClosure(v),
                                      NewModule(v), NewFiber(v)} :
                             "kind" \in DOMAIN r /\ r.kind # "foreign"
    BY DEF NewString, NewSingleClass, NewFunction, NewClosure, NewModule, NewFiber
  <2>. QED  BY <2>1 DEF Allocate
<1>3. HeapGrown(heap') /\ heap'[next] = r
  BY <1>1, <1>2, ObjectAdded DEF Older
<1>4. NativeStays \/ NativeCreates
  BY <1>1, <1>2, <1>3, Proceeds, RootsStep, StepRoots DEF NativeStays, NativeCreates
<1>. QED
  BY <1>1, <1>3, <1>4, Keeps DEF HeapStep, FInv, FinalizersSeeClass

\* The class of an object is written for the class that is being created, and for
\* no other.
LEMMA WriteKeeps == FInv /\ Write /\ UNCHANGED script => FInv'
<1> SUFFICES ASSUME FInv, Write, UNCHANGED script PROVE FInv'
  OBVIOUS
<1> DEFINE x == Local(Now.x)
           y == Local(Now.y)
<1>1. native.code # <<>> /\ next' = next /\ blind' = blind /\ Continue
  BY DEF Write, roots
<1>2. \/ heap' = FieldSet(x, "superclass", y)
      \/ heap' = FieldSet(x, "methods",
                           heap[x].methods \cup IF y = None THEN {} ELSE heap[y].methods)
      \/ heap' = FieldSet(x, "class", y) /\ Now.do = "metaclass"
      \/ heap' = FieldSet(x, "foreign", TRUE)
      \/ heap' = FieldSet(x, "constants", heap[x].constants \cup {y})
      \/ heap' = FieldSet(x, "upvalues", Append(heap[x].upvalues, y))
  BY DEF Write, FieldSet, Doing
<1>3. Now.do = "metaclass" => x = ClassObj
  BY <1>1, NowIs DEF Steps, ClassObj
<1>4. \A v : /\ HeapKept(FieldSet(x, "superclass", v))
            /\ HeapKept(FieldSet(x, "methods", v))
            /\ HeapKept(FieldSet(x, "foreign", v))
            /\ HeapKept(FieldSet(x, "constants", v))
            /\ HeapKept(FieldSet(x, "upvalues", v))
  BY FieldWritten
<1>5. Now.do = "metaclass" => HeapKept(FieldSet(x, "class", y))
  BY <1>3, FieldWritten DEF FInv, Creating
<1>6. HeapKept(heap')
  BY <1>2, <1>4, <1>5
<1>. QED
  BY <1>1, <1>6, StepRoots, Continues, Keeps DEF HeapStep, FInv, FinalizersSeeClass

\* Growing a buffer, rooting and publishing leave the objects alone, but for the fiber
\* that is entered.
LEMMA ReallocateKeeps == FInv /\ (Reallocate \/ Root \/ Publish) /\ UNCHANGED script => FInv'
<1> SUFFICES ASSUME FInv, Reallocate \/ Root \/ Publish, UNCHANGED script PROVE FInv'
  OBVIOUS
<1>1. native.code # <<>> /\ next' = next /\ blind' = blind /\ Continue
  BY DEF Reallocate, Root, Publish, roots, Doing
<1>2. heap' = heap \/ heap' = FieldSet(Local(Now.x), "root", TRUE)
  BY DEF Reallocate, Root, Publish, FieldSet
<1>3. HeapKept(heap')
  BY <1>2, SameHeap, FieldWritten
<1>. QED
  BY <1>1, <1>3, StepRoots, Continues, Keeps DEF HeapStep, FInv, FinalizersSeeClass

\* A result is put on the stack of the fiber.
LEMMA PushKeeps == FInv /\ Push /\ UNCHANGED script => FInv'
<1> SUFFICES ASSUME FInv, Push, UNCHANGED script PROVE FInv'
  OBVIOUS
<1>1. native.code # <<>> /\ next' = next /\ blind' = blind /\ Continue
  BY DEF Push, roots
<1>2. PICK s : heap' = FieldSet(fiber, "stack", s)
  <2>1. \/ heap' = FieldSet(fiber, "stack", Append(heap[fiber].stack, Local(Now.x)))
        \/ heap' = FieldSet(fiber, "stack", Append(Front(heap[fiber].stack), Local(Now.x)))
    BY DEF Push, FieldSet
  <2>. QED  BY <2>1
<1>3. HeapKept(heap')
  BY <1>2, FieldWritten
<1>. QED
  BY <1>1, <1>3, StepRoots, Continues, Keeps DEF HeapStep, FInv, FinalizersSeeClass

\* captureUpvalue() finds an upvalue or adds one to the list of the fiber.
LEMMA CaptureUpvalueKeeps == FInv /\ CaptureUpvalue /\ UNCHANGED script => FInv'
<1> SUFFICES ASSUME FInv, CaptureUpvalue, UNCHANGED script PROVE FInv'
  OBVIOUS
<1>1. native.code # <<>> /\ blind' = blind /\ Now.x = "upvalue"
  <2>1. native.code # <<>> /\ blind' = blind /\ Now.do = "upvalue"
    BY DEF CaptureUpvalue, Doing
  <2>. QED  BY <2>1, NowIs DEF Steps
<1>2. \A v : Proceed(Now.x, v) => NativeStays
  BY <1>1, Proceeds, RootsStep, StepRoots DEF NativeStays
<1>3. CASE next' = next /\ heap' = heap /\ NativeStays
  BY <1>1, <1>3, SameHeap, Keeps DEF HeapStep, FInv, FinalizersSeeClass
<1>4. ASSUME NEW i, next <= MaxObjects, next' = next + 1, NativeStays,
             heap' = [With(NewUpvalue(fiber, i)) EXCEPT ![fiber].openUpvalues = @ \cup {next}]
      PROVE  FInv'
  <2> DEFINE r == NewUpvalue(fiber, i)
  <2>1. "kind" \in DOMAIN r /\ r.kind # "foreign"
    BY DEF NewUpvalue
  <2> HIDE DEF r
  <2>2. HeapGrown(heap')
    <3> DEFINE open == With(r)[fiber].openUpvalues \cup {next}
    <3>1. heap' = AddedSet(r, fiber, "openUpvalues", open)
      BY <1>4 DEF AddedSet, r
    <3>2. Older(next, r)
      BY <2>1 DEF Older
    <3> HIDE DEF open
    <3>3. HeapGrown(AddedSet(r, fiber, "openUpvalues", open))
      BY <1>4, <3>2, AddedAndWritten
    <3>. QED  BY <3>1, <3>3
  <2>. QED  BY <1>1, <1>4, <2>2, Keeps DEF HeapStep, FInv, FinalizersSeeClass
<1>. QED
  BY <1>2, <1>3, <1>4 DEF CaptureUpvalue


-----------------------------------------------------------------------------
(* C functions begin.  Each is followed with the temporary roots it has.    *)

Plain == Operations \ {"root", "unroot", "metaclass", "upvalue"}

\* The steps that neither write a class nor capture, and leave the roots alone.
LEMMA Spelled ==
  Plain =
    {"string", "class", "fn", "closure", "module", "map", "grow",
     "fiber", "superclass", "methods", "foreign", "constant",
     "capture", "register", "symbol", "handle", "rehandle", "compiler", "endCompiler",
     "enter", "push", "top"}
  BY DEF Plain, Operations, Allocating

\* Steps that may name any local.
LEMMA OneStep ==
  ASSUME NEW do \in Plain, NEW x \in LocalNames, NEW y \in LocalNames
  PROVE  Step(do, x, y) \in PlainSteps
  BY DEF Step, Steps, PlainSteps, Plain

\* As many of them as one likes.
LEMMA Listed ==
  ASSUME NEW d \in Depths,
         NEW a \in PlainSteps, NEW b \in PlainSteps, NEW c \in PlainSteps, NEW e \in PlainSteps
  PROVE  /\ Runs(<<a>>, d, d) /\ Runs(<<a, b>>, d, d)
         /\ Runs(<<a, b, c>>, d, d) /\ Runs(<<a, b, c, e>>, d, d)
<1>1. /\ <<a>> \in Seq(PlainSteps) /\ <<a, b>> \in Seq(PlainSteps)
      /\ <<a, b, c>> \in Seq(PlainSteps) /\ <<a, b, c, e>> \in Seq(PlainSteps)
  OBVIOUS
<1>. QED
  BY <1>1, Flat

\* One of them.
LEMMA Alone ==
  ASSUME NEW d \in Depths, NEW do \in Plain, NEW x \in LocalNames, NEW y \in LocalNames
  PROVE  Runs(<<Step(do, x, y)>>, d, d)
  BY OneStep, Listed

\* Rooting, unrooting and growing.
LEMMA Parts ==
  /\ \A d \in Depths : Runs(<<>>, d, d) /\ \A x \in LocalNames : Runs(Grow(x), d, d)
  /\ \A d, e \in Depths : e = d + 1 =>
       Runs(PopRoot, e, d) /\ \A x \in LocalNames : Runs(PushRoot(x), d, e)
<1>1. ASSUME NEW d \in Depths PROVE Runs(<<>>, d, d)
  <2>1. <<>> \in Seq(PlainSteps)
    OBVIOUS
  <2>. QED  BY <2>1, Flat
<1>2. ASSUME NEW d \in Depths, NEW x \in LocalNames PROVE Runs(Grow(x), d, d)
  <2>1. "grow" \in Plain
    BY Spelled
  <2>. QED  BY <2>1, Alone DEF Grow
<1>3. ASSUME NEW d \in Depths, NEW e \in Depths, e = d + 1,
             NEW x \in LocalNames
      PROVE  Runs(PushRoot(x), d, e)
  <2>1. Step("root", x, x) \in Steps /\ Step("root", x, x).do = "root"
    BY DEF Step, Steps, Operations
  <2>2. Deepens("root", d, e)
    BY <1>3 DEF Deepens
  <2>. QED  BY <2>1, <2>2, StepRuns DEF PushRoot
<1>4. ASSUME NEW d \in Depths, NEW e \in Depths, e = d + 1
      PROVE  Runs(PopRoot, e, d)
  <2>1. Step("unroot", "", "") \in Steps /\ Step("unroot", "", "").do = "unroot"
    BY DEF Step, Steps, Operations, LocalNames
  <2>2. Deepens("unroot", e, d)
    BY <1>4 DEF Deepens, Depths
  <2>. QED  BY <2>1, <2>2, StepRuns DEF PopRoot
<1>. QED
  BY <1>1, <1>2, <1>3, <1>4

\* No C function comes to have more than two roots.
LEMMA Two ==
  /\ 0 \in Depths /\ 1 \in Depths /\ 2 \in Depths
  /\ 1 = 0 + 1 /\ 2 = 1 + 1
  BY DEF Depths, WREN_MAX_TEMP_ROOTS

\* wrenNewClass() writes the class of classObj alone.
LEMMA ClassPrograms ==
  /\ Runs(WrenNewClass, 0, 0) /\ Runs(BindForeignClass, 0, 0)
  /\ Runs(<<Step("top", "classObj", "")>>, 0, 0)
<1>1. /\ {"class", "superclass", "grow", "methods", "string", "foreign", "top"} \subseteq Plain
      /\ {"", "metaclassName", "metaclass", "classClass", "classObj", "name", "superclass"}
           \subseteq LocalNames
  BY Spelled DEF LocalNames
<1>2. ASSUME NEW x \in LocalNames, NEW y \in LocalNames, NEW d \in Depths, NEW e \in Depths,
             e = d + 1
      PROVE  Runs(WrenNewSingleClass(x, y), d, d)
  <2>1. Runs(<<Step("class", x, y)>>, d, d)
    BY <1>1, Alone
  <2>2. Runs(PushRoot(x), d, e) /\ Runs(PopRoot, e, d)
    BY <1>2, Parts
  <2>. QED  BY <2>1, <2>2, Joined, Zenon DEF WrenNewSingleClass
<1>3. ASSUME NEW x \in LocalNames, NEW y \in LocalNames, NEW d \in Depths
      PROVE  Runs(WrenBindSuperclass(x, y), d, d)
  <2>1. /\ Step("superclass", x, y) \in PlainSteps /\ Step("grow", x, y) \in PlainSteps
        /\ Step("methods", x, y) \in PlainSteps
    BY <1>1, OneStep
  <2>. QED  BY <2>1, Listed DEF WrenBindSuperclass
<1>4. Runs(<<Step("metaclass", "classObj", "metaclass")>>, 2, 2)
  <2>1. "metaclass" \in Operations /\ "classObj" \in LocalNames /\ "metaclass" \in LocalNames
    BY DEF Operations, LocalNames
  <2>2. Step("metaclass", "classObj", "metaclass") \in PlainSteps
    BY <2>1 DEF Step, Steps, PlainSteps
  <2>. QED  BY <2>2, Two, Listed
<1>5. /\ Runs(<<Step("string", "metaclassName", "")>>, 0, 0)
      /\ Runs(<<Step("foreign", "classObj", "")>>, 0, 0)
      /\ Runs(<<Step("top", "classObj", "")>>, 0, 0)
  BY <1>1, Two, Alone
<1>6. /\ Runs(PushRoot("metaclassName"), 0, 1) /\ Runs(PushRoot("metaclass"), 0, 1)
      /\ Runs(PushRoot("classObj"), 1, 2) /\ Runs(PopRoot, 2, 1) /\ Runs(PopRoot, 1, 0)
      /\ Runs(Grow("classObj"), 0, 0)
  BY <1>1, Two, Parts
<1>7. /\ Runs(WrenNewSingleClass("metaclass", "metaclassName"), 1, 1)
      /\ Runs(WrenBindSuperclass("metaclass", "classClass"), 1, 1)
      /\ Runs(WrenNewSingleClass("classObj", "name"), 1, 1)
      /\ Runs(WrenBindSuperclass("classObj", "superclass"), 2, 2)
  BY <1>1, <1>2, <1>3, Two
<1>8. Runs(WrenNewClass, 0, 0)
  BY <1>4, <1>5, <1>6, <1>7, Joined, Zenon DEF WrenNewClass
<1>9. Runs(BindForeignClass, 0, 0)
  BY <1>5, <1>6, Joined, Zenon DEF BindForeignClass
<1>. QED
  BY <1>5, <1>8, <1>9

\* The C functions behind handles, removals, ranges and closures write no class.
LEMMA SmallPrograms ==
  /\ Runs(WrenMakeHandle("value"), 0, 0) /\ Runs(WrenMakeCallHandle, 0, 0)
  /\ Runs(MapRemoveKey, 0, 0) /\ Runs(ListRemoveAt, 0, 0)
  /\ Runs(RangeToString, 0, 0) /\ Runs(MakeClosure, 0, 0)
<1>1. /\ {"string", "symbol", "handle", "fn", "closure", "rehandle", "push", "grow", "capture"}
           \subseteq Plain
      /\ {"", "value", "method", "fn", "closure", "removed", "from", "to", "result", "upvalue"}
           \subseteq LocalNames
  BY Spelled DEF LocalNames
<1>2. ASSUME NEW x \in LocalNames
      PROVE  /\ Runs(WrenSymbolTableAdd(x), 0, 0) /\ Runs(WrenMakeHandle(x), 0, 0)
             /\ Runs(WrenNewFunction(x), 0, 0)
  <2>1. /\ Runs(<<Step("string", x, "")>>, 0, 0) /\ Runs(<<Step("symbol", x, "")>>, 0, 0)
        /\ Runs(<<Step("handle", x, "")>>, 0, 0) /\ Runs(<<Step("fn", x, "")>>, 0, 0)
    BY <1>1, Two, Alone
  <2>2. /\ Runs(PushRoot(x), 0, 1) /\ Runs(PopRoot, 1, 0)
        /\ Runs(Grow(x), 1, 1) /\ Runs(Grow(""), 0, 0)
    BY <1>1, Two, Parts
  <2>3. Runs(WrenSymbolTableAdd(x), 0, 0)
    BY <2>1, <2>2, Joined, Zenon DEF WrenSymbolTableAdd
  <2>4. Runs(WrenMakeHandle(x), 0, 0)
    BY <2>1, <2>2, Joined, Zenon DEF WrenMakeHandle
  <2>5. Runs(WrenNewFunction(x), 0, 0)
    BY <2>1, <2>2, Joined, Zenon DEF WrenNewFunction
  <2>. QED  BY <2>3, <2>4, <2>5
<1>3. Runs(WrenMakeCallHandle, 0, 0)
  <2>1. /\ Runs(WrenSymbolTableAdd("method"), 0, 0) /\ Runs(WrenNewFunction("fn"), 0, 0)
        /\ Runs(WrenMakeHandle("fn"), 0, 0)
    BY <1>1, <1>2
  <2>2. Runs(Grow("closure"), 0, 0)
    BY <1>1, Two, Parts
  <2>3. /\ Step("closure", "closure", "fn") \in PlainSteps
        /\ Step("rehandle", "closure", "fn") \in PlainSteps
    BY <1>1, OneStep
  <2>4. Runs(<<Step("closure", "closure", "fn"), Step("rehandle", "closure", "fn")>>, 0, 0)
    BY <2>3, Two, Listed
  <2>. QED  BY <2>1, <2>2, <2>4, Joined, Zenon DEF WrenMakeCallHandle
<1>4. Runs(MapRemoveKey, 0, 0) /\ Runs(ListRemoveAt, 0, 0)
  <2>1. /\ Runs(PushRoot("value"), 0, 1) /\ Runs(PushRoot("removed"), 0, 1)
        /\ Runs(Grow(""), 1, 1) /\ Runs(PopRoot, 1, 0)
    BY <1>1, Two, Parts
  <2>2. /\ Runs(<<Step("push", "value", "")>>, 0, 0)
        /\ Runs(<<Step("push", "removed", "")>>, 0, 0)
    BY <1>1, Two, Alone
  <2>3. Runs(MapRemoveKey, 0, 0)
    BY <2>1, <2>2, Joined, Zenon DEF MapRemoveKey
  <2>4. Runs(ListRemoveAt, 0, 0)
    BY <2>1, <2>2, Joined, Zenon DEF ListRemoveAt
  <2>. QED  BY <2>3, <2>4
<1>5. Runs(RangeToString, 0, 0)
  <2>1. /\ Runs(PushRoot("from"), 0, 1) /\ Runs(PushRoot("to"), 1, 2)
        /\ Runs(PopRoot, 2, 1) /\ Runs(PopRoot, 1, 0)
    BY <1>1, Two, Parts
  <2>2. /\ Runs(<<Step("string", "from", "")>>, 0, 0) /\ Runs(<<Step("string", "to", "")>>, 1, 1)
        /\ Runs(<<Step("push", "result", "")>>, 0, 0)
    BY <1>1, Two, Alone
  <2>3. Step("grow", "from", "to") \in PlainSteps /\ Step("string", "result", "") \in PlainSteps
    BY <1>1, OneStep
  <2>4. Runs(<<Step("grow", "from", "to"), Step("string", "result", "")>>, 2, 2)
    BY <2>3, Two, Listed
  <2>. QED  BY <2>1, <2>2, <2>4, Joined, Zenon DEF RangeToString
<1>6. Runs(MakeClosure, 0, 0)
  <2>1. /\ Step("closure", "closure", "fn") \in PlainSteps
        /\ Step("push", "closure", "") \in PlainSteps
        /\ Step("capture", "closure", "upvalue") \in PlainSteps
    BY <1>1, OneStep
  <2>2. Step("upvalue", "upvalue", "closure") \in PlainSteps
    <3>1. "upvalue" \in Operations
      BY DEF Operations, Allocating
    <3>. QED  BY <1>1, <3>1 DEF Step, Steps, PlainSteps
  <2>. QED  BY <2>1, <2>2, Two, Listed DEF MakeClosure
<1>. QED
  BY <1>1, <1>2, <1>3, <1>4, <1>5, <1>6

\* Nor does compiling a source, importing it, or running it.
LEMMA SourcePrograms ==
  ASSUME NEW strings \in 0..2
  PROVE  /\ Runs(ImportModule(strings), 0, 0)
         /\ Runs(<<Step("string", "name", "")>> \o PushRoot("name") \o WrenCompile(strings)
                   \o PushRoot("fn") \o <<Step("closure", "closure", "fn")>> \o PopRoot
                   \o PopRoot \o PushRoot("closure") \o Grow("closure")
                   \o <<Step("fiber", "fiber", "closure")>> \o PopRoot
                   \o <<Step("enter", "fiber", "")>>, 0, 0)
         /\ Runs(<<Step("string", "moduleName", "")>> \o PushRoot("moduleName") \o PopRoot
                   \o <<Step("push", "value", "")>>, 0, 0)
<1>1. /\ {"string", "compiler", "fn", "constant", "endCompiler", "module", "register", "closure",
          "push", "fiber", "enter"} \subseteq Plain
      /\ {"", "token1", "token2", "fn", "module", "name", "closure", "fiber", "moduleName", "value"}
           \subseteq LocalNames
  BY Spelled DEF LocalNames
<1>2. /\ Runs(<<Step("string", "token1", "")>>, 1, 1)
      /\ Runs(<<Step("string", "token2", "")>>, 1, 1)
      /\ Runs(<<Step("compiler", "token1", "")>>, 1, 1)
      /\ Runs(<<Step("compiler", "token2", "")>>, 1, 1)
      /\ Runs(<<Step("fn", "fn", "")>>, 1, 1)
      /\ Runs(<<Step("compiler", "fn", "")>>, 1, 1)
      /\ Runs(<<Step("constant", "fn", "token1")>>, 1, 1)
      /\ Runs(<<Step("endCompiler", "fn", "")>>, 1, 1)
  BY <1>1, Two, Alone
<1>3. /\ Runs(<<Step("module", "module", "name")>>, 1, 1)
      /\ Runs(<<Step("register", "module", "")>>, 1, 1)
      /\ Runs(<<Step("closure", "closure", "fn")>>, 2, 2)
      /\ Runs(<<Step("string", "name", "")>>, 0, 0)
      /\ Runs(<<Step("push", "closure", "")>>, 0, 0)
      /\ Runs(<<Step("fiber", "fiber", "closure")>>, 1, 1)
      /\ Runs(<<Step("enter", "fiber", "")>>, 0, 0)
      /\ Runs(<<Step("string", "moduleName", "")>>, 0, 0)
      /\ Runs(<<Step("push", "value", "")>>, 0, 0)
  BY <1>1, Two, Alone
<1>4. /\ Runs(Grow("fn"), 1, 1) /\ Runs(Grow("fn"), 2, 2) /\ Runs(Grow(""), 1, 1)
      /\ Runs(Grow("module"), 2, 2) /\ Runs(Grow("closure"), 1, 1) /\ Runs(<<>>, 1, 1)
  BY <1>1, Two, Parts
<1>5. /\ Runs(PushRoot("token1"), 1, 2) /\ Runs(PushRoot("module"), 1, 2)
      /\ Runs(PushRoot("fn"), 1, 2) /\ Runs(PushRoot("name"), 0, 1)
      /\ Runs(PushRoot("closure"), 0, 1) /\ Runs(PushRoot("moduleName"), 0, 1)
      /\ Runs(PopRoot, 2, 1) /\ Runs(PopRoot, 1, 0)
  BY <1>1, Two, Parts
<1>6. Runs(WrenNewFunction("fn"), 1, 1) /\ Runs(AddConstant("fn", "token1"), 1, 1)
  <2>1. Runs(WrenNewFunction("fn"), 1, 1)
    BY <1>2, <1>4, Joined, Zenon DEF WrenNewFunction
  <2>2. Runs(AddConstant("fn", "token1"), 1, 1)
    BY <1>2, <1>4, <1>5, Joined, Zenon DEF AddConstant
  <2>. QED  BY <2>1, <2>2
<1>7. Runs(WrenCompile(strings), 1, 1)
  <2> DEFINE p1 == IF strings >= 1 THEN <<Step("string", "token1", "")>> ELSE <<>>
             p2 == IF strings = 2 THEN <<Step("string", "token2", "")>> ELSE <<>>
             p3 == IF strings >= 1 THEN <<Step("compiler", "token1", "")>> ELSE <<>>
             p4 == IF strings = 2 THEN <<Step("compiler", "token2", "")>> ELSE <<>>
             p5 == IF strings >= 1 THEN AddConstant("fn", "token1") ELSE <<>>
  <2>1. Runs(p1, 1, 1) /\ Runs(p2, 1, 1) /\ Runs(p3, 1, 1) /\ Runs(p4, 1, 1) /\ Runs(p5, 1, 1)
    BY <1>2, <1>4, <1>6
  <2>2. WrenCompile(strings) =
          p1 \o p2 \o p3 \o p4 \o WrenNewFunction("fn") \o <<Step("compiler", "fn", "")>>
             \o p5 \o Grow("fn") \o <<Step("endCompiler", "fn", "")>>
    BY DEF WrenCompile
  <2> HIDE DEF p1, p2, p3, p4, p5
  <2>3. Runs(p1 \o p2 \o p3 \o p4 \o WrenNewFunction("fn") \o <<Step("compiler", "fn", "")>>
               \o p5 \o Grow("fn") \o <<Step("endCompiler", "fn", "")>>, 1, 1)
    BY <1>2, <1>4, <1>6, <2>1, Joined, Zenon
  <2>. QED  BY <2>2, <2>3
<1>8. Runs(CompileInModule(strings), 1, 1)
  BY <1>3, <1>4, <1>5, <1>7, Joined, Zenon DEF CompileInModule
<1>9. Runs(ImportModule(strings), 0, 0)
  BY <1>3, <1>4, <1>5, <1>8, Joined, Zenon DEF ImportModule
<1>10. Runs(<<Step("string", "moduleName", "")>> \o PushRoot("moduleName") \o PopRoot
              \o <<Step("push", "value", "")>>, 0, 0)
  BY <1>3, <1>4, <1>5, Joined, Zenon
<1>11. Runs(<<Step("string", "name", "")>> \o PushRoot("name") \o WrenCompile(strings)
              \o PushRoot("fn") \o <<Step("closure", "closure", "fn")>> \o PopRoot
              \o PopRoot \o PushRoot("closure") \o Grow("closure")
              \o <<Step("fiber", "fiber", "closure")>> \o PopRoot
              \o <<Step("enter", "fiber", "")>>, 0, 0)
  BY <1>3, <1>4, <1>5, <1>7, Joined, Zenon
<1>. QED
  BY <1>9, <1>10, <1>11

\* A C function that returned has popped its roots.
LEMMA NoneLeft ==
  ASSUME FInv, native.code = <<>>
  PROVE  tempRoots = <<>> /\ Len(tempRoots) = 0
<1>1. PICK D \in [1..Len(<<>>) + 1 -> Depths] : D[1] = Len(tempRoots) /\ D[Len(<<>>) + 1] = 0
  BY DEF FInv, Rooted, Runs
<1>2. Len(tempRoots) = 0
  BY <1>1
<1>3. PICK S : tempRoots \in Seq(S)
  BY DEF FInv, Rooted
<1>. QED
  BY <1>2, <1>3

\* A C function begins with locals that name no class it creates.
LEMMA Begins ==
  ASSUME FInv, NEW code, Runs(code, 0, 0), NEW locals, "classObj" \notin DOMAIN locals,
         Starts, Begin(code, locals)
  PROVE  NativeStays
<1>1. native' = [code |-> code, locals |-> locals] /\ native.code = <<>> /\ tempRoots' = tempRoots
  BY DEF Begin, Starts, roots
<1>2. native'.code = code /\ native'.locals = locals
  BY <1>1
<1>3. Len(tempRoots') = 0 /\ \E S : tempRoots' \in Seq(S)
  BY <1>1, NoneLeft DEF FInv, Rooted
<1>4. Rooted'
  BY <1>2, <1>3 DEF Rooted
<1>5. ClassObj' = None
  BY <1>2 DEF ClassObj, Local
<1>. QED
  BY <1>4, <1>5 DEF NativeStays

\* No C function is in progress, or it waits.
LEMMA NativeSame == FInv /\ native' = native /\ tempRoots' = tempRoots => NativeStays
  BY DEF FInv, Rooted, NativeStays, ClassObj, Local

\* One more field of a heap whose objects are still what they were.
LEMMA FieldOf ==
  ASSUME NEW g, HeapKept(g), NEW x, NEW f, NEW v, f \notin {"kind", "class"}
  PROVE  HeapKept([g EXCEPT ![x] = [g[x] EXCEPT ![f] = v]])
<1> DEFINE h == [g EXCEPT ![x] = [g[x] EXCEPT ![f] = v]]
<1>1. DOMAIN h = DOMAIN g /\ DOMAIN g \subseteq Allocated
  BY DEF HeapKept
<1>2. ASSUME NEW o \in DOMAIN g
      PROVE  Kin(heap[o], h[o])
  <2>1. Kin(heap[o], g[o]) /\ "kind" \in DOMAIN g[o]
        /\ (g[o].kind = "foreign" => "class" \in DOMAIN g[o])
    BY DEF HeapKept, Kin
  <2>2. h[o] = g[o] \/ h[o] = [g[o] EXCEPT ![f] = v]
    OBVIOUS
  <2> HIDE DEF h
  <2>3. DOMAIN h[o] = DOMAIN g[o] /\ h[o].kind = g[o].kind
        /\ (g[o].kind = "foreign" => h[o].class = g[o].class)
    BY <2>1, <2>2
  <2>. QED  BY <2>1, <2>3 DEF Kin
<1> HIDE DEF h
<1>3. HeapKept(h)
  BY <1>1, <1>2 DEF HeapKept
<1>. QED
  BY <1>3 DEF h

\* Instructions that allocate nothing.
Settles == next' = next /\ blind' = blind /\ script' = script /\ NativeStays

\* What such an instruction leaves of every object is what a finalizer sees of it.
LEMMA KeptKeeps == FInv /\ Settles /\ HeapKept(heap') => FInv'
  BY Keeps DEF HeapStep, Settles, FInv, FinalizersSeeClass

\* Such an instruction leaves the heap alone.
LEMMA SameKeeps == FInv /\ Settles /\ heap' = heap => FInv'
  BY KeptKeeps, SameHeap

\* Such an instruction writes one field that is not the class.
LEMMA SetKeeps ==
  ASSUME FInv, Settles, NEW x, NEW f, NEW v, f \notin {"kind", "class"},
         heap' = FieldSet(x, f, v)
  PROVE  FInv'
<1>1. HeapKept(FieldSet(x, f, v))
  BY FieldWritten
<1>. QED
  BY <1>1, KeptKeeps

\* Such an instruction writes the stack of the fiber.
LEMMA StackKeeps == \A s : FInv /\ Settles /\ SetStack(s) => FInv'
<1> TAKE s
<1> SUFFICES ASSUME FInv, Settles, SetStack(s) PROVE FInv'
  OBVIOUS
<1>1. heap' = FieldSet(fiber, "stack", s)
  BY DEF SetStack, FieldSet
<1>. QED
  BY <1>1, SetKeeps

\* An instruction allocates an object that is not foreign, or is younger than its
\* class, and stores it on the stack.
LEMMA MakesKeeps ==
  ASSUME FInv, UNCHANGED script, NEW r, NEW s, Makes(r, s), Older(next, r)
  PROVE  FInv'
<1>1. /\ next <= MaxObjects /\ next' = next + 1 /\ blind' = blind /\ native' = native
      /\ tempRoots' = tempRoots /\ heap' = AddedSet(r, fiber, "stack", s)
  BY DEF Makes, AddedSet, roots
<1>2. HeapGrown(AddedSet(r, fiber, "stack", s))
  BY <1>1, AddedAndWritten
<1>3. NativeStays
  BY <1>1, NativeSame
<1>. QED
  BY <1>1, <1>2, <1>3, Keeps DEF HeapStep, FInv, FinalizersSeeClass

\* The instructions that allocate nothing, and those that begin a C function.
LEMMA StartsSettles ==
  FInv /\ Starts /\ UNCHANGED script /\ (NativeStays \/ native' = native) => Settles
  BY NativeSame DEF Starts, Settles, roots

-----------------------------------------------------------------------------
(* Instructions.                                                            *)

\* Variables, fields, upvalues and calls of closures.
LEMMA StacksKeep ==
  FInv /\ UNCHANGED script
    /\ (Load \/ StoreModuleVar \/ Pop \/ (\E i \in DOMAIN Stack : StoreField(i)) \/ CallClosure)
    => FInv'
<1> SUFFICES ASSUME FInv, UNCHANGED script,
                    \/ Load \/ StoreModuleVar \/ Pop \/ CallClosure
                    \/ \E i \in DOMAIN Stack : StoreField(i)
             PROVE  FInv'
  OBVIOUS
<1>0. Settles
  BY StartsSettles DEF Load, StoreModuleVar, Pop, StoreField, CallClosure
<1>1. CASE Load
  BY <1>0, <1>1, StackKeeps DEF Load
<1>2. CASE StoreModuleVar
  <2> DEFINE v == [heap[1].variables EXCEPT ![1] = Top]
  <2>1. heap' = FieldSet(1, "variables", v)
    BY <1>2 DEF StoreModuleVar, FieldSet
  <2> HIDE DEF v
  <2>. QED  BY <1>0, <2>1, SetKeeps
<1>3. CASE Pop
  <2> DEFINE closing == Opens(Len(Stack))
             c == Closed(closing, fiber, 0)
             a == Front(c[fiber].stack)
             g == [c EXCEPT ![fiber] = [c[fiber] EXCEPT !.stack = a]]
             b == g[fiber].openUpvalues \ closing
             h == [g EXCEPT ![fiber] = [g[fiber] EXCEPT !.openUpvalues = b]]
  <2>1. heap' = h
    <3>1. heap' = [c EXCEPT ![fiber].stack = Front(@),
                            ![fiber].openUpvalues = @ \ closing]
      BY <1>3 DEF Pop
    <3>. QED  BY <3>1
  <2>2. HeapKept(c)
    <3>1. \A o \in Allocated : c[o] = heap[o] \/ (DOMAIN c[o] = {"kind", "fiber", "slot", "closed"}
                                                    /\ c[o].kind = "upvalue")
      BY DEF Closed
    <3>2. DOMAIN c = Allocated
      BY DEF Closed
    <3> HIDE DEF c
    <3>3. \A o \in Allocated : Kin(heap[o], c[o])
      BY <3>1 DEF FInv, Older, Kin
    <3>. QED  BY <3>2, <3>3 DEF HeapKept
  <2> HIDE DEF c, a, b
  <2>3. HeapKept(g)
    BY <2>2, FieldOf
  <2> HIDE DEF g
  <2>4. HeapKept(h)
    BY <2>3, FieldOf
  <2>. QED  BY <1>0, <2>1, <2>4, KeptKeeps
<1>4. CASE CallClosure
  BY <1>0, <1>4, StackKeeps DEF CallClosure
<1>5. ASSUME NEW i \in DOMAIN Stack, StoreField(i) PROVE FInv'
  <2> DEFINE v == [heap[Stack[i]].fields EXCEPT ![1] = Top]
  <2>1. heap' = FieldSet(Stack[i], "fields", v)
    BY <1>5 DEF StoreField, FieldSet
  <2> HIDE DEF v
  <2>. QED  BY <1>0, <2>1, SetKeeps
<1>. QED
  BY <1>1, <1>2, <1>3, <1>4, <1>5

\* Classes, instances, foreign objects, closures and fibers are created.  The class
\* of a foreign object is in a slot, so it is there and older.
LEMMA ObjectsKeep ==
  FInv /\ UNCHANGED script
    /\ (Construct \/ FiberNew \/ BindMethod \/ CodeClosure
          \/ (\E foreign \in BOOLEAN : CreateClass(foreign))
          \/ (\E i \in DOMAIN Stack : SetSlotNewForeign(i)))
    => FInv'
<1> SUFFICES ASSUME FInv, UNCHANGED script,
                    \/ Construct \/ FiberNew \/ BindMethod \/ CodeClosure
                    \/ \E foreign \in BOOLEAN : CreateClass(foreign)
                    \/ \E i \in DOMAIN Stack : SetSlotNewForeign(i)
             PROVE  FInv'
  OBVIOUS
<1>1. CASE Construct
  <2>1. Older(next, NewInstance(Top))
    BY DEF NewInstance, Older
  <2>. QED  BY <1>1, <2>1, MakesKeeps DEF Construct
<1>2. CASE FiberNew
  <2>1. Older(next, NewFiber(Top))
    BY DEF NewFiber, Older
  <2>. QED  BY <1>2, <2>1, MakesKeeps DEF FiberNew
<1>3. CASE BindMethod
  <2>0. Settles
    BY <1>3, StartsSettles DEF BindMethod
  <2> DEFINE a == heap[Top].methods \cup {Stack[Len(Stack) - 1]}
             g == [heap EXCEPT ![Top] = [heap[Top] EXCEPT !.methods = a]]
             b == Front(Front(g[fiber].stack))
             h == [g EXCEPT ![fiber] = [g[fiber] EXCEPT !.stack = b]]
  <2>1. heap' = h
    BY <1>3 DEF BindMethod
  <2>2. g = FieldSet(Top, "methods", a)
    BY DEF FieldSet
  <2> HIDE DEF a, b, g
  <2>3. HeapKept(g)
    BY <2>2, FieldWritten
  <2>4. HeapKept(h)
    BY <2>3, FieldOf
  <2>. QED  BY <2>0, <2>1, <2>4, KeptKeeps
<1>4. CASE CodeClosure
  <2>1. NativeStays
    BY <1>4, SmallPrograms, Begins DEF CodeClosure
  <2>. QED  BY <1>4, <2>1, StartsSettles, SameKeeps DEF CodeClosure
<1>5. ASSUME NEW foreign \in BOOLEAN, CreateClass(foreign) PROVE FInv'
  <2> DEFINE rest == IF foreign THEN BindForeignClass ELSE <<>>
             code == WrenNewClass \o <<Step("top", "classObj", "")>> \o rest
             locals == [superclass |-> Top, classClass |-> None, name |-> None]
  <2>1. Begin(code, locals) /\ SetStack(Append(Front(Stack), None)) /\ Starts
    BY <1>5 DEF CreateClass
  <2>2. Runs(rest, 0, 0)
    BY ClassPrograms, Two, Parts
  <2>3. "classObj" \notin DOMAIN locals
    OBVIOUS
  <2> HIDE DEF rest, locals
  <2>4. Runs(code, 0, 0)
    BY <2>2, ClassPrograms, Joined, Zenon
  <2> HIDE DEF code
  <2>5. NativeStays
    BY <2>1, <2>3, <2>4, Begins
  <2>. QED  BY <2>1, <2>5, StartsSettles, StackKeeps
<1>6. ASSUME NEW i \in DOMAIN Stack, SetSlotNewForeign(i) PROVE FInv'
  <2>1. Stack[i] \in 1..next - 1
    BY <1>6 DEF SetSlotNewForeign, Is, FInv, Numbered
  <2>2. Older(next, NewForeign(Stack[i]))
    BY <2>1 DEF NewForeign, Older
  <2>. QED  BY <1>6, <2>2, MakesKeeps DEF SetSlotNewForeign
<1>. QED
  BY <1>1, <1>2, <1>3, <1>4, <1>5, <1>6

\* Fibers are switched.
LEMMA FibersKeep ==
  FInv /\ UNCHANGED script /\ (FiberCall \/ FiberYield \/ FiberReturn) => FInv'
<1> SUFFICES ASSUME FInv, UNCHANGED script, FiberCall \/ FiberYield \/ FiberReturn
             PROVE  FInv'
  OBVIOUS
<1>0. Settles
  BY NativeSame DEF FiberCall, FiberYield, FiberReturn, Switches, Settles
<1>1. CASE FiberCall
  <2>1. heap' = FieldSet(Top, "caller", fiber)
    BY <1>1 DEF FiberCall, FieldSet
  <2>. QED  BY <1>0, <2>1, SetKeeps
<1>2. CASE FiberYield
  <2> DEFINE caller == heap[fiber].caller
             a == Append(Front(heap[caller].stack), Top)
             g == FieldSet(caller, "stack", a)
             h == [g EXCEPT ![fiber] = [g[fiber] EXCEPT !["caller"] = None]]
  <2>1. heap' = h
    BY <1>2 DEF FiberYield, Gives, FieldSet
  <2> HIDE DEF a
  <2>2. HeapKept(g)
    BY FieldWritten
  <2> HIDE DEF g
  <2>3. HeapKept(h)
    BY <2>2, FieldOf
  <2>. QED  BY <1>0, <2>1, <2>3, KeptKeeps
<1>3. CASE FiberReturn
  <2> DEFINE caller == heap[fiber].caller
             open == heap[fiber].openUpvalues
             c == Closed(open, fiber, 0)
             a == Append(Front(heap[caller].stack), Top)
             g == FieldSet(caller, "stack", a)
             b(o) == [heap[o] EXCEPT !.stack = <<>>, !.frames = <<>>,
                                     !.openUpvalues = {}, !.caller = None]
  <2>1. DOMAIN heap' = Allocated
    BY <1>3 DEF FiberReturn
  <2>2. \A o \in Allocated : heap'[o] \in {c[o], b(o), g[o], heap[o]}
    BY <1>3 DEF FiberReturn, Gives, FieldSet
  <2>3. \A o \in Allocated : c[o] = heap[o] \/ (DOMAIN c[o] = {"kind", "fiber", "slot", "closed"}
                                                  /\ c[o].kind = "upvalue")
    BY DEF Closed
  <2> HIDE DEF a, c, open
  <2>4. HeapKept(g) /\ DOMAIN g = Allocated
    BY FieldWritten DEF FieldSet, Allocated
  <2>5. \A o \in Allocated : Kin(heap[o], b(o))
    BY DEF FInv, Older, Kin
  <2> HIDE DEF g, b
  <2>6. \A o \in Allocated : Kin(heap[o], c[o]) /\ Kin(heap[o], heap[o]) /\ Kin(heap[o], g[o])
    BY <2>3, <2>4 DEF FInv, Older, Kin, HeapKept
  <2>7. HeapKept(heap')
    <3>1. ASSUME NEW o \in Allocated PROVE Kin(heap[o], heap'[o])
      BY <2>2, <2>5, <2>6
    <3>. QED  BY <2>1, <3>1 DEF HeapKept
  <2>. QED  BY <1>0, <2>7, KeptKeeps
<1>. QED
  BY <1>1, <1>2, <1>3

\* The host and the primitives of lists and maps.
LEMMA SlotsKeep ==
  ASSUME FInv, UNCHANGED script, NEW i \in DOMAIN Stack, NEW j \in DOMAIN Stack,
         NEW k \in DOMAIN Stack,
         \/ SetSlot(i) \/ RemoveFromList(i) \/ RemoveMapValue(i)
         \/ InsertInList(i, j) \/ GetListElement(i, j) \/ SetListElement(i, j)
         \/ GetMapValue(i, j) \/ SetMapValue(i, j, k)
  PROVE  FInv'
<1>1. CASE SetSlot(i)
  <2>1. Older(next, NewString) /\ Older(next, NewList) /\ Older(next, NewMap)
    BY DEF NewString, NewList, NewMap, Older
  <2>2. CASE Starts /\ UNCHANGED native /\ SetStack(Slot(i, None))
    BY <2>2, StartsSettles, StackKeeps
  <2>3. CASE \E r \in {NewString, NewList, NewMap} : Makes(r, Slot(i, next))
    BY <2>1, <2>3, MakesKeeps
  <2>. QED  BY <1>1, <2>2, <2>3 DEF SetSlot
<1>2. CASE RemoveFromList(i)
  <2> DEFINE locals == [removed |-> heap[Stack[i]].elements[1]]
  <2>1. Starts /\ Begin(ListRemoveAt, locals) /\ heap' = FieldSet(Stack[i], "elements", <<>>)
    BY <1>2 DEF RemoveFromList, FieldSet
  <2>2. "classObj" \notin DOMAIN locals
    OBVIOUS
  <2> HIDE DEF locals
  <2>3. NativeStays
    BY <2>1, <2>2, SmallPrograms, Begins
  <2>. QED  BY <2>1, <2>3, StartsSettles, SetKeeps
<1>3. CASE RemoveMapValue(i)
  <2> DEFINE locals == [value |-> heap[Stack[i]].entries[1].value]
  <2>1. Starts /\ Begin(MapRemoveKey, locals) /\ heap' = FieldSet(Stack[i], "entries", <<>>)
    BY <1>3 DEF RemoveMapValue, FieldSet
  <2>2. "classObj" \notin DOMAIN locals
    OBVIOUS
  <2> HIDE DEF locals
  <2>3. NativeStays
    BY <2>1, <2>2, SmallPrograms, Begins
  <2>. QED  BY <2>1, <2>3, StartsSettles, SetKeeps
<1>4. CASE InsertInList(i, j)
  <2>1. heap' = FieldSet(Stack[i], "elements", <<Stack[j]>>)
    BY <1>4 DEF InsertInList, FieldSet
  <2>2. Settles
    BY <1>4, StartsSettles DEF InsertInList
  <2>. QED  BY <2>1, <2>2, SetKeeps
<1>5. CASE GetListElement(i, j)
  BY <1>5, StartsSettles, StackKeeps DEF GetListElement
<1>6. CASE SetListElement(i, j)
  <2> DEFINE v == [heap[Stack[i]].elements EXCEPT ![1] = Stack[j]]
  <2>1. heap' = FieldSet(Stack[i], "elements", v)
    BY <1>6 DEF SetListElement, FieldSet
  <2>2. Settles
    BY <1>6, StartsSettles DEF SetListElement
  <2> HIDE DEF v
  <2>. QED  BY <2>1, <2>2, SetKeeps
<1>7. CASE GetMapValue(i, j)
  BY <1>7, StartsSettles, StackKeeps DEF GetMapValue
<1>8. CASE SetMapValue(i, j, k)
  <2> DEFINE v == <<[key |-> Stack[j], value |-> Stack[k]]>>
  <2>1. heap' = FieldSet(Stack[i], "entries", v)
    BY <1>8 DEF SetMapValue, FieldSet
  <2>2. Settles
    BY <1>8, StartsSettles DEF SetMapValue
  <2> HIDE DEF v
  <2>. QED  BY <2>1, <2>2, SetKeeps
<1>. QED
  BY <1>1, <1>2, <1>3, <1>4, <1>5, <1>6, <1>7, <1>8

\* Any of them on any slots.
LEMMA ContainersKeep == FInv /\ UNCHANGED script /\ Containers => FInv'
  BY SlotsKeep DEF Containers

\* Ranges, handles, variables of modules, imports and sources.
LEMMA HostKeeps == FInv /\ UNCHANGED script /\ (Ranges \/ Handles \/ Sources) => FInv'
<1> SUFFICES ASSUME FInv, UNCHANGED script, Ranges \/ Handles \/ Sources
             PROVE  FInv'
  OBVIOUS
<1>0. ASSUME NEW code, Runs(code, 0, 0), NEW locals, "classObj" \notin DOMAIN locals,
             Starts, Begin(code, locals), heap' = heap
      PROVE  FInv'
  BY <1>0, Begins, StartsSettles, SameKeeps
<1>1. "classObj" \notin DOMAIN <<>>
  OBVIOUS
<1>2. CASE RangeString
  BY <1>0, <1>1, <1>2, SmallPrograms DEF RangeString
<1>3. CASE MakeCallHandle
  BY <1>0, <1>1, <1>3, SmallPrograms DEF MakeCallHandle
<1>4. ASSUME NEW k \in DOMAIN handles, ReleaseHandle(k) PROVE FInv'
  BY <1>4, NativeSame, SameKeeps DEF ReleaseHandle, Settles
<1>5. ASSUME NEW i \in DOMAIN Stack, GetSlotHandle(i) PROVE FInv'
  <2> DEFINE locals == [value |-> Stack[i]]
  <2>1. "classObj" \notin DOMAIN locals /\ Begin(WrenMakeHandle("value"), locals)
    BY <1>5 DEF GetSlotHandle
  <2> HIDE DEF locals
  <2>. QED  BY <1>0, <1>5, <2>1, SmallPrograms DEF GetSlotHandle
<1>6. ASSUME NEW i \in DOMAIN Stack, SetSlotHandle(i) PROVE FInv'
  BY <1>6, StartsSettles, StackKeeps DEF SetSlotHandle
<1>7. CASE GetVariable
  <2> DEFINE locals == [value |-> heap[1].variables[1]]
             code == <<Step("string", "moduleName", "")>> \o PushRoot("moduleName") \o PopRoot
                       \o <<Step("push", "value", "")>>
  <2>1. "classObj" \notin DOMAIN locals /\ Begin(code, locals) /\ Starts /\ heap' = heap
    BY <1>7 DEF GetVariable
  <2>2. Runs(code, 0, 0)
    <3>1. 0 \in 0..2
      OBVIOUS
    <3>. QED  BY <3>1, SourcePrograms
  <2> HIDE DEF locals, code
  <2>. QED  BY <1>0, <2>1, <2>2
<1>8. ASSUME NEW strings \in 0..2, Import(strings) PROVE FInv'
  BY <1>0, <1>1, <1>8, SourcePrograms DEF Import
<1>9. ASSUME NEW strings \in 0..2, Interpret(strings) PROVE FInv'
  BY <1>0, <1>1, <1>9, SourcePrograms DEF Interpret
<1>. QED
  BY <1>2, <1>3, <1>4, <1>5, <1>6, <1>7, <1>8, <1>9 DEF Ranges, Handles, Sources

-----------------------------------------------------------------------------
(* Freeing.                                                                 *)

\* The class of a foreign object is not among what is freed before it.
LEMMA NoneBlind ==
  ASSUME FInv, NEW freed \in SUBSET Allocated, Finalizes(freed)
  PROVE  FinalizersSeeClass'
<1>1. ASSUME NEW o \in freed, heap[o].kind = "foreign", heap[o].class \in FreedBefore(o, freed)
      PROVE  FALSE
  <2>1. o \in 1..next - 1 /\ next \in Nat /\ heap[o].class \in 1..o - 1
    BY <1>1 DEF FInv, Numbered, Older
  <2>2. heap[o].class > o
    BY <1>1 DEF FreedBefore
  <2>. QED  BY <2>1, <2>2
<1>2. ~(\E o \in freed : heap[o].kind = "foreign" /\ heap[o].class \in FreedBefore(o, freed))
  BY <1>1
<1>3. ~blind
  BY DEF FInv, FinalizersSeeClass
<1>. QED
  BY <1>2, <1>3, Zenon DEF Finalizes, FinalizersSeeClass

\* What is left after a collection is what it was.
LEMMA FreesKeep ==
  ASSUME FInv, UNCHANGED <<script, next, tempRoots, native>>, NEW freed \in SUBSET Allocated,
         heap' = Without(freed), Finalizes(freed)
  PROVE  FInv'
<1>1. HeapKept(Without(freed))
  BY DEF Without, HeapKept, FInv, Older, Kin
<1>2. FinalizersSeeClass' /\ NativeStays
  BY NoneBlind, NativeSame
<1>. QED
  BY <1>1, <1>2, Keeps DEF HeapStep

\* A collection, and wrenFreeVM().
LEMMA CollectKeeps == FInv /\ UNCHANGED script /\ (CollectGarbage \/ FreeVM) => FInv'
<1> SUFFICES ASSUME FInv, UNCHANGED script, CollectGarbage \/ FreeVM
             PROVE  FInv'
  OBVIOUS
<1>1. CASE CollectGarbage
  <2>1. PICK freed \in SUBSET Allocated : heap' = Without(freed) /\ Finalizes(freed)
    BY <1>1, Zenon DEF CollectGarbage
  <2>. QED  BY <1>1, <2>1, FreesKeep DEF CollectGarbage, roots
<1>2. CASE FreeVM
  BY <1>2, FreesKeep DEF FreeVM
<1>. QED
  BY <1>1, <1>2

-----------------------------------------------------------------------------

\* The script starts with no foreign object.
LEMMA Started == Init => FInv
<1> SUFFICES ASSUME Init PROVE FInv
  OBVIOUS
<1>1. PICK foreign \in BOOLEAN :
        heap = <<NewModule(None), [NewFiber(None) EXCEPT !.stack = <<None, 4>>, !.root = TRUE],
                 NewSingleClass(None),
                 [NewSingleClass(None) EXCEPT !.class = 3, !.foreign = foreign]>>
  BY DEF Init
<1>2. DOMAIN heap = 1..4
  BY <1>1
<1>3. Numbered
  BY <1>2, HeapAssumption DEF Init, Numbered, MaxObjects, Allocated
<1>4. ASSUME NEW o \in Allocated PROVE Older(o, heap[o])
  <2>1. o = 1 \/ o = 2 \/ o = 3 \/ o = 4
    BY <1>2 DEF Allocated
  <2>2. /\ heap[1] = NewModule(None)
        /\ heap[2] = [NewFiber(None) EXCEPT !.stack = <<None, 4>>, !.root = TRUE]
        /\ heap[3] = NewSingleClass(None)
        /\ heap[4] = [NewSingleClass(None) EXCEPT !.class = 3, !.foreign = foreign]
    BY <1>1
  <2>3. heap[1].kind = "module" /\ "kind" \in DOMAIN heap[1]
    BY <2>2 DEF NewModule
  <2>4. heap[2].kind = "fiber" /\ "kind" \in DOMAIN heap[2]
    BY <2>2 DEF NewFiber
  <2>5. heap[3].kind = "class" /\ "kind" \in DOMAIN heap[3]
    BY <2>2 DEF NewSingleClass
  <2>6. heap[4].kind = "class" /\ "kind" \in DOMAIN heap[4]
    BY <2>2 DEF NewSingleClass
  <2>. QED  BY <2>1, <2>3, <2>4, <2>5, <2>6 DEF Older
<1>5. Creating
  <2>1. native.code = <<>> /\ native.locals = <<>>
    BY DEF Init, Idle
  <2>2. ClassObj = None
    BY <2>1 DEF ClassObj, Local
  <2>3. None \notin Allocated
    <3>1. /\ script.objects \in Nat /\ script.objects >= 4
          /\ None \notin 1..script.objects
      BY <1>3, HeapAssumption DEF Numbered
    <3>2. 1..4 \subseteq 1..script.objects
      BY <3>1
    <3>. QED  BY <1>2, <3>1, <3>2 DEF Allocated
  <2>. QED  BY <2>1, <2>2, <2>3 DEF Creating
<1>6. Rooted
  <2>1. native.code = <<>> /\ tempRoots = <<>>
    BY DEF Init, Idle
  <2>2. tempRoots \in Seq({}) /\ Len(tempRoots) = 0
    BY <2>1
  <2>3. Runs(<<>>, 0, 0)
    BY Two, Parts
  <2>. QED  BY <2>1, <2>2, <2>3 DEF Rooted
<1>. QED
  BY <1>3, <1>4, <1>5, <1>6 DEF FInv, Init, FinalizersSeeClass

\* Every step keeps the invariant.
LEMMA StepKeeps == FInv /\ [Next]_vars => FInv'
<1> SUFFICES ASSUME FInv, [Next]_vars PROVE FInv'
  OBVIOUS
<1>1. CASE UNCHANGED vars
  <2>1. Settles /\ heap' = heap
    BY <1>1, NativeSame DEF vars, roots, Settles
  <2>. QED  BY <2>1, SameKeeps
<1>2. CASE Next
  <2>1. UNCHANGED script
    BY <1>2 DEF Next
  <2>2. CASE NativeStep
    BY <2>1, <2>2, AllocateKeeps, ReallocateKeeps, WriteKeeps, PushKeeps, CaptureUpvalueKeeps
       DEF NativeStep
  <2>3. CASE CollectGarbage \/ FreeVM
    BY <2>1, <2>3, CollectKeeps
  <2>4. CASE Load \/ StoreModuleVar \/ Pop
    BY <2>1, <2>4, StacksKeep
  <2>5. CASE Classes \/ Closures
    BY <2>1, <2>5, StacksKeep, ObjectsKeep DEF Classes, Closures
  <2>6. CASE Fibers
    BY <2>1, <2>6, ObjectsKeep, FibersKeep DEF Fibers
  <2>7. CASE Containers
    BY <2>1, <2>7, ContainersKeep
  <2>8. CASE Ranges \/ Handles \/ Sources
    BY <2>1, <2>8, HostKeeps
  <2>. QED  BY <1>2, <2>2, <2>3, <2>4, <2>5, <2>6, <2>7, <2>8 DEF Next
<1>. QED
  BY <1>1, <1>2

\* Whatever is collected and whenever, and when the machine is freed, the
\* finalizer of an object is found through a class that is still there.
THEOREM FinalizersCorrect == Spec => []FinalizersSeeClass
<1>1. FInv => FinalizersSeeClass
  BY DEF FInv
<1>. QED
  BY <1>1, Started, StepKeeps, PTL DEF Spec

\* Every C function pops the temporary roots it pushes and no others, whatever it
\* calls in between, and the array they are in is large enough.
THEOREM RootsCorrect == Spec => []RootsFit
<1>1. ASSUME FInv PROVE RootsFit
  <2>1. Len(tempRoots) <= WREN_MAX_TEMP_ROOTS
    <3>1. PICK D \in [1..Len(native.code) + 1 -> Depths] : D[1] = Len(tempRoots)
      BY <1>1 DEF FInv, Rooted, Runs
    <3>2. Len(native.code) \in Nat
      BY <1>1 DEF FInv, Rooted, Runs
    <3>3. Len(tempRoots) \in Depths
      BY <3>1, <3>2
    <3>4. ASSUME NEW d \in Depths PROVE d <= WREN_MAX_TEMP_ROOTS
      BY DEF Depths, WREN_MAX_TEMP_ROOTS
    <3>. QED  BY <3>3, <3>4
  <2>2. ASSUME Doing("unroot") PROVE tempRoots # <<>>
    <3>1. PICK q : Deepens("unroot", Len(tempRoots), q)
      BY <1>1, <2>2, NowIs DEF Doing
    <3>2. Len(tempRoots) # 0
      BY <3>1 DEF Deepens, Depths, WREN_MAX_TEMP_ROOTS
    <3>. QED  BY <3>2
  <2>3. native.code = <<>> => tempRoots = <<>>
    BY <1>1, NoneLeft
  <2>. QED  BY <2>1, <2>2, <2>3 DEF RootsFit
<1>. QED
  BY <1>1, Started, StepKeeps, PTL DEF Spec

-----------------------------------------------------------------------------
(* What keeps the locals of a C function, along its steps.                  *)

\* Between two steps of a C function some of its locals are temporary roots, some are
\* kept because a stack, a handle, a compiler or the variable of the module has them
\* too, some are bare and some are dead: no later step names them.  The others
\* are not set yet.  A source is being compiled, or none is.  Some locals are live: a
\* later step names them.  A class has been made, it is linked to its metaclass, or
\* neither.
Stages == {"none", "made", "linked"}

States ==
  [roots : Seq(LocalNames), kept : SUBSET LocalNames, bare : SUBSET LocalNames,
   dead : SUBSET LocalNames, source : BOOLEAN, live : SUBSET LocalNames, stage : Stages]

StateOf(roots_, kept, bare, dead, source, live, stage) ==
  [roots |-> roots_, kept |-> kept, bare |-> bare, dead |-> dead, source |-> source,
   live |-> live, stage |-> stage]

State(roots_, kept, bare, dead, source) ==
  [roots |-> roots_, kept |-> kept, bare |-> bare, dead |-> dead, source |-> source,
   live |-> {}, stage |-> "none"]

Set(p) == ToSet(p.roots) \cup p.kept \cup p.bare \cup Unrooted

Makers == {"string", "class", "fn", "closure", "module", "fiber", "upvalue"}
NeverMade == {"superclass", "classClass"}

\* Where a value that is kept may be found after a step.
Keeping(s, p) ==
  IF s.do \in {"compiler", "handle", "push"} THEN p.kept \cup {s.x}
  ELSE IF s.do \in {"rehandle", "top"} THEN {s.x}
  ELSE IF s.do \in {"endCompiler", "enter"} THEN {}
  ELSE p.kept

\* A step that allocates finds nothing bare, and what it allocates is.
Allots(s, p, q) ==
  LET made == IF s.do \in Makers THEN {s.x} ELSE {}
  IN /\ s.do \in Allocating => p.bare = {}
     /\ made \cap (ToSet(p.roots) \cup q.kept \cup NeverMade) = {}
     /\ s.do \in Makers => (s.do = "upvalue" <=> s.x = "upvalue")
          /\ (s.do = "fiber" <=> s.x = "fiber")
     /\ Set(p) \cup made \subseteq Set(q) \cup q.dead
     /\ {"upvalue", "fiber"} \cap q.bare \subseteq p.bare \cup made

\* A step pushes a temporary root, pops one, or leaves them alone.
Restacks(s, p, q) ==
  /\ s.do = "root" => q.roots = Append(p.roots, s.x)
  /\ s.do = "unroot" => /\ Len(p.roots) = Len(q.roots) + 1
                        /\ \A i \in 1..Len(q.roots) : q.roots[i] = p.roots[i]
  /\ s.do \notin {"root", "unroot"} => q.roots = p.roots

\* A step that needs a certain object finds it, and is told where a value is kept.
Employs(s, p, q) ==
  /\ s.do \in {"push", "top"} => s.x \notin Unrooted
  /\ s.do = "capture" => s.y = "upvalue" /\ "upvalue" \in p.bare
  /\ s.do = "enter" => s.x = "fiber" /\ "fiber" \in p.bare /\ "fiber" \in q.dead
  /\ s.do = "methods" => s.y \in NeverMade
  /\ q.kept \subseteq Keeping(s, p)
  /\ q.source = (IF s.do = "compiler" THEN TRUE
                 ELSE IF s.do = "endCompiler" THEN FALSE ELSE p.source)

\* When a step allocates, a temporary root is a string, or a local that is named by this
\* step or a later one, or the metaclass of a class that is.
StringNames == {"metaclassName", "name", "from", "to"}

Lasts(s, p, q) ==
  /\ p.live \subseteq {s.x, s.y} \cup q.live
  /\ s.do \in Allocating =>
       /\ ToSet(p.roots) \subseteq
            {s.x, s.y} \cup q.live \cup StringNames
              \cup IF p.stage = "linked" THEN {"metaclass"} ELSE {}
       /\ p.stage = "linked" => "classObj" \in {s.x, s.y} \cup q.live
  /\ s.do \in Makers /\ s.x \in StringNames => s.do = "string"
  /\ q.stage = "made" =>
       IF s.do = "class" THEN s.x = "classObj"
       ELSE p.stage = "made" /\ (s.do \in Makers => s.x # "classObj")
  /\ q.stage = "linked" =>
       IF s.do = "metaclass" THEN p.stage = "made" /\ s.y = "metaclass"
       ELSE p.stage = "linked" /\ s.do \notin Makers /\ (s.do = "root" => s.x # "metaclass")

Follows(s, p, q) ==
  /\ s.x \notin p.dead /\ s.y \notin p.dead
  /\ Allots(s, p, q) /\ Restacks(s, p, q) /\ Employs(s, p, q) /\ Lasts(s, p, q)

\* The steps of code lead from p to q.  What is dead stays so.
Path(code, p, q) ==
  /\ code \in Seq(Steps)
  /\ \E S \in [1..Len(code) + 1 -> States] :
       /\ S[1] = p /\ S[Len(code) + 1] = q
       /\ \A k \in 1..Len(code) : Follows(code[k], S[k], S[k + 1])
       /\ \A j, k \in 1..Len(code) + 1 : j <= k => S[j].dead \subseteq S[k].dead

\* No steps.
LEMMA PathNone ==
  ASSUME NEW p \in States
  PROVE  Path(<<>>, p, p)
<1> DEFINE S == [k \in 1..1 |-> p]
           code == <<>>
<1>1. code \in Seq(Steps) /\ Len(code) = 0
  OBVIOUS
<1>2. S \in [1..1 -> States] /\ S[1] = p
  OBVIOUS
<1>3. 1..Len(code) + 1 = 1..1 /\ 1..Len(code) = {} /\ Len(code) + 1 = 1 /\ 1..1 = {1}
  BY <1>1
<1> HIDE DEF S, code
<1>4. Path(code, p, p)
  BY <1>1, <1>2, <1>3 DEF Path
<1>. QED
  BY <1>4 DEF code

\* One step.
LEMMA PathStep ==
  ASSUME NEW s \in Steps, NEW p \in States, NEW q \in States, Follows(s, p, q),
         p.dead \subseteq q.dead
  PROVE  Path(<<s>>, p, q)
<1> DEFINE S == [k \in 1..2 |-> IF k = 1 THEN p ELSE q]
           code == <<s>>
<1>1. code \in Seq(Steps) /\ Len(code) = 1 /\ code[1] = s
  OBVIOUS
<1>2. S \in [1..2 -> States] /\ S[1] = p /\ S[2] = q
  OBVIOUS
<1>3. 1..Len(code) + 1 = 1..2 /\ 1..Len(code) = {1} /\ Len(code) + 1 = 2 /\ 1..2 = {1, 2}
  BY <1>1
<1> HIDE DEF S, code
<1>4. \A k \in 1..Len(code) : Follows(code[k], S[k], S[k + 1])
  BY <1>1, <1>2, <1>3
<1>5. \A j, k \in 1..Len(code) + 1 : j <= k => S[j].dead \subseteq S[k].dead
  <2>1. \A j, k \in 1..2 : j <= k => (j = 1 /\ k = 2) \/ j = k
    OBVIOUS
  <2>. QED  BY <1>2, <1>3, <2>1
<1>6. Path(code, p, q)
  BY <1>1, <1>2, <1>3, <1>4, <1>5 DEF Path
<1>. QED
  BY <1>6 DEF code

\* Calls one after the other.
LEMMA PathJoined ==
  ASSUME NEW s, NEW t, NEW p, NEW q, NEW r, Path(s, p, q), Path(t, q, r)
  PROVE  Path(s \o t, p, r)
<1>1. PICK D \in [1..Len(s) + 1 -> States] :
        /\ D[1] = p /\ D[Len(s) + 1] = q
        /\ \A k \in 1..Len(s) : Follows(s[k], D[k], D[k + 1])
        /\ \A j, k \in 1..Len(s) + 1 : j <= k => D[j].dead \subseteq D[k].dead
  BY DEF Path
<1>2. PICK E \in [1..Len(t) + 1 -> States] :
        /\ E[1] = q /\ E[Len(t) + 1] = r
        /\ \A k \in 1..Len(t) : Follows(t[k], E[k], E[k + 1])
        /\ \A j, k \in 1..Len(t) + 1 : j <= k => E[j].dead \subseteq E[k].dead
  BY DEF Path
<1>3. s \in Seq(Steps) /\ t \in Seq(Steps)
  BY DEF Path
<1> DEFINE m == Len(s)
           n == Len(t)
           u == s \o t
           F == [k \in 1..m + n + 1 |-> IF k <= m THEN D[k] ELSE E[k - m]]
<1>4. m \in Nat /\ n \in Nat
  BY <1>3
<1>5. /\ u \in Seq(Steps) /\ Len(u) = m + n
      /\ \A k \in 1..m + n : u[k] = IF k <= m THEN s[k] ELSE t[k - m]
  BY <1>3, ConcatProperties
<1>6. D \in [1..m + 1 -> States] /\ D[m + 1] = q /\ E \in [1..n + 1 -> States] /\ E[n + 1] = r
  BY <1>1, <1>2
<1>7. \A k \in 1..m : Follows(s[k], D[k], D[k + 1])
  BY <1>1
<1>8. \A k \in 1..n : Follows(t[k], E[k], E[k + 1])
  BY <1>2
<1>9. \A j, k \in 1..m + 1 : j <= k => D[j].dead \subseteq D[k].dead
  BY <1>1
<1>10. \A j, k \in 1..n + 1 : j <= k => E[j].dead \subseteq E[k].dead
  BY <1>2
<1>11. D[1] = p /\ E[1] = q
  BY <1>1, <1>2
<1> HIDE DEF m, n, u
<1>12. \A k \in 1..m + n + 1 : /\ k <= m => k \in 1..m + 1 /\ F[k] = D[k]
                               /\ k > m => k - m \in 1..n + 1 /\ F[k] = E[k - m]
                               /\ k = m + 1 => F[k] = q
  BY <1>4, <1>11
<1>13. F \in [1..m + n + 1 -> States]
  <2>1. ASSUME NEW k \in 1..m + n + 1, k <= m PROVE D[k] \in States
    <3>1. k \in 1..m + 1
      BY <1>4, <2>1
    <3>. QED  BY <1>6, <3>1
  <2>2. ASSUME NEW k \in 1..m + n + 1, ~(k <= m) PROVE E[k - m] \in States
    <3>1. k - m \in 1..n + 1
      BY <1>4, <2>2
    <3>. QED  BY <1>6, <3>1
  <2>. QED  BY <2>1, <2>2
<1>14. F[1] = p /\ F[m + n + 1] = r
  <2>1. 1 \in 1..m + n + 1 /\ m + n + 1 \in 1..m + n + 1 /\ ~(m + n + 1 <= m)
        /\ (m + n + 1) - m = n + 1
    BY <1>4
  <2>2. F[m + n + 1] = r
    BY <1>6, <2>1
  <2>3. F[1] = p
    <3>1. CASE 1 <= m
      BY <1>11, <2>1, <3>1
    <3>2. CASE m = 0
      <4>1. F[1] = E[1] /\ D[1] = q
        BY <1>6, <2>1, <3>2
      <4>. QED  BY <1>11, <4>1
    <3>. QED  BY <1>4, <3>1, <3>2
  <2>. QED  BY <2>2, <2>3
<1>15. ASSUME NEW k \in 1..m + n
       PROVE  Follows(u[k], F[k], F[k + 1])
  <2>1. k \in 1..m + n + 1 /\ k + 1 \in 1..m + n + 1 /\ k \in Int
    BY <1>4
  <2>2. CASE k < m
    <3>1. k \in 1..m /\ k <= m /\ k + 1 <= m
      BY <1>4, <2>1, <2>2
    <3>2. F[k] = D[k] /\ F[k + 1] = D[k + 1] /\ u[k] = s[k]
      BY <1>5, <2>1, <3>1
    <3>. QED  BY <1>7, <3>1, <3>2
  <2>3. CASE k = m
    <3>1. k \in 1..m /\ k <= m /\ k + 1 = m + 1
      BY <1>4, <2>1, <2>3
    <3>2. F[k] = D[k] /\ F[k + 1] = q /\ u[k] = s[k]
      BY <1>5, <1>12, <2>1, <3>1
    <3>3. F[k + 1] = D[k + 1]
      BY <1>6, <3>1, <3>2
    <3>. QED  BY <1>7, <3>1, <3>2, <3>3
  <2>4. CASE k > m
    <3>1. k - m \in 1..n /\ ~(k <= m) /\ ~(k + 1 <= m) /\ (k + 1) - m = (k - m) + 1
      BY <1>4, <2>1, <2>4
    <3>2. F[k] = E[k - m] /\ F[k + 1] = E[(k - m) + 1] /\ u[k] = t[k - m]
      BY <1>5, <2>1, <3>1
    <3>. QED  BY <1>8, <3>1, <3>2
  <2>. QED  BY <1>4, <2>1, <2>2, <2>3, <2>4
<1>16. ASSUME NEW j \in 1..m + n + 1, NEW k \in 1..m + n + 1, j <= k
       PROVE  F[j].dead \subseteq F[k].dead
  <2>1. j \in Int /\ k \in Int /\ m + 1 \in 1..m + 1 /\ 1 \in 1..n + 1
    BY <1>4
  <2>2. CASE k <= m
    <3>1. j <= m
      BY <1>4, <1>16, <2>1, <2>2
    <3>. QED  BY <1>9, <1>12, <1>16, <2>2, <3>1
  <2>3. CASE j > m
    <3>1. k > m /\ j - m <= k - m
      BY <1>4, <1>16, <2>1, <2>3
    <3>. QED  BY <1>10, <1>12, <1>16, <2>3, <3>1
  <2>4. CASE j <= m /\ k > m
    <3>1. F[j] = D[j] /\ j \in 1..m + 1 /\ F[k] = E[k - m] /\ k - m \in 1..n + 1
      BY <1>12, <2>4
    <3>2. j <= m + 1 /\ 1 <= k - m
      BY <1>4, <2>1, <2>4, <3>1
    <3>3. F[j].dead \subseteq q.dead
      BY <1>6, <1>9, <2>1, <3>1, <3>2
    <3>4. q.dead \subseteq F[k].dead
      BY <1>10, <1>11, <2>1, <3>1, <3>2
    <3>. QED  BY <3>3, <3>4
  <2>. QED  BY <1>4, <2>1, <2>2, <2>3, <2>4
<1> HIDE DEF F
<1>17. Path(u, p, r)
  BY <1>4, <1>5, <1>13, <1>14, <1>15, <1>16 DEF Path
<1>. QED
  BY <1>17 DEF u

\* The step a C function is at, and those after it.
LEMMA PathNow ==
  ASSUME NEW code, NEW p, NEW q, Path(code, p, q), code # <<>>
  PROVE  /\ Head(code) \in Steps /\ p \in States
         /\ \E r \in States : /\ Follows(Head(code), p, r) /\ p.dead \subseteq r.dead
                              /\ Path(Tail(code), r, q)
<1> DEFINE rest == Tail(code)
           n == Len(code)
<1>1. code \in Seq(Steps) /\ code # <<>>
  BY DEF Path
<1>2. /\ Head(code) \in Steps /\ Head(code) = code[1]
      /\ rest \in Seq(Steps) /\ Len(rest) = n - 1 /\ n \in Nat /\ n >= 1
      /\ \A k \in 1..n - 1 : rest[k] = code[k + 1]
  BY <1>1, HeadTailProperties
<1>3. PICK S \in [1..n + 1 -> States] :
        /\ S[1] = p /\ S[n + 1] = q
        /\ \A k \in 1..n : Follows(code[k], S[k], S[k + 1])
        /\ \A j, k \in 1..n + 1 : j <= k => S[j].dead \subseteq S[k].dead
  BY DEF Path
<1> DEFINE E == [k \in 1..(n - 1) + 1 |-> S[k + 1]]
<1> HIDE DEF rest, n
<1>4. /\ Follows(Head(code), p, S[2]) /\ p.dead \subseteq S[2].dead
      /\ S[2] \in States /\ p \in States
  <2>1. 1 \in 1..n /\ 1 \in 1..n + 1 /\ 2 \in 1..n + 1
    BY <1>2
  <2>. QED  BY <1>2, <1>3, <2>1
<1>5. /\ E \in [1..(n - 1) + 1 -> States] /\ E[1] = S[2] /\ E[(n - 1) + 1] = q
      /\ \A k \in 1..n - 1 : Follows(rest[k], E[k], E[k + 1])
      /\ \A j, k \in 1..(n - 1) + 1 : j <= k => E[j].dead \subseteq E[k].dead
  <2>1. \A k \in 1..(n - 1) + 1 : k + 1 \in 1..n + 1
    BY <1>2
  <2>2. E \in [1..(n - 1) + 1 -> States] /\ E[1] = S[2] /\ E[(n - 1) + 1] = q
    BY <1>2, <1>3, <2>1
  <2>3. \A k \in 1..n - 1 : Follows(rest[k], E[k], E[k + 1])
    <3> TAKE k \in 1..n - 1
    <3>1. k \in 1..(n - 1) + 1 /\ k + 1 \in 1..(n - 1) + 1 /\ k + 1 \in 1..n
      BY <1>2
    <3>2. E[k] = S[k + 1] /\ E[k + 1] = S[(k + 1) + 1] /\ rest[k] = code[k + 1]
      BY <1>2, <3>1
    <3>. QED  BY <1>3, <3>1, <3>2
  <2>4. ASSUME NEW j \in 1..(n - 1) + 1, NEW k \in 1..(n - 1) + 1, j <= k
        PROVE  E[j].dead \subseteq E[k].dead
    <3>1. j + 1 \in 1..n + 1 /\ k + 1 \in 1..n + 1 /\ j + 1 <= k + 1
      BY <2>1, <2>4
    <3>2. E[j] = S[j + 1] /\ E[k] = S[k + 1]
      OBVIOUS
    <3> HIDE DEF E
    <3>. QED  BY <1>3, <3>1, <3>2
  <2>. QED  BY <2>2, <2>3, <2>4
<1> HIDE DEF E
<1>6. Path(rest, S[2], q)
  BY <1>2, <1>5 DEF Path
<1>. QED
  BY <1>2, <1>4, <1>6 DEF rest

\* No step names a local that is dead.
LEMMA DeadUnnamed ==
  ASSUME NEW code, NEW p, NEW q, Path(code, p, q)
  PROVE  Names(code) \subseteq LocalNames \ p.dead
<1>1. PICK S \in [1..Len(code) + 1 -> States] :
        /\ S[1] = p
        /\ \A k \in 1..Len(code) : Follows(code[k], S[k], S[k + 1])
        /\ \A j, k \in 1..Len(code) + 1 : j <= k => S[j].dead \subseteq S[k].dead
  BY DEF Path
<1>2. code \in Seq(Steps)
  BY DEF Path
<1>3. ASSUME NEW k \in DOMAIN code
      PROVE  /\ code[k].x \in LocalNames \ p.dead /\ code[k].y \in LocalNames \ p.dead
  <2>1. k \in 1..Len(code) /\ code[k] \in Steps /\ Len(code) \in Nat
    BY <1>2
  <2>2. code[k].x \in LocalNames /\ code[k].y \in LocalNames
    BY <2>1 DEF Steps
  <2>3. p.dead \subseteq S[k].dead
    <3>1. 1 \in 1..Len(code) + 1 /\ k \in 1..Len(code) + 1 /\ 1 <= k
      BY <2>1
    <3>. QED  BY <1>1, <3>1
  <2>4. code[k].x \notin S[k].dead /\ code[k].y \notin S[k].dead
    BY <1>1, <2>1 DEF Follows
  <2>. QED  BY <2>2, <2>3, <2>4
<1>4. ASSUME NEW x \in Names(code) PROVE \E k \in DOMAIN code : x = code[k].x \/ x = code[k].y
  BY DEF Names
<1>. QED
  BY <1>3, <1>4

\* Short sequences.
LEMMA Split ==
  /\ \A a, b : Append(<<a>>, b) = <<a, b>> /\ <<a>> \o <<b>> = <<a, b>>
  /\ \A a, b, c : <<a, b>> \o <<c>> = <<a, b, c>>
  /\ \A a, b, c, d : <<a, b, c>> \o <<d>> = <<a, b, c, d>>
<1>1. ASSUME NEW S, NEW s \in Seq(S), NEW t \in Seq(S), Len(s) = Len(t),
             \A i \in 1..Len(s) : s[i] = t[i]
      PROVE  s = t
  BY <1>1
<1>2. ASSUME NEW a, NEW b PROVE Append(<<a>>, b) = <<a, b>> /\ <<a>> \o <<b>> = <<a, b>>
  <2> DEFINE S == {a, b}
             s == Append(<<a>>, b)
             t == <<a, b>>
             u == <<a>> \o <<b>>
  <2>1. s \in Seq(S) /\ Len(s) = 2 /\ s[1] = a /\ s[2] = b
    OBVIOUS
  <2>2. t \in Seq(S) /\ Len(t) = 2 /\ t[1] = a /\ t[2] = b
    OBVIOUS
  <2>3. u \in Seq(S) /\ Len(u) = 2 /\ u[1] = a /\ u[2] = b
    OBVIOUS
  <2> HIDE DEF s, t, u, S
  <2>4. s = t /\ u = t
    BY <1>1, <2>1, <2>2, <2>3
  <2>. QED  BY <2>4 DEF s, t, u
<1>3. ASSUME NEW a, NEW b, NEW c PROVE <<a, b>> \o <<c>> = <<a, b, c>>
  <2> DEFINE S == {a, b, c}
             t == <<a, b, c>>
             u == <<a, b>> \o <<c>>
  <2>2. t \in Seq(S) /\ Len(t) = 3 /\ t[1] = a /\ t[2] = b /\ t[3] = c
    OBVIOUS
  <2>3. u \in Seq(S) /\ Len(u) = 3 /\ u[1] = a /\ u[2] = b /\ u[3] = c
    OBVIOUS
  <2> HIDE DEF t, u, S
  <2>4. u = t
    BY <1>1, <2>2, <2>3
  <2>. QED  BY <2>4 DEF t, u
<1>4. ASSUME NEW a, NEW b, NEW c, NEW d PROVE <<a, b, c>> \o <<d>> = <<a, b, c, d>>
  <2> DEFINE S == {a, b, c, d}
             t == <<a, b, c, d>>
             u == <<a, b, c>> \o <<d>>
  <2>2. t \in Seq(S) /\ Len(t) = 4 /\ t[1] = a /\ t[2] = b /\ t[3] = c /\ t[4] = d
    OBVIOUS
  <2>3. u \in Seq(S) /\ Len(u) = 4 /\ u[1] = a /\ u[2] = b /\ u[3] = c /\ u[4] = d
    OBVIOUS
  <2> HIDE DEF t, u, S
  <2>4. u = t
    BY <1>1, <2>2, <2>3
  <2>. QED  BY <2>4 DEF t, u
<1>. QED
  BY <1>2, <1>3, <1>4

\* What is in them.
LEMMA Tuples ==
  /\ ToSet(<<>>) = {} /\ \A a : ToSet(<<a>>) = {a} /\ \A b : ToSet(<<a, b>>) = {a, b}
  /\ \A a : Append(<<>>, a) = <<a>> /\ \A b : Append(<<a>>, b) = <<a, b>>
<1>1. ASSUME NEW a PROVE ToSet(<<a>>) = {a} /\ Append(<<>>, a) = <<a>>
  BY DEF ToSet
<1>2. ASSUME NEW a, NEW b PROVE ToSet(<<a, b>>) = {a, b}
  <2>1. DOMAIN <<a, b>> = {1, 2} /\ <<a, b>>[1] = a /\ <<a, b>>[2] = b
    OBVIOUS
  <2>. QED  BY <2>1 DEF ToSet
<1>3. ToSet(<<>>) = {}
  BY DEF ToSet
<1>. QED
  BY <1>1, <1>2, <1>3, Split

\* A step by its name.
LEMMA Walk ==
  ASSUME NEW do \in Operations, NEW x \in LocalNames, NEW y \in LocalNames,
         do = "metaclass" => x = "classObj", do = "upvalue" => x = "upvalue",
         NEW p \in States, NEW q \in States, Follows(Step(do, x, y), p, q), p.dead \subseteq q.dead
  PROVE  Path(<<Step(do, x, y)>>, p, q)
<1>1. Step(do, x, y) \in Steps
  BY DEF Step, Steps
<1>. QED
  BY <1>1, PathStep

\* Steps that are listed.
LEMMA Walks ==
  ASSUME NEW a, NEW b, NEW p, NEW q, NEW r, Path(<<a>>, p, q), Path(<<b>>, q, r)
  PROVE  /\ Path(<<a, b>>, p, r)
         /\ \A c, t : Path(<<c>>, r, t) =>
              /\ Path(<<a, b, c>>, p, t)
              /\ \A d, u : Path(<<d>>, t, u) => Path(<<a, b, c, d>>, p, u)
<1>1. Path(<<a, b>>, p, r)
  BY Split, PathJoined
<1>2. ASSUME NEW c, NEW t, Path(<<c>>, r, t) PROVE Path(<<a, b, c>>, p, t)
  <2>1. <<a, b, c>> = <<a, b>> \o <<c>>
    BY Split
  <2>. QED  BY <1>1, <1>2, <2>1, PathJoined
<1>3. ASSUME NEW c, NEW t, Path(<<c>>, r, t), NEW d, NEW u, Path(<<d>>, t, u)
      PROVE  Path(<<a, b, c, d>>, p, u)
  <2>1. <<a, b, c, d>> = <<a, b, c>> \o <<d>>
    BY Split
  <2>. QED  BY <1>2, <1>3, <2>1, PathJoined
<1>. QED
  BY <1>1, <1>2, <1>3

\* wrenNewClass() roots what it allocates, and createClass() leaves the class on the stack.
LEMMA NewClassPath ==
  LET end == State(<<>>, {"classObj"}, {}, {"metaclassName", "metaclass"}, FALSE)
      code == WrenNewClass \o <<Step("top", "classObj", "")>>
  IN /\ Path(code \o <<>>, State(<<>>, {}, {}, {}, FALSE), end)
     /\ Path(code \o BindForeignClass, State(<<>>, {}, {}, {}, FALSE), end)
<1> DEFINE s0 == State(<<>>, {}, {}, {}, FALSE)
           s1 == State(<<>>, {}, {"metaclassName"}, {}, FALSE)
           s2 == State(<<"metaclassName">>, {}, {}, {}, FALSE)
           s3 == State(<<"metaclassName">>, {}, {"metaclass"}, {}, FALSE)
           s4 == State(<<"metaclassName", "metaclass">>, {}, {}, {}, FALSE)
           s5 == State(<<>>, {}, {"metaclass"}, {"metaclassName"}, FALSE)
           s6 == State(<<"metaclass">>, {}, {}, {"metaclassName"}, FALSE)
           s7 == StateOf(<<"metaclass">>, {}, {"classObj"}, {"metaclassName"}, FALSE,
                         {"metaclass"}, "made")
           s8 == StateOf(<<"metaclass", "classObj">>, {}, {}, {"metaclassName"}, FALSE,
                         {"metaclass"}, "made")
           l8 == StateOf(<<"metaclass", "classObj">>, {}, {}, {"metaclassName"}, FALSE,
                         {}, "linked")
           l7 == State(<<"metaclass">>, {}, {"classObj"}, {"metaclassName"}, FALSE)
           s9 == State(<<>>, {}, {"classObj"}, {"metaclassName", "metaclass"}, FALSE)
           s10 == State(<<>>, {"classObj"}, {}, {"metaclassName", "metaclass"}, FALSE)
<1>1. /\ s0 \in States
      /\ s1 \in States
      /\ s2 \in States
      /\ s3 \in States
      /\ s4 \in States
      /\ s5 \in States
      /\ s6 \in States
      /\ s7 \in States
      /\ s8 \in States
      /\ l8 \in States
      /\ l7 \in States
      /\ s9 \in States
      /\ s10 \in States
  BY DEF State, StateOf, States, Stages, LocalNames
<1>2. /\ {"string", "root", "class", "unroot", "superclass", "grow", "methods",
          "metaclass", "top", "foreign"}
           \subseteq Operations
      /\ {"", "metaclassName", "metaclass", "classClass", "classObj", "name",
          "superclass"}
           \subseteq LocalNames
  BY DEF Operations, Allocating, LocalNames
<1>3. /\ s0.dead \subseteq s1.dead
      /\ s1.dead \subseteq s2.dead
      /\ s2.dead \subseteq s3.dead
      /\ s3.dead \subseteq s4.dead
      /\ s3.dead \subseteq s5.dead
      /\ s4.dead \subseteq s3.dead
      /\ s5.dead \subseteq s6.dead
      /\ s6.dead \subseteq s7.dead
      /\ s7.dead \subseteq s8.dead
      /\ l7.dead \subseteq s9.dead
      /\ s8.dead \subseteq s7.dead
      /\ s8.dead \subseteq l8.dead
      /\ l8.dead \subseteq l7.dead
      /\ s9.dead \subseteq s10.dead
  BY DEF State, StateOf
<1>4. Follows(Step("string", "metaclassName", ""), s0, s1)
  BY Tuples
  DEF Follows, Allots, Restacks, Employs, State, StateOf, Set, Step, Keeping, Makers,
      NeverMade, Allocating, Unrooted, LocalNames, Lasts, StringNames
<1>5. Follows(Step("root", "metaclassName", "metaclassName"), s1, s2)
  BY Tuples
  DEF Follows, Allots, Restacks, Employs, State, StateOf, Set, Step, Keeping, Makers,
      NeverMade, Allocating, Unrooted, LocalNames, Lasts, StringNames
<1>6. Follows(Step("class", "metaclass", "metaclassName"), s2, s3)
  BY Tuples
  DEF Follows, Allots, Restacks, Employs, State, StateOf, Set, Step, Keeping, Makers,
      NeverMade, Allocating, Unrooted, LocalNames, Lasts, StringNames
<1>7. Follows(Step("root", "metaclass", "metaclass"), s3, s4)
  BY Tuples
  DEF Follows, Allots, Restacks, Employs, State, StateOf, Set, Step, Keeping, Makers,
      NeverMade, Allocating, Unrooted, LocalNames, Lasts, StringNames
<1>8. Follows(Step("unroot", "", ""), s4, s3)
  BY Tuples
  DEF Follows, Allots, Restacks, Employs, State, StateOf, Set, Step, Keeping, Makers,
      NeverMade, Allocating, Unrooted, LocalNames, Lasts, StringNames
<1>9. Follows(Step("unroot", "", ""), s3, s5)
  BY Tuples
  DEF Follows, Allots, Restacks, Employs, State, StateOf, Set, Step, Keeping, Makers,
      NeverMade, Allocating, Unrooted, LocalNames, Lasts, StringNames
<1>10. Follows(Step("root", "metaclass", "metaclass"), s5, s6)
  BY Tuples
  DEF Follows, Allots, Restacks, Employs, State, StateOf, Set, Step, Keeping, Makers,
      NeverMade, Allocating, Unrooted, LocalNames, Lasts, StringNames
<1>11. Follows(Step("superclass", "metaclass", "classClass"), s6, s6)
  BY Tuples
  DEF Follows, Allots, Restacks, Employs, State, StateOf, Set, Step, Keeping, Makers,
      NeverMade, Allocating, Unrooted, LocalNames, Lasts, StringNames
<1>12. Follows(Step("grow", "metaclass", "classClass"), s6, s6)
  BY Tuples
  DEF Follows, Allots, Restacks, Employs, State, StateOf, Set, Step, Keeping, Makers,
      NeverMade, Allocating, Unrooted, LocalNames, Lasts, StringNames
<1>13. Follows(Step("methods", "metaclass", "classClass"), s6, s6)
  BY Tuples
  DEF Follows, Allots, Restacks, Employs, State, StateOf, Set, Step, Keeping, Makers,
      NeverMade, Allocating, Unrooted, LocalNames, Lasts, StringNames
<1>14. Follows(Step("class", "classObj", "name"), s6, s7)
  BY Tuples
  DEF Follows, Allots, Restacks, Employs, State, StateOf, Set, Step, Keeping, Makers,
      NeverMade, Allocating, Unrooted, LocalNames, Lasts, StringNames
<1>15. Follows(Step("root", "classObj", "classObj"), s7, s8)
  BY Tuples
  DEF Follows, Allots, Restacks, Employs, State, StateOf, Set, Step, Keeping, Makers,
      NeverMade, Allocating, Unrooted, LocalNames, Lasts, StringNames
<1>16. Follows(Step("unroot", "", ""), s8, s7)
  BY Tuples
  DEF Follows, Allots, Restacks, Employs, State, StateOf, Set, Step, Keeping, Makers,
      NeverMade, Allocating, Unrooted, LocalNames, Lasts, StringNames
<1>17. Follows(Step("metaclass", "classObj", "metaclass"), s8, l8)
  BY Tuples
  DEF Follows, Allots, Restacks, Employs, State, StateOf, Set, Step, Keeping, Makers,
      NeverMade, Allocating, Unrooted, LocalNames, Lasts, StringNames
<1>18. Follows(Step("superclass", "classObj", "superclass"), l8, l8)
  BY Tuples
  DEF Follows, Allots, Restacks, Employs, State, StateOf, Set, Step, Keeping, Makers,
      NeverMade, Allocating, Unrooted, LocalNames, Lasts, StringNames
<1>19. Follows(Step("grow", "classObj", "superclass"), l8, l8)
  BY Tuples
  DEF Follows, Allots, Restacks, Employs, State, StateOf, Set, Step, Keeping, Makers,
      NeverMade, Allocating, Unrooted, LocalNames, Lasts, StringNames
<1>20. Follows(Step("methods", "classObj", "superclass"), l8, l8)
  BY Tuples
  DEF Follows, Allots, Restacks, Employs, State, StateOf, Set, Step, Keeping, Makers,
      NeverMade, Allocating, Unrooted, LocalNames, Lasts, StringNames
<1>21. Follows(Step("unroot", "", ""), l7, s9)
  BY Tuples
  DEF Follows, Allots, Restacks, Employs, State, StateOf, Set, Step, Keeping, Makers,
      NeverMade, Allocating, Unrooted, LocalNames, Lasts, StringNames
<1>22. Follows(Step("unroot", "", ""), l8, l7)
  BY Tuples
  DEF Follows, Allots, Restacks, Employs, State, StateOf, Set, Step, Keeping, Makers,
      NeverMade, Allocating, Unrooted, LocalNames, Lasts, StringNames
<1>23. Follows(Step("top", "classObj", ""), s9, s10)
  BY Tuples
  DEF Follows, Allots, Restacks, Employs, State, StateOf, Set, Step, Keeping, Makers,
      NeverMade, Allocating, Unrooted, LocalNames, Lasts, StringNames
<1>24. Follows(Step("foreign", "classObj", ""), s10, s10)
  BY Tuples
  DEF Follows, Allots, Restacks, Employs, State, StateOf, Set, Step, Keeping, Makers,
      NeverMade, Allocating, Unrooted, LocalNames, Lasts, StringNames
<1>25. Follows(Step("grow", "classObj", "classObj"), s10, s10)
  BY Tuples
  DEF Follows, Allots, Restacks, Employs, State, StateOf, Set, Step, Keeping, Makers,
      NeverMade, Allocating, Unrooted, LocalNames, Lasts, StringNames
<1> HIDE DEF s0, s1, s2, s3, s4, s5, s6, s7, s8, l8, l7, s9, s10
<1>26. /\ Path(<<Step("string", "metaclassName", "")>>, s0, s1)
       /\ Path(<<Step("root", "metaclassName", "metaclassName")>>, s1, s2)
       /\ Path(<<Step("class", "metaclass", "metaclassName")>>, s2, s3)
       /\ Path(<<Step("root", "metaclass", "metaclass")>>, s3, s4)
       /\ Path(<<Step("unroot", "", "")>>, s4, s3)
       /\ Path(<<Step("unroot", "", "")>>, s3, s5)
       /\ Path(<<Step("root", "metaclass", "metaclass")>>, s5, s6)
       /\ Path(<<Step("superclass", "metaclass", "classClass")>>, s6, s6)
       /\ Path(<<Step("grow", "metaclass", "classClass")>>, s6, s6)
       /\ Path(<<Step("methods", "metaclass", "classClass")>>, s6, s6)
       /\ Path(<<Step("class", "classObj", "name")>>, s6, s7)
       /\ Path(<<Step("root", "classObj", "classObj")>>, s7, s8)
       /\ Path(<<Step("unroot", "", "")>>, s8, s7)
       /\ Path(<<Step("metaclass", "classObj", "metaclass")>>, s8, l8)
       /\ Path(<<Step("superclass", "classObj", "superclass")>>, l8, l8)
       /\ Path(<<Step("grow", "classObj", "superclass")>>, l8, l8)
       /\ Path(<<Step("methods", "classObj", "superclass")>>, l8, l8)
       /\ Path(<<Step("unroot", "", "")>>, l7, s9)
       /\ Path(<<Step("unroot", "", "")>>, l8, l7)
       /\ Path(<<Step("top", "classObj", "")>>, s9, s10)
       /\ Path(<<Step("foreign", "classObj", "")>>, s10, s10)
       /\ Path(<<Step("grow", "classObj", "classObj")>>, s10, s10)
  BY <1>1, <1>2, <1>3, <1>4, <1>5, <1>6, <1>7, <1>8, <1>9, <1>10, <1>11, <1>12, <1>13, <1>14,
     <1>15, <1>16, <1>17, <1>18, <1>19, <1>20, <1>21, <1>23, <1>24, <1>25, <1>22, Walk
<1>27. /\ Path(WrenBindSuperclass("metaclass", "classClass"), s6, s6)
       /\ Path(WrenBindSuperclass("classObj", "superclass"), l8, l8)
  BY <1>26, Walks DEF WrenBindSuperclass
<1>28. /\ Path(WrenNewSingleClass("metaclass", "metaclassName"), s2, s3)
       /\ Path(WrenNewSingleClass("classObj", "name"), s6, s7)
  BY <1>26, PathJoined, Zenon DEF WrenNewSingleClass, PushRoot, PopRoot
<1>29. Path(WrenNewClass, s0, s9)
  BY <1>26, <1>27, <1>28, PathJoined, Zenon DEF WrenNewClass, PushRoot, PopRoot
<1>30. Path(BindForeignClass, s10, s10)
  BY <1>26, PathJoined, Zenon DEF BindForeignClass, Grow
<1>31. Path(<<>>, s10, s10)
  BY <1>1, PathNone
<1>. QED
  BY <1>26, <1>29, <1>30, <1>31, PathJoined, Zenon DEF s0, s10

\* A handle keeps a value from when it is made, and the function it is made of.
LEMMA HandlePaths ==
  /\ Path(WrenMakeHandle("value"), State(<<>>, {}, {"value"}, {}, FALSE),
          State(<<>>, {"value"}, {}, {}, FALSE))
  /\ Path(WrenMakeCallHandle, State(<<>>, {}, {}, {}, FALSE),
          State(<<>>, {"closure"}, {}, {"method", "fn"}, FALSE))
<1> DEFINE h0 == State(<<>>, {}, {"value"}, {}, FALSE)
           h1 == State(<<"value">>, {}, {}, {}, FALSE)
           h2 == State(<<>>, {"value"}, {}, {}, FALSE)
           s0 == State(<<>>, {}, {}, {}, FALSE)
           s1 == State(<<>>, {}, {"method"}, {}, FALSE)
           s2 == State(<<"method">>, {}, {}, {}, FALSE)
           s3 == State(<<>>, {}, {}, {"method"}, FALSE)
           s4 == State(<<>>, {}, {"fn"}, {"method"}, FALSE)
           s5 == State(<<"fn">>, {}, {}, {"method"}, FALSE)
           s6 == State(<<>>, {"fn"}, {}, {"method"}, FALSE)
           s7 == State(<<>>, {"fn"}, {"closure"}, {"method"}, FALSE)
           s8 == State(<<>>, {"closure"}, {}, {"method", "fn"}, FALSE)
<1>1. /\ h0 \in States
      /\ h1 \in States
      /\ h2 \in States
      /\ s0 \in States
      /\ s1 \in States
      /\ s2 \in States
      /\ s3 \in States
      /\ s4 \in States
      /\ s5 \in States
      /\ s6 \in States
      /\ s7 \in States
      /\ s8 \in States
  BY DEF State, States, Stages, LocalNames
<1>2. /\ {"root", "grow", "unroot", "handle", "string", "symbol", "fn", "closure",
          "rehandle"}
           \subseteq Operations
      /\ {"", "value", "method", "fn", "closure"}
           \subseteq LocalNames
  BY DEF Operations, Allocating, LocalNames
<1>3. /\ h0.dead \subseteq h1.dead
      /\ h0.dead \subseteq h2.dead
      /\ h1.dead \subseteq h0.dead
      /\ s0.dead \subseteq s1.dead
      /\ s1.dead \subseteq s2.dead
      /\ s1.dead \subseteq s3.dead
      /\ s2.dead \subseteq s1.dead
      /\ s3.dead \subseteq s4.dead
      /\ s4.dead \subseteq s5.dead
      /\ s4.dead \subseteq s6.dead
      /\ s5.dead \subseteq s4.dead
      /\ s6.dead \subseteq s7.dead
      /\ s7.dead \subseteq s8.dead
  BY DEF State
<1>4. Follows(Step("root", "value", "value"), h0, h1)
  BY Tuples
  DEF Follows, Allots, Restacks, Employs, State, Set, Step, Keeping, Makers, NeverMade,
      Allocating, Unrooted, LocalNames, Lasts, StringNames
<1>5. Follows(Step("grow", "value", "value"), h1, h1)
  BY Tuples
  DEF Follows, Allots, Restacks, Employs, State, Set, Step, Keeping, Makers, NeverMade,
      Allocating, Unrooted, LocalNames, Lasts, StringNames
<1>6. Follows(Step("unroot", "", ""), h1, h0)
  BY Tuples
  DEF Follows, Allots, Restacks, Employs, State, Set, Step, Keeping, Makers, NeverMade,
      Allocating, Unrooted, LocalNames, Lasts, StringNames
<1>7. Follows(Step("handle", "value", ""), h0, h2)
  BY Tuples
  DEF Follows, Allots, Restacks, Employs, State, Set, Step, Keeping, Makers, NeverMade,
      Allocating, Unrooted, LocalNames, Lasts, StringNames
<1>8. Follows(Step("string", "method", ""), s0, s1)
  BY Tuples
  DEF Follows, Allots, Restacks, Employs, State, Set, Step, Keeping, Makers, NeverMade,
      Allocating, Unrooted, LocalNames, Lasts, StringNames
<1>9. Follows(Step("root", "method", "method"), s1, s2)
  BY Tuples
  DEF Follows, Allots, Restacks, Employs, State, Set, Step, Keeping, Makers, NeverMade,
      Allocating, Unrooted, LocalNames, Lasts, StringNames
<1>10. Follows(Step("grow", "method", "method"), s2, s2)
  BY Tuples
  DEF Follows, Allots, Restacks, Employs, State, Set, Step, Keeping, Makers, NeverMade,
      Allocating, Unrooted, LocalNames, Lasts, StringNames
<1>11. Follows(Step("unroot", "", ""), s2, s1)
  BY Tuples
  DEF Follows, Allots, Restacks, Employs, State, Set, Step, Keeping, Makers, NeverMade,
      Allocating, Unrooted, LocalNames, Lasts, StringNames
<1>12. Follows(Step("symbol", "method", ""), s1, s3)
  BY Tuples
  DEF Follows, Allots, Restacks, Employs, State, Set, Step, Keeping, Makers, NeverMade,
      Allocating, Unrooted, LocalNames, Lasts, StringNames
<1>13. Follows(Step("grow", "", ""), s3, s3)
  BY Tuples
  DEF Follows, Allots, Restacks, Employs, State, Set, Step, Keeping, Makers, NeverMade,
      Allocating, Unrooted, LocalNames, Lasts, StringNames
<1>14. Follows(Step("fn", "fn", ""), s3, s4)
  BY Tuples
  DEF Follows, Allots, Restacks, Employs, State, Set, Step, Keeping, Makers, NeverMade,
      Allocating, Unrooted, LocalNames, Lasts, StringNames
<1>15. Follows(Step("root", "fn", "fn"), s4, s5)
  BY Tuples
  DEF Follows, Allots, Restacks, Employs, State, Set, Step, Keeping, Makers, NeverMade,
      Allocating, Unrooted, LocalNames, Lasts, StringNames
<1>16. Follows(Step("grow", "fn", "fn"), s5, s5)
  BY Tuples
  DEF Follows, Allots, Restacks, Employs, State, Set, Step, Keeping, Makers, NeverMade,
      Allocating, Unrooted, LocalNames, Lasts, StringNames
<1>17. Follows(Step("unroot", "", ""), s5, s4)
  BY Tuples
  DEF Follows, Allots, Restacks, Employs, State, Set, Step, Keeping, Makers, NeverMade,
      Allocating, Unrooted, LocalNames, Lasts, StringNames
<1>18. Follows(Step("handle", "fn", ""), s4, s6)
  BY Tuples
  DEF Follows, Allots, Restacks, Employs, State, Set, Step, Keeping, Makers, NeverMade,
      Allocating, Unrooted, LocalNames, Lasts, StringNames
<1>19. Follows(Step("closure", "closure", "fn"), s6, s7)
  BY Tuples
  DEF Follows, Allots, Restacks, Employs, State, Set, Step, Keeping, Makers, NeverMade,
      Allocating, Unrooted, LocalNames, Lasts, StringNames
<1>20. Follows(Step("rehandle", "closure", "fn"), s7, s8)
  BY Tuples
  DEF Follows, Allots, Restacks, Employs, State, Set, Step, Keeping, Makers, NeverMade,
      Allocating, Unrooted, LocalNames, Lasts, StringNames
<1>21. Follows(Step("grow", "closure", "closure"), s8, s8)
  BY Tuples
  DEF Follows, Allots, Restacks, Employs, State, Set, Step, Keeping, Makers, NeverMade,
      Allocating, Unrooted, LocalNames, Lasts, StringNames
<1> HIDE DEF h0, h1, h2, s0, s1, s2, s3, s4, s5, s6, s7, s8
<1>22. /\ Path(<<Step("root", "value", "value")>>, h0, h1)
      /\ Path(<<Step("grow", "value", "value")>>, h1, h1)
      /\ Path(<<Step("unroot", "", "")>>, h1, h0)
      /\ Path(<<Step("handle", "value", "")>>, h0, h2)
      /\ Path(<<Step("string", "method", "")>>, s0, s1)
      /\ Path(<<Step("root", "method", "method")>>, s1, s2)
      /\ Path(<<Step("grow", "method", "method")>>, s2, s2)
      /\ Path(<<Step("unroot", "", "")>>, s2, s1)
      /\ Path(<<Step("symbol", "method", "")>>, s1, s3)
      /\ Path(<<Step("grow", "", "")>>, s3, s3)
      /\ Path(<<Step("fn", "fn", "")>>, s3, s4)
      /\ Path(<<Step("root", "fn", "fn")>>, s4, s5)
      /\ Path(<<Step("grow", "fn", "fn")>>, s5, s5)
      /\ Path(<<Step("unroot", "", "")>>, s5, s4)
      /\ Path(<<Step("handle", "fn", "")>>, s4, s6)
      /\ Path(<<Step("closure", "closure", "fn")>>, s6, s7)
      /\ Path(<<Step("rehandle", "closure", "fn")>>, s7, s8)
      /\ Path(<<Step("grow", "closure", "closure")>>, s8, s8)
  BY <1>1, <1>2, <1>3, <1>4, <1>5, <1>6, <1>7, <1>8, <1>9, <1>10, <1>11, <1>12, <1>13, <1>14,
     <1>15, <1>16, <1>17, <1>18, <1>19, <1>20, <1>21, Walk
<1>23. Path(<<Step("closure", "closure", "fn"), Step("rehandle", "closure", "fn")>>, s6, s8)
  BY <1>22, Walks
<1>24. Path(WrenMakeHandle("value"), h0, h2) /\ Path(WrenMakeHandle("fn"), s4, s6)
  BY <1>22, PathJoined, Zenon DEF WrenMakeHandle, PushRoot, PopRoot, Grow
<1>25. Path(WrenSymbolTableAdd("method"), s0, s3) /\ Path(WrenNewFunction("fn"), s3, s4)
  BY <1>22, PathJoined, Zenon
  DEF WrenSymbolTableAdd, WrenNewFunction, PushRoot, PopRoot, Grow
<1>26. Path(WrenMakeCallHandle, s0, s8)
  BY <1>22, <1>23, <1>24, <1>25, PathJoined, Zenon DEF WrenMakeCallHandle, Grow
<1>. QED
  BY <1>24, <1>26 DEF h0, h2, s0, s8

\* What is taken out of a list or a map is rooted until it is on the stack, and the variable of
\* a module stays in the module.
LEMMA RemovalPaths ==
  /\ Path(MapRemoveKey, State(<<>>, {}, {"value"}, {}, FALSE),
          State(<<>>, {"value"}, {}, {}, FALSE))
  /\ Path(ListRemoveAt, State(<<>>, {}, {"removed"}, {}, FALSE),
          State(<<>>, {"removed"}, {}, {}, FALSE))
  /\ Path(<<Step("string", "moduleName", "")>> \o PushRoot("moduleName") \o PopRoot
            \o <<Step("push", "value", "")>>,
          State(<<>>, {"value"}, {}, {}, FALSE), State(<<>>, {"value"}, {"moduleName"}, {}, FALSE))
<1> DEFINE m0 == State(<<>>, {}, {"value"}, {}, FALSE)
           m1 == StateOf(<<"value">>, {}, {}, {}, FALSE, {"value"}, "none")
           n0 == StateOf(<<>>, {}, {"value"}, {}, FALSE, {"value"}, "none")
           m2 == State(<<>>, {"value"}, {}, {}, FALSE)
           l0 == State(<<>>, {}, {"removed"}, {}, FALSE)
           l1 == StateOf(<<"removed">>, {}, {}, {}, FALSE, {"removed"}, "none")
           k0 == StateOf(<<>>, {}, {"removed"}, {}, FALSE, {"removed"}, "none")
           l2 == State(<<>>, {"removed"}, {}, {}, FALSE)
           v1 == State(<<>>, {"value"}, {"moduleName"}, {}, FALSE)
           v2 == State(<<"moduleName">>, {"value"}, {}, {}, FALSE)
<1>1. /\ m0 \in States
      /\ m1 \in States
      /\ m2 \in States
      /\ n0 \in States
      /\ k0 \in States
      /\ l0 \in States
      /\ l1 \in States
      /\ l2 \in States
      /\ v1 \in States
      /\ v2 \in States
  BY DEF State, StateOf, States, Stages, LocalNames
<1>2. /\ {"root", "grow", "unroot", "push", "string"}
           \subseteq Operations
      /\ {"", "value", "removed", "moduleName"}
           \subseteq LocalNames
  BY DEF Operations, Allocating, LocalNames
<1>3. /\ l0.dead \subseteq l1.dead
      /\ k0.dead \subseteq l2.dead
      /\ l1.dead \subseteq k0.dead
      /\ m0.dead \subseteq m1.dead
      /\ n0.dead \subseteq m2.dead
      /\ m1.dead \subseteq n0.dead
      /\ m2.dead \subseteq v1.dead
      /\ v1.dead \subseteq v2.dead
      /\ v2.dead \subseteq v1.dead
  BY DEF State, StateOf
<1>4. Follows(Step("root", "value", "value"), m0, m1)
  BY Tuples
  DEF Follows, Allots, Restacks, Employs, State, StateOf, Set, Step, Keeping, Makers,
      NeverMade, Allocating, Unrooted, LocalNames, Lasts, StringNames
<1>5. Follows(Step("grow", "", ""), m1, m1)
  BY Tuples
  DEF Follows, Allots, Restacks, Employs, State, StateOf, Set, Step, Keeping, Makers,
      NeverMade, Allocating, Unrooted, LocalNames, Lasts, StringNames
<1>6. Follows(Step("unroot", "", ""), m1, n0)
  BY Tuples
  DEF Follows, Allots, Restacks, Employs, State, StateOf, Set, Step, Keeping, Makers,
      NeverMade, Allocating, Unrooted, LocalNames, Lasts, StringNames
<1>7. Follows(Step("push", "value", ""), n0, m2)
  BY Tuples
  DEF Follows, Allots, Restacks, Employs, State, StateOf, Set, Step, Keeping, Makers,
      NeverMade, Allocating, Unrooted, LocalNames, Lasts, StringNames
<1>8. Follows(Step("root", "removed", "removed"), l0, l1)
  BY Tuples
  DEF Follows, Allots, Restacks, Employs, State, StateOf, Set, Step, Keeping, Makers,
      NeverMade, Allocating, Unrooted, LocalNames, Lasts, StringNames
<1>9. Follows(Step("grow", "", ""), l1, l1)
  BY Tuples
  DEF Follows, Allots, Restacks, Employs, State, StateOf, Set, Step, Keeping, Makers,
      NeverMade, Allocating, Unrooted, LocalNames, Lasts, StringNames
<1>10. Follows(Step("unroot", "", ""), l1, k0)
  BY Tuples
  DEF Follows, Allots, Restacks, Employs, State, StateOf, Set, Step, Keeping, Makers,
      NeverMade, Allocating, Unrooted, LocalNames, Lasts, StringNames
<1>11. Follows(Step("push", "removed", ""), k0, l2)
  BY Tuples
  DEF Follows, Allots, Restacks, Employs, State, StateOf, Set, Step, Keeping, Makers,
      NeverMade, Allocating, Unrooted, LocalNames, Lasts, StringNames
<1>12. Follows(Step("string", "moduleName", ""), m2, v1)
  BY Tuples
  DEF Follows, Allots, Restacks, Employs, State, StateOf, Set, Step, Keeping, Makers,
      NeverMade, Allocating, Unrooted, LocalNames, Lasts, StringNames
<1>13. Follows(Step("root", "moduleName", "moduleName"), v1, v2)
  BY Tuples
  DEF Follows, Allots, Restacks, Employs, State, StateOf, Set, Step, Keeping, Makers,
      NeverMade, Allocating, Unrooted, LocalNames, Lasts, StringNames
<1>14. Follows(Step("unroot", "", ""), v2, v1)
  BY Tuples
  DEF Follows, Allots, Restacks, Employs, State, StateOf, Set, Step, Keeping, Makers,
      NeverMade, Allocating, Unrooted, LocalNames, Lasts, StringNames
<1>15. Follows(Step("push", "value", ""), v1, v1)
  BY Tuples
  DEF Follows, Allots, Restacks, Employs, State, StateOf, Set, Step, Keeping, Makers,
      NeverMade, Allocating, Unrooted, LocalNames, Lasts, StringNames
<1> HIDE DEF m0, m1, m2, n0, l0, l1, l2, k0, v1, v2
<1>16. /\ Path(<<Step("root", "value", "value")>>, m0, m1)
      /\ Path(<<Step("grow", "", "")>>, m1, m1)
      /\ Path(<<Step("unroot", "", "")>>, m1, n0)
      /\ Path(<<Step("push", "value", "")>>, n0, m2)
      /\ Path(<<Step("root", "removed", "removed")>>, l0, l1)
      /\ Path(<<Step("grow", "", "")>>, l1, l1)
      /\ Path(<<Step("unroot", "", "")>>, l1, k0)
      /\ Path(<<Step("push", "removed", "")>>, k0, l2)
      /\ Path(<<Step("string", "moduleName", "")>>, m2, v1)
      /\ Path(<<Step("root", "moduleName", "moduleName")>>, v1, v2)
      /\ Path(<<Step("unroot", "", "")>>, v2, v1)
      /\ Path(<<Step("push", "value", "")>>, v1, v1)
  BY <1>1, <1>2, <1>3, <1>4, <1>5, <1>6, <1>7, <1>8, <1>9, <1>10, <1>11, <1>12, <1>13, <1>14,
     <1>15, Walk
<1>17. Path(MapRemoveKey, m0, m2) /\ Path(ListRemoveAt, l0, l2)
  BY <1>16, PathJoined, Zenon DEF MapRemoveKey, ListRemoveAt, PushRoot, PopRoot, Grow
<1>18. Path(<<Step("string", "moduleName", "")>> \o PushRoot("moduleName") \o PopRoot
                 \o <<Step("push", "value", "")>>, m2, v1)
  BY <1>16, PathJoined, Zenon DEF PushRoot, PopRoot
<1>. QED
  BY <1>17, <1>18 DEF m0, m2, l0, l2, v1

\* The ends of a range are rooted, and a closure is on the stack when its upvalue is allocated.
LEMMA RangePath ==
  /\ Path(RangeToString, State(<<>>, {}, {}, {}, FALSE),
          State(<<>>, {}, {"from", "to", "result"}, {}, FALSE))
  /\ Path(MakeClosure, State(<<>>, {}, {}, {}, FALSE),
          State(<<>>, {"closure"}, {"upvalue"}, {}, FALSE))
<1> DEFINE s0 == State(<<>>, {}, {}, {}, FALSE)
           s1 == State(<<>>, {}, {"from"}, {}, FALSE)
           s2 == State(<<"from">>, {}, {}, {}, FALSE)
           s3 == State(<<"from">>, {}, {"to"}, {}, FALSE)
           s4 == State(<<"from", "to">>, {}, {}, {}, FALSE)
           s5 == State(<<"from", "to">>, {}, {"result"}, {}, FALSE)
           s6 == State(<<"from">>, {}, {"to", "result"}, {}, FALSE)
           s7 == State(<<>>, {}, {"from", "to", "result"}, {}, FALSE)
           c1 == State(<<>>, {}, {"closure"}, {}, FALSE)
           c2 == State(<<>>, {"closure"}, {}, {}, FALSE)
           c3 == State(<<>>, {"closure"}, {"upvalue"}, {}, FALSE)
<1>1. /\ s0 \in States
      /\ s1 \in States
      /\ s2 \in States
      /\ s3 \in States
      /\ s4 \in States
      /\ s5 \in States
      /\ s6 \in States
      /\ s7 \in States
      /\ c1 \in States
      /\ c2 \in States
      /\ c3 \in States
  BY DEF State, States, Stages, LocalNames
<1>2. /\ {"string", "root", "grow", "unroot", "push", "closure", "upvalue", "capture"}
           \subseteq Operations
      /\ {"", "from", "to", "result", "closure", "fn", "upvalue"}
           \subseteq LocalNames
  BY DEF Operations, Allocating, LocalNames
<1>3. /\ c1.dead \subseteq c2.dead
      /\ c2.dead \subseteq c3.dead
      /\ s0.dead \subseteq c1.dead
      /\ s0.dead \subseteq s1.dead
      /\ s1.dead \subseteq s2.dead
      /\ s2.dead \subseteq s3.dead
      /\ s3.dead \subseteq s4.dead
      /\ s4.dead \subseteq s5.dead
      /\ s5.dead \subseteq s6.dead
      /\ s6.dead \subseteq s7.dead
  BY DEF State
<1>4. Follows(Step("string", "from", ""), s0, s1)
  BY Tuples
  DEF Follows, Allots, Restacks, Employs, State, Set, Step, Keeping, Makers, NeverMade,
      Allocating, Unrooted, LocalNames, Lasts, StringNames
<1>5. Follows(Step("root", "from", "from"), s1, s2)
  BY Tuples
  DEF Follows, Allots, Restacks, Employs, State, Set, Step, Keeping, Makers, NeverMade,
      Allocating, Unrooted, LocalNames, Lasts, StringNames
<1>6. Follows(Step("string", "to", ""), s2, s3)
  <2> DEFINE s == Step("string", "to", "")
  <2>0. /\ s.do = "string" /\ s.x = "to" /\ s.y = "" /\ ToSet(s2.roots) = {"from"}
        /\ s2.live = {} /\ s2.stage = "none" /\ s3.live = {} /\ s3.stage = "none"
    BY Tuples DEF State, Step
  <2>1. Allots(s, s2, s3)
    BY Tuples DEF Allots, State, Set, Step, Makers, NeverMade, Allocating, Unrooted
  <2>2. Restacks(s, s2, s3) /\ Employs(s, s2, s3) /\ s.x \notin s2.dead /\ s.y \notin s2.dead
    BY DEF Restacks, Employs, State, Step, Keeping, Unrooted
  <2> HIDE DEF s, s2, s3
  <2>3. Lasts(s, s2, s3)
    BY <2>0 DEF Lasts, StringNames
  <2>. QED  BY <2>0, <2>1, <2>2, <2>3 DEF Follows, s
<1>7. Follows(Step("root", "to", "to"), s3, s4)
  BY Tuples
  DEF Follows, Allots, Restacks, Employs, State, Set, Step, Keeping, Makers, NeverMade,
      Allocating, Unrooted, LocalNames, Lasts, StringNames
<1>8. Follows(Step("grow", "from", "to"), s4, s4)
  BY Tuples
  DEF Follows, Allots, Restacks, Employs, State, Set, Step, Keeping, Makers, NeverMade,
      Allocating, Unrooted, LocalNames, Lasts, StringNames
<1>9. Follows(Step("string", "result", ""), s4, s5)
  <2> DEFINE s == Step("string", "result", "")
  <2>0. /\ s.do = "string" /\ s.x = "result" /\ s.y = "" /\ ToSet(s4.roots) = {"from", "to"}
        /\ s4.live = {} /\ s4.stage = "none" /\ s5.live = {} /\ s5.stage = "none"
    BY Tuples DEF State, Step
  <2>1. Allots(s, s4, s5)
    BY Tuples DEF Allots, State, Set, Step, Makers, NeverMade, Allocating, Unrooted
  <2>2. Restacks(s, s4, s5) /\ Employs(s, s4, s5) /\ s.x \notin s4.dead /\ s.y \notin s4.dead
    BY DEF Restacks, Employs, State, Step, Keeping, Unrooted
  <2> HIDE DEF s, s4, s5
  <2>3. Lasts(s, s4, s5)
    BY <2>0 DEF Lasts, StringNames
  <2>. QED  BY <2>0, <2>1, <2>2, <2>3 DEF Follows, s
<1>10. Follows(Step("unroot", "", ""), s5, s6)
  BY Tuples
  DEF Follows, Allots, Restacks, Employs, State, Set, Step, Keeping, Makers, NeverMade,
      Allocating, Unrooted, LocalNames, Lasts, StringNames
<1>11. Follows(Step("unroot", "", ""), s6, s7)
  BY Tuples
  DEF Follows, Allots, Restacks, Employs, State, Set, Step, Keeping, Makers, NeverMade,
      Allocating, Unrooted, LocalNames, Lasts, StringNames
<1>12. Follows(Step("push", "result", ""), s7, s7)
  BY Tuples
  DEF Follows, Allots, Restacks, Employs, State, Set, Step, Keeping, Makers, NeverMade,
      Allocating, Unrooted, LocalNames, Lasts, StringNames
<1>13. Follows(Step("closure", "closure", "fn"), s0, c1)
  BY Tuples
  DEF Follows, Allots, Restacks, Employs, State, Set, Step, Keeping, Makers, NeverMade,
      Allocating, Unrooted, LocalNames, Lasts, StringNames
<1>14. Follows(Step("push", "closure", ""), c1, c2)
  BY Tuples
  DEF Follows, Allots, Restacks, Employs, State, Set, Step, Keeping, Makers, NeverMade,
      Allocating, Unrooted, LocalNames, Lasts, StringNames
<1>15. Follows(Step("upvalue", "upvalue", "closure"), c2, c3)
  BY Tuples
  DEF Follows, Allots, Restacks, Employs, State, Set, Step, Keeping, Makers, NeverMade,
      Allocating, Unrooted, LocalNames, Lasts, StringNames
<1>16. Follows(Step("capture", "closure", "upvalue"), c3, c3)
  BY Tuples
  DEF Follows, Allots, Restacks, Employs, State, Set, Step, Keeping, Makers, NeverMade,
      Allocating, Unrooted, LocalNames, Lasts, StringNames
<1> HIDE DEF s0, s1, s2, s3, s4, s5, s6, s7, c1, c2, c3
<1>17. /\ Path(<<Step("string", "from", "")>>, s0, s1)
      /\ Path(<<Step("root", "from", "from")>>, s1, s2)
      /\ Path(<<Step("string", "to", "")>>, s2, s3)
      /\ Path(<<Step("root", "to", "to")>>, s3, s4)
      /\ Path(<<Step("grow", "from", "to")>>, s4, s4)
      /\ Path(<<Step("string", "result", "")>>, s4, s5)
      /\ Path(<<Step("unroot", "", "")>>, s5, s6)
      /\ Path(<<Step("unroot", "", "")>>, s6, s7)
      /\ Path(<<Step("push", "result", "")>>, s7, s7)
      /\ Path(<<Step("closure", "closure", "fn")>>, s0, c1)
      /\ Path(<<Step("push", "closure", "")>>, c1, c2)
      /\ Path(<<Step("upvalue", "upvalue", "closure")>>, c2, c3)
      /\ Path(<<Step("capture", "closure", "upvalue")>>, c3, c3)
  BY <1>1, <1>2, <1>3, <1>4, <1>5, <1>6, <1>7, <1>8, <1>9, <1>10, <1>11, <1>12, <1>13, <1>14,
     <1>15, <1>16, Walk
<1>18. /\ Path(<<Step("grow", "from", "to"), Step("string", "result", "")>>, s4, s5)
      /\ Path(MakeClosure, s0, c3)
  BY <1>17, Walks DEF MakeClosure
<1>19. Path(RangeToString, s0, s7)
  BY <1>17, <1>18, PathJoined, Zenon DEF RangeToString, PushRoot, PopRoot
<1>. QED
  BY <1>18, <1>19 DEF s0, s7, c3

\* The compiler keeps the second string and the function, until it has finished.
LEMMA CompilePath ==
  ASSUME NEW strings \in 0..2, NEW d \in {{}, {"module"}}
  PROVE  Path(WrenCompile(strings), State(<<"name">>, {}, {}, d, FALSE),
              State(<<"name">>, {}, {"fn"}, d \cup {"token2"}, FALSE))
<1> DEFINE e == d \cup {"token2"}
           s0 == State(<<"name">>, {}, {}, d, FALSE)
           s1 == State(<<"name">>, {}, {"token2"}, d, FALSE)
           t1 == State(<<"name">>, {}, {}, d, TRUE)
           t2 == State(<<"name">>, {}, {"token2"}, d, TRUE)
           t3 == State(<<"name">>, {}, {}, e, TRUE)
           s4 == State(<<"name">>, {}, {}, e, FALSE)
           f0 == State(<<"name">>, {}, {"fn"}, e, FALSE)
           f1 == State(<<"name">>, {}, {"fn"}, e, TRUE)
           f2 == State(<<"name">>, {"fn"}, {}, e, TRUE)
           f3 == StateOf(<<"name", "token1">>, {"fn"}, {}, e, TRUE, {"token1"}, "none")
           g2 == StateOf(<<"name">>, {"fn"}, {}, e, TRUE, {"token1"}, "none")
<1>1. d \in SUBSET LocalNames /\ e \in SUBSET LocalNames /\ d \subseteq e /\ "" \notin e
      /\ {"name", "token1", "token2", "fn"} \subseteq LocalNames
  BY DEF LocalNames
<1> HIDE DEF e
<1>2. /\ <<"name">> \in Seq(LocalNames) /\ <<"name", "token1">> \in Seq(LocalNames)
      /\ {} \in SUBSET LocalNames /\ {"token2"} \in SUBSET LocalNames
      /\ {"fn"} \in SUBSET LocalNames /\ {"token1"} \in SUBSET LocalNames
  <2>1. /\ "name" \in LocalNames /\ "token1" \in LocalNames /\ "fn" \in LocalNames
        /\ "token2" \in LocalNames
    BY DEF LocalNames
  <2>2. <<"name">> \in Seq(LocalNames) /\ <<"name", "token1">> \in Seq(LocalNames)
    BY <2>1
  <2>. QED  BY <2>1, <2>2
<1>3. /\ s0 \in States
      /\ s1 \in States
      /\ t1 \in States
      /\ t2 \in States
      /\ t3 \in States
      /\ s4 \in States
      /\ f0 \in States
      /\ f1 \in States
      /\ f2 \in States
      /\ f3 \in States
      /\ g2 \in States
  BY <1>1, <1>2 DEF State, StateOf, States, Stages
<1>4. /\ {"string", "compiler", "grow", "fn", "root", "unroot", "constant", "endCompiler"}
           \subseteq Operations
      /\ {"", "token1", "token2", "fn"}
           \subseteq LocalNames
  BY DEF Operations, Allocating, LocalNames
<1>5. /\ f0.dead \subseteq f2.dead
      /\ f1.dead \subseteq f2.dead
      /\ f2.dead \subseteq f0.dead
      /\ f2.dead \subseteq f3.dead
      /\ f3.dead \subseteq g2.dead
      /\ g2.dead \subseteq f2.dead
      /\ s0.dead \subseteq s1.dead
      /\ s0.dead \subseteq s4.dead
      /\ s0.dead \subseteq t1.dead
      /\ s1.dead \subseteq t2.dead
      /\ s4.dead \subseteq f0.dead
      /\ t1.dead \subseteq t3.dead
      /\ t2.dead \subseteq t3.dead
      /\ t3.dead \subseteq f1.dead
  BY <1>1 DEF State, StateOf
<1>6. Follows(Step("string", "token1", ""), s0, s0)
  BY Tuples
  DEF Follows, Allots, Restacks, Employs, State, StateOf, Set, Step, Keeping, Makers,
      NeverMade, Allocating, Unrooted, LocalNames, Lasts, StringNames, e
<1>7. Follows(Step("string", "token2", ""), s0, s1)
  BY Tuples
  DEF Follows, Allots, Restacks, Employs, State, StateOf, Set, Step, Keeping, Makers,
      NeverMade, Allocating, Unrooted, LocalNames, Lasts, StringNames, e
<1>8. Follows(Step("compiler", "token1", ""), s0, t1)
  BY Tuples
  DEF Follows, Allots, Restacks, Employs, State, StateOf, Set, Step, Keeping, Makers,
      NeverMade, Allocating, Unrooted, LocalNames, Lasts, StringNames, e
<1>9. Follows(Step("compiler", "token1", ""), s1, t2)
  BY Tuples
  DEF Follows, Allots, Restacks, Employs, State, StateOf, Set, Step, Keeping, Makers,
      NeverMade, Allocating, Unrooted, LocalNames, Lasts, StringNames, e
<1>10. Follows(Step("compiler", "token2", ""), t2, t3)
  BY Tuples
  DEF Follows, Allots, Restacks, Employs, State, StateOf, Set, Step, Keeping, Makers,
      NeverMade, Allocating, Unrooted, LocalNames, Lasts, StringNames, e
<1>11. Follows(Step("grow", "", ""), s0, s4)
  BY Tuples
  DEF Follows, Allots, Restacks, Employs, State, StateOf, Set, Step, Keeping, Makers,
      NeverMade, Allocating, Unrooted, LocalNames, Lasts, StringNames, e
<1>12. Follows(Step("grow", "", ""), t1, t3)
  BY Tuples
  DEF Follows, Allots, Restacks, Employs, State, StateOf, Set, Step, Keeping, Makers,
      NeverMade, Allocating, Unrooted, LocalNames, Lasts, StringNames, e
<1>13. Follows(Step("grow", "", ""), t3, t3)
  BY Tuples
  DEF Follows, Allots, Restacks, Employs, State, StateOf, Set, Step, Keeping, Makers,
      NeverMade, Allocating, Unrooted, LocalNames, Lasts, StringNames, e
<1>14. Follows(Step("fn", "fn", ""), s4, f0)
  BY Tuples
  DEF Follows, Allots, Restacks, Employs, State, StateOf, Set, Step, Keeping, Makers,
      NeverMade, Allocating, Unrooted, LocalNames, Lasts, StringNames, e
<1>15. Follows(Step("fn", "fn", ""), t3, f1)
  BY Tuples
  DEF Follows, Allots, Restacks, Employs, State, StateOf, Set, Step, Keeping, Makers,
      NeverMade, Allocating, Unrooted, LocalNames, Lasts, StringNames, e
<1>16. Follows(Step("compiler", "fn", ""), f0, f2)
  BY Tuples
  DEF Follows, Allots, Restacks, Employs, State, StateOf, Set, Step, Keeping, Makers,
      NeverMade, Allocating, Unrooted, LocalNames, Lasts, StringNames, e
<1>17. Follows(Step("compiler", "fn", ""), f1, f2)
  BY Tuples
  DEF Follows, Allots, Restacks, Employs, State, StateOf, Set, Step, Keeping, Makers,
      NeverMade, Allocating, Unrooted, LocalNames, Lasts, StringNames, e
<1>18. Follows(Step("root", "token1", "token1"), f2, f3)
  BY Tuples
  DEF Follows, Allots, Restacks, Employs, State, StateOf, Set, Step, Keeping, Makers,
      NeverMade, Allocating, Unrooted, LocalNames, Lasts, StringNames, e
<1>19. Follows(Step("grow", "fn", "fn"), f3, f3)
  BY Tuples
  DEF Follows, Allots, Restacks, Employs, State, StateOf, Set, Step, Keeping, Makers,
      NeverMade, Allocating, Unrooted, LocalNames, Lasts, StringNames, e
<1>20. Follows(Step("unroot", "", ""), f3, g2)
  <2>1. /\ Len(f3.roots) = Len(g2.roots) + 1
        /\ \A j \in 1..Len(g2.roots) : g2.roots[j] = f3.roots[j]
    BY DEF StateOf
  <2>2. Set(f3) \subseteq Set(g2) \cup g2.dead
    BY Tuples DEF StateOf, Set, Unrooted
  <2>3. g2.source = f3.source /\ g2.kept = f3.kept /\ g2.bare = {} /\ "" \notin f3.dead
        /\ g2.live = f3.live /\ g2.stage = "none"
    BY <1>1 DEF StateOf
  <2> HIDE DEF g2, f3
  <2>. QED  BY <2>1, <2>2, <2>3
            DEF Follows, Allots, Restacks, Employs, Lasts, Step, Keeping, Makers, Allocating,
                NeverMade
<1>21. Follows(Step("constant", "fn", "token1"), g2, f2)
  BY Tuples
  DEF Follows, Allots, Restacks, Employs, State, StateOf, Set, Step, Keeping, Makers,
      NeverMade, Allocating, Unrooted, LocalNames, Lasts, StringNames, e
<1>22. Follows(Step("grow", "fn", "fn"), f2, f2)
  BY Tuples
  DEF Follows, Allots, Restacks, Employs, State, StateOf, Set, Step, Keeping, Makers,
      NeverMade, Allocating, Unrooted, LocalNames, Lasts, StringNames, e
<1>23. Follows(Step("endCompiler", "fn", ""), f2, f0)
  BY Tuples
  DEF Follows, Allots, Restacks, Employs, State, StateOf, Set, Step, Keeping, Makers,
      NeverMade, Allocating, Unrooted, LocalNames, Lasts, StringNames, e
<1> HIDE DEF e, s0, s1, t1, t2, t3, s4, f0, f1, f2, f3, g2
<1>24. /\ Path(<<Step("string", "token1", "")>>, s0, s0)
       /\ Path(<<Step("string", "token2", "")>>, s0, s1)
       /\ Path(<<Step("compiler", "token1", "")>>, s0, t1)
       /\ Path(<<Step("compiler", "token1", "")>>, s1, t2)
       /\ Path(<<Step("compiler", "token2", "")>>, t2, t3)
       /\ Path(<<Step("grow", "", "")>>, s0, s4)
       /\ Path(<<Step("grow", "", "")>>, t1, t3)
       /\ Path(<<Step("grow", "", "")>>, t3, t3)
       /\ Path(<<Step("fn", "fn", "")>>, s4, f0)
       /\ Path(<<Step("fn", "fn", "")>>, t3, f1)
       /\ Path(<<Step("compiler", "fn", "")>>, f0, f2)
       /\ Path(<<Step("compiler", "fn", "")>>, f1, f2)
       /\ Path(<<Step("root", "token1", "token1")>>, f2, f3)
       /\ Path(<<Step("grow", "fn", "fn")>>, f3, f3)
       /\ Path(<<Step("unroot", "", "")>>, f3, g2)
       /\ Path(<<Step("constant", "fn", "token1")>>, g2, f2)
       /\ Path(<<Step("grow", "fn", "fn")>>, f2, f2)
       /\ Path(<<Step("endCompiler", "fn", "")>>, f2, f0)
  BY <1>3, <1>4, <1>5, <1>6, <1>7, <1>8, <1>9, <1>10, <1>11, <1>12, <1>13, <1>14, <1>15, <1>16,
     <1>17, <1>18, <1>19, <1>20, <1>21, <1>22, <1>23, Walk
<1>25. Path(<<>>, s0, s0) /\ Path(<<>>, t1, t1) /\ Path(<<>>, f2, f2)
  BY <1>3, PathNone
<1>26. Path(AddConstant("fn", "token1"), f2, f2)
  BY <1>24, PathJoined, Zenon DEF AddConstant, PushRoot, PopRoot, Grow
<1>27. /\ Path(WrenNewFunction("fn"), s0, f0) /\ Path(WrenNewFunction("fn"), t1, f1)
       /\ Path(WrenNewFunction("fn"), t3, f1)
  BY <1>24, PathJoined, Zenon DEF WrenNewFunction, Grow
<1> DEFINE p1 == IF strings >= 1 THEN <<Step("string", "token1", "")>> ELSE <<>>
           p2 == IF strings = 2 THEN <<Step("string", "token2", "")>> ELSE <<>>
           p3 == IF strings >= 1 THEN <<Step("compiler", "token1", "")>> ELSE <<>>
           p4 == IF strings = 2 THEN <<Step("compiler", "token2", "")>> ELSE <<>>
           p5 == IF strings >= 1 THEN AddConstant("fn", "token1") ELSE <<>>
           after == IF strings = 0 THEN s0 ELSE IF strings = 1 THEN t1 ELSE t3
           read == IF strings = 2 THEN s1 ELSE s0
           known == IF strings = 0 THEN s0 ELSE IF strings = 1 THEN t1 ELSE t2
           begun == IF strings = 0 THEN f0 ELSE f1
<1>28. strings = 0 \/ strings = 1 \/ strings = 2
  OBVIOUS
<1>29. /\ Path(p1, s0, s0) /\ Path(p2, s0, read) /\ Path(p3, read, known)
       /\ Path(p4, known, after) /\ Path(p5, f2, f2)
  <2>1. CASE strings = 0
    BY <1>25, <2>1
  <2>2. CASE strings = 1
    <3>1. /\ p1 = <<Step("string", "token1", "")>> /\ p2 = <<>>
          /\ p3 = <<Step("compiler", "token1", "")>> /\ p4 = <<>>
          /\ p5 = AddConstant("fn", "token1") /\ read = s0 /\ known = t1 /\ after = t1
      BY <2>2
    <3> HIDE DEF p1, p2, p3, p4, p5, after, read, known
    <3>. QED  BY <1>24, <1>25, <1>26, <3>1
  <2>3. CASE strings = 2
    <3>1. /\ p1 = <<Step("string", "token1", "")>> /\ p2 = <<Step("string", "token2", "")>>
          /\ p3 = <<Step("compiler", "token1", "")>> /\ p4 = <<Step("compiler", "token2", "")>>
          /\ p5 = AddConstant("fn", "token1") /\ read = s1 /\ known = t2 /\ after = t3
      BY <2>3
    <3> HIDE DEF p1, p2, p3, p4, p5, after, read, known
    <3>. QED  BY <1>24, <1>26, <3>1
  <2>. QED  BY <1>28, <2>1, <2>2, <2>3
<1>30. /\ Path(WrenNewFunction("fn"), after, begun)
       /\ Path(<<Step("compiler", "fn", "")>>, begun, f2)
  BY <1>24, <1>27, <1>28
<1>31. WrenCompile(strings) =
         p1 \o p2 \o p3 \o p4 \o WrenNewFunction("fn") \o <<Step("compiler", "fn", "")>>
            \o p5 \o Grow("fn") \o <<Step("endCompiler", "fn", "")>>
  BY DEF WrenCompile
<1> HIDE DEF p1, p2, p3, p4, p5, after, read, known, begun
<1>32. Path(p1 \o p2 \o p3 \o p4 \o WrenNewFunction("fn") \o <<Step("compiler", "fn", "")>>
               \o p5 \o Grow("fn") \o <<Step("endCompiler", "fn", "")>>, s0, f0)
  BY <1>24, <1>29, <1>30, PathJoined, Zenon DEF Grow
<1>. QED
  BY <1>31, <1>32 DEF s0, f0, e

\* A module is rooted until it is registered, and what it is compiled to until it is pushed.
LEMMA ImportPath ==
  ASSUME NEW strings \in 0..2
  PROVE  Path(ImportModule(strings), State(<<>>, {}, {}, {}, FALSE),
              State(<<>>, {}, {"closure"}, {"module", "token2", "fn", "name"}, FALSE))
<1> DEFINE s0 == State(<<>>, {}, {}, {}, FALSE)
           s1 == State(<<>>, {}, {"name"}, {}, FALSE)
           s2 == State(<<"name">>, {}, {}, {}, FALSE)
           m1 == State(<<"name">>, {}, {"module"}, {}, FALSE)
           m2 == State(<<"name", "module">>, {}, {}, {}, FALSE)
           m3 == State(<<"name">>, {}, {}, {"module"}, FALSE)
           f0 == State(<<"name">>, {}, {"fn"}, {"module", "token2"}, FALSE)
           f1 == State(<<"name", "fn">>, {}, {}, {"module", "token2"}, FALSE)
           f2 == State(<<"name", "fn">>, {}, {"closure"}, {"module", "token2"}, FALSE)
           f3 == State(<<"name">>, {}, {"closure"}, {"module", "token2", "fn"}, FALSE)
           f4 == State(<<>>, {}, {"closure"}, {"module", "token2", "fn", "name"}, FALSE)
<1>1. /\ s0 \in States
      /\ s1 \in States
      /\ s2 \in States
      /\ m1 \in States
      /\ m2 \in States
      /\ m3 \in States
      /\ f0 \in States
      /\ f1 \in States
      /\ f2 \in States
      /\ f3 \in States
      /\ f4 \in States
  BY DEF State, States, Stages, LocalNames
<1>2. /\ {"string", "root", "module", "unroot", "grow", "register", "closure", "push"}
           \subseteq Operations
      /\ {"", "name", "module", "fn", "closure"}
           \subseteq LocalNames
  BY DEF Operations, Allocating, LocalNames
<1>3. /\ f0.dead \subseteq f1.dead
      /\ f1.dead \subseteq f2.dead
      /\ f2.dead \subseteq f3.dead
      /\ f3.dead \subseteq f4.dead
      /\ m1.dead \subseteq m2.dead
      /\ m1.dead \subseteq m3.dead
      /\ m2.dead \subseteq m1.dead
      /\ s0.dead \subseteq s1.dead
      /\ s1.dead \subseteq s2.dead
      /\ s2.dead \subseteq m1.dead
  BY DEF State
<1>4. Follows(Step("string", "name", ""), s0, s1)
  BY Tuples
  DEF Follows, Allots, Restacks, Employs, State, Set, Step, Keeping, Makers, NeverMade,
      Allocating, Unrooted, LocalNames, Lasts, StringNames
<1>5. Follows(Step("root", "name", "name"), s1, s2)
  BY Tuples
  DEF Follows, Allots, Restacks, Employs, State, Set, Step, Keeping, Makers, NeverMade,
      Allocating, Unrooted, LocalNames, Lasts, StringNames
<1>6. Follows(Step("module", "module", "name"), s2, m1)
  BY Tuples
  DEF Follows, Allots, Restacks, Employs, State, Set, Step, Keeping, Makers, NeverMade,
      Allocating, Unrooted, LocalNames, Lasts, StringNames
<1>7. Follows(Step("root", "module", "module"), m1, m2)
  BY Tuples
  DEF Follows, Allots, Restacks, Employs, State, Set, Step, Keeping, Makers, NeverMade,
      Allocating, Unrooted, LocalNames, Lasts, StringNames
<1>8. Follows(Step("unroot", "", ""), m2, m1)
  BY Tuples
  DEF Follows, Allots, Restacks, Employs, State, Set, Step, Keeping, Makers, NeverMade,
      Allocating, Unrooted, LocalNames, Lasts, StringNames
<1>9. Follows(Step("grow", "module", "module"), m2, m2)
  BY Tuples
  DEF Follows, Allots, Restacks, Employs, State, Set, Step, Keeping, Makers, NeverMade,
      Allocating, Unrooted, LocalNames, Lasts, StringNames
<1>10. Follows(Step("register", "module", ""), m1, m3)
  BY Tuples
  DEF Follows, Allots, Restacks, Employs, State, Set, Step, Keeping, Makers, NeverMade,
      Allocating, Unrooted, LocalNames, Lasts, StringNames
<1>11. Follows(Step("root", "fn", "fn"), f0, f1)
  BY Tuples
  DEF Follows, Allots, Restacks, Employs, State, Set, Step, Keeping, Makers, NeverMade,
      Allocating, Unrooted, LocalNames, Lasts, StringNames
<1>12. Follows(Step("closure", "closure", "fn"), f1, f2)
  BY Tuples
  DEF Follows, Allots, Restacks, Employs, State, Set, Step, Keeping, Makers, NeverMade,
      Allocating, Unrooted, LocalNames, Lasts, StringNames
<1>13. Follows(Step("unroot", "", ""), f2, f3)
  BY Tuples
  DEF Follows, Allots, Restacks, Employs, State, Set, Step, Keeping, Makers, NeverMade,
      Allocating, Unrooted, LocalNames, Lasts, StringNames
<1>14. Follows(Step("unroot", "", ""), f3, f4)
  BY Tuples
  DEF Follows, Allots, Restacks, Employs, State, Set, Step, Keeping, Makers, NeverMade,
      Allocating, Unrooted, LocalNames, Lasts, StringNames
<1>15. Follows(Step("push", "closure", ""), f4, f4)
  BY Tuples
  DEF Follows, Allots, Restacks, Employs, State, Set, Step, Keeping, Makers, NeverMade,
      Allocating, Unrooted, LocalNames, Lasts, StringNames
<1> HIDE DEF s0, s1, s2, m1, m2, m3, f0, f1, f2, f3, f4
<1>16. /\ Path(<<Step("string", "name", "")>>, s0, s1)
      /\ Path(<<Step("root", "name", "name")>>, s1, s2)
      /\ Path(<<Step("module", "module", "name")>>, s2, m1)
      /\ Path(<<Step("root", "module", "module")>>, m1, m2)
      /\ Path(<<Step("unroot", "", "")>>, m2, m1)
      /\ Path(<<Step("grow", "module", "module")>>, m2, m2)
      /\ Path(<<Step("register", "module", "")>>, m1, m3)
      /\ Path(<<Step("root", "fn", "fn")>>, f0, f1)
      /\ Path(<<Step("closure", "closure", "fn")>>, f1, f2)
      /\ Path(<<Step("unroot", "", "")>>, f2, f3)
      /\ Path(<<Step("unroot", "", "")>>, f3, f4)
      /\ Path(<<Step("push", "closure", "")>>, f4, f4)
  BY <1>1, <1>2, <1>3, <1>4, <1>5, <1>6, <1>7, <1>8, <1>9, <1>10, <1>11, <1>12, <1>13, <1>14,
     <1>15, Walk
<1>17. Path(WrenCompile(strings), m3, f0)
  <2>1. {"module"} \cup {"token2"} = {"module", "token2"}
    OBVIOUS
  <2>. QED  BY <2>1, CompilePath DEF m3, f0
<1>18. Path(CompileInModule(strings), s2, f3)
  BY <1>16, <1>17, PathJoined, Zenon DEF CompileInModule, PushRoot, PopRoot, Grow
<1>19. Path(ImportModule(strings), s0, f4)
  BY <1>16, <1>18, PathJoined, Zenon DEF ImportModule, PushRoot, PopRoot
<1>. QED
  BY <1>19 DEF s0, f4

\* The same for a source that is run: its closure is rooted until it has a fiber,
\* which is entered.
LEMMA InterpretPath ==
  ASSUME NEW strings \in 0..2
  PROVE  Path(<<Step("string", "name", "")>> \o PushRoot("name") \o WrenCompile(strings)
                \o PushRoot("fn") \o <<Step("closure", "closure", "fn")>> \o PopRoot
                \o PopRoot \o PushRoot("closure") \o Grow("closure")
                \o <<Step("fiber", "fiber", "closure")>> \o PopRoot
                \o <<Step("enter", "fiber", "")>>,
              State(<<>>, {}, {}, {}, FALSE),
              State(<<>>, {}, {}, {"token2", "fn", "name", "closure", "fiber"}, FALSE))
<1> DEFINE s0 == State(<<>>, {}, {}, {}, FALSE)
           s1 == State(<<>>, {}, {"name"}, {}, FALSE)
           s2 == State(<<"name">>, {}, {}, {}, FALSE)
           f0 == State(<<"name">>, {}, {"fn"}, {"token2"}, FALSE)
           f1 == State(<<"name", "fn">>, {}, {}, {"token2"}, FALSE)
           f2 == State(<<"name", "fn">>, {}, {"closure"}, {"token2"}, FALSE)
           f3 == State(<<"name">>, {}, {"closure"}, {"token2", "fn"}, FALSE)
           f4 == State(<<>>, {}, {"closure"}, {"token2", "fn", "name"}, FALSE)
           c0 == State(<<"closure">>, {}, {}, {"token2", "fn", "name"}, FALSE)
           c1 == State(<<"closure">>, {}, {"fiber"}, {"token2", "fn", "name"}, FALSE)
           c2 == State(<<>>, {}, {"fiber"}, {"token2", "fn", "name", "closure"}, FALSE)
           c3 == State(<<>>, {}, {}, {"token2", "fn", "name", "closure", "fiber"}, FALSE)
<1>1. /\ s0 \in States
      /\ s1 \in States
      /\ s2 \in States
      /\ f0 \in States
      /\ f1 \in States
      /\ f2 \in States
      /\ f3 \in States
      /\ f4 \in States
      /\ c0 \in States
      /\ c1 \in States
      /\ c2 \in States
      /\ c3 \in States
  BY DEF State, States, Stages, LocalNames
<1>2. /\ {"string", "root", "closure", "unroot", "grow", "fiber", "enter"}
           \subseteq Operations
      /\ {"", "name", "fn", "closure", "fiber"}
           \subseteq LocalNames
  BY DEF Operations, Allocating, LocalNames
<1>3. /\ c0.dead \subseteq c1.dead
      /\ c1.dead \subseteq c2.dead
      /\ c2.dead \subseteq c3.dead
      /\ f0.dead \subseteq f1.dead
      /\ f1.dead \subseteq f2.dead
      /\ f2.dead \subseteq f3.dead
      /\ f3.dead \subseteq f4.dead
      /\ f4.dead \subseteq c0.dead
      /\ s0.dead \subseteq s1.dead
      /\ s1.dead \subseteq s2.dead
  BY DEF State
<1>4. Follows(Step("string", "name", ""), s0, s1)
  BY Tuples
  DEF Follows, Allots, Restacks, Employs, State, Set, Step, Keeping, Makers, NeverMade,
      Allocating, Unrooted, LocalNames, Lasts, StringNames
<1>5. Follows(Step("root", "name", "name"), s1, s2)
  BY Tuples
  DEF Follows, Allots, Restacks, Employs, State, Set, Step, Keeping, Makers, NeverMade,
      Allocating, Unrooted, LocalNames, Lasts, StringNames
<1>6. Follows(Step("root", "fn", "fn"), f0, f1)
  BY Tuples
  DEF Follows, Allots, Restacks, Employs, State, Set, Step, Keeping, Makers, NeverMade,
      Allocating, Unrooted, LocalNames, Lasts, StringNames
<1>7. Follows(Step("closure", "closure", "fn"), f1, f2)
  BY Tuples
  DEF Follows, Allots, Restacks, Employs, State, Set, Step, Keeping, Makers, NeverMade,
      Allocating, Unrooted, LocalNames, Lasts, StringNames
<1>8. Follows(Step("unroot", "", ""), f2, f3)
  BY Tuples
  DEF Follows, Allots, Restacks, Employs, State, Set, Step, Keeping, Makers, NeverMade,
      Allocating, Unrooted, LocalNames, Lasts, StringNames
<1>9. Follows(Step("unroot", "", ""), f3, f4)
  BY Tuples
  DEF Follows, Allots, Restacks, Employs, State, Set, Step, Keeping, Makers, NeverMade,
      Allocating, Unrooted, LocalNames, Lasts, StringNames
<1>10. Follows(Step("root", "closure", "closure"), f4, c0)
  BY Tuples
  DEF Follows, Allots, Restacks, Employs, State, Set, Step, Keeping, Makers, NeverMade,
      Allocating, Unrooted, LocalNames, Lasts, StringNames
<1>11. Follows(Step("grow", "closure", "closure"), c0, c0)
  BY Tuples
  DEF Follows, Allots, Restacks, Employs, State, Set, Step, Keeping, Makers, NeverMade,
      Allocating, Unrooted, LocalNames, Lasts, StringNames
<1>12. Follows(Step("fiber", "fiber", "closure"), c0, c1)
  BY Tuples
  DEF Follows, Allots, Restacks, Employs, State, Set, Step, Keeping, Makers, NeverMade,
      Allocating, Unrooted, LocalNames, Lasts, StringNames
<1>13. Follows(Step("unroot", "", ""), c1, c2)
  BY Tuples
  DEF Follows, Allots, Restacks, Employs, State, Set, Step, Keeping, Makers, NeverMade,
      Allocating, Unrooted, LocalNames, Lasts, StringNames
<1>14. Follows(Step("enter", "fiber", ""), c2, c3)
  BY Tuples
  DEF Follows, Allots, Restacks, Employs, State, Set, Step, Keeping, Makers, NeverMade,
      Allocating, Unrooted, LocalNames, Lasts, StringNames
<1> HIDE DEF s0, s1, s2, f0, f1, f2, f3, f4, c0, c1, c2, c3
<1>15. /\ Path(<<Step("string", "name", "")>>, s0, s1)
      /\ Path(<<Step("root", "name", "name")>>, s1, s2)
      /\ Path(<<Step("root", "fn", "fn")>>, f0, f1)
      /\ Path(<<Step("closure", "closure", "fn")>>, f1, f2)
      /\ Path(<<Step("unroot", "", "")>>, f2, f3)
      /\ Path(<<Step("unroot", "", "")>>, f3, f4)
      /\ Path(<<Step("root", "closure", "closure")>>, f4, c0)
      /\ Path(<<Step("grow", "closure", "closure")>>, c0, c0)
      /\ Path(<<Step("fiber", "fiber", "closure")>>, c0, c1)
      /\ Path(<<Step("unroot", "", "")>>, c1, c2)
      /\ Path(<<Step("enter", "fiber", "")>>, c2, c3)
  BY <1>1, <1>2, <1>3, <1>4, <1>5, <1>6, <1>7, <1>8, <1>9, <1>10, <1>11, <1>12, <1>13, <1>14, Walk
<1>16. Path(WrenCompile(strings), s2, f0)
  <2>1. {} \cup {"token2"} = {"token2"}
    OBVIOUS
  <2>. QED  BY <2>1, CompilePath DEF s2, f0
<1>17. Path(<<Step("string", "name", "")>> \o PushRoot("name") \o WrenCompile(strings)
                 \o PushRoot("fn") \o <<Step("closure", "closure", "fn")>> \o PopRoot
                 \o PopRoot \o PushRoot("closure") \o Grow("closure")
                 \o <<Step("fiber", "fiber", "closure")>> \o PopRoot
                 \o <<Step("enter", "fiber", "")>>, s0, c3)
  BY <1>15, <1>16, PathJoined, Zenon DEF PushRoot, PopRoot, Grow
<1>. QED
  BY <1>17 DEF s0, c3

-----------------------------------------------------------------------------
(* What programs name.                                                      *)

\* A program of C functions names a local.
Says(code, n) == code \in Seq(Steps) /\ n \in Names(code)

\* A program names what its parts name.
LEMMA SaidJoined ==
  ASSUME NEW s \in Seq(Steps), NEW t \in Seq(Steps)
  PROVE  /\ s \o t \in Seq(Steps)
         /\ \A n : Says(s, n) => Says(s \o t, n)
         /\ \A n : Says(t, n) => Says(s \o t, n)
<1>1. /\ s \o t \in Seq(Steps) /\ Len(s \o t) = Len(s) + Len(t)
      /\ \A k \in 1..Len(s) + Len(t) : (s \o t)[k] = IF k <= Len(s) THEN s[k] ELSE t[k - Len(s)]
      /\ Len(s) \in Nat /\ Len(t) \in Nat
  BY ConcatProperties
<1> DEFINE u == s \o t
<1>2. DOMAIN u = 1..Len(s) + Len(t) /\ DOMAIN s = 1..Len(s) /\ DOMAIN t = 1..Len(t)
  BY <1>1
<1> HIDE DEF u
<1>3. \A k \in DOMAIN s : k \in DOMAIN u /\ u[k] = s[k]
  BY <1>1, <1>2 DEF u
<1>4. \A k \in DOMAIN t : k + Len(s) \in DOMAIN u /\ u[k + Len(s)] = t[k]
  <2> TAKE k \in DOMAIN t
  <2>1. k + Len(s) \in 1..Len(s) + Len(t) /\ ~(k + Len(s) <= Len(s)) /\ k + Len(s) - Len(s) = k
    BY <1>1, <1>2
  <2>. QED  BY <1>1, <1>2, <2>1 DEF u
<1>5. \A n \in Names(s) : n \in Names(u)
  BY <1>3 DEF Names
<1>6. \A n \in Names(t) : n \in Names(u)
  BY <1>4 DEF Names
<1>. QED
  BY <1>1, <1>5, <1>6 DEF u, Says

\* And a sequence of steps names what its first step names.
LEMMA SaidFirst ==
  ASSUME NEW code \in Seq(Steps), code # <<>>, NEW n \in {code[1].x, code[1].y}
  PROVE  Says(code, n)
<1>1. 1 \in DOMAIN code
  OBVIOUS
<1>. QED
  BY <1>1 DEF Names, Says

\* The locals that programs begin with.
LEMMA SaidAtStart ==
  /\ Says(MakeClosure, "fn")
  /\ \A n \in {"superclass", "classClass", "name"}, code \in {<<>>, BindForeignClass} :
       Says(WrenNewClass \o <<Step("top", "classObj", "")>> \o code, n)
  /\ Says(WrenMakeHandle("value"), "value")
  /\ Says(ListRemoveAt, "removed")
  /\ Says(MapRemoveKey, "value")
  /\ Says(<<Step("string", "moduleName", "")>> \o PushRoot("moduleName") \o PopRoot
             \o <<Step("push", "value", "")>>, "value")
<1>1. ASSUME NEW do \in Plain, NEW x \in LocalNames, NEW y \in LocalNames
      PROVE  /\ <<Step(do, x, y)>> \in Seq(Steps) /\ Step(do, x, y) \in Steps
             /\ Says(<<Step(do, x, y)>>, x) /\ Says(<<Step(do, x, y)>>, y)
  <2>1. Step(do, x, y) \in Steps /\ Step(do, x, y).x = x /\ Step(do, x, y).y = y
    BY OneStep DEF PlainSteps, Step
  <2>2. <<Step(do, x, y)>> \in Seq(Steps) /\ <<Step(do, x, y)>>[1] = Step(do, x, y)
        /\ <<Step(do, x, y)>> # <<>>
    BY <2>1
  <2>. QED  BY <2>1, <2>2, SaidFirst
<1>2. /\ {"string", "class", "grow", "superclass", "methods", "top", "push", "closure", "foreign",
           "handle"} \subseteq Plain
      /\ {"", "metaclassName", "metaclass", "classClass", "classObj", "name", "superclass", "fn",
          "value", "removed", "moduleName", "closure", "upvalue"} \subseteq LocalNames
  BY Spelled DEF LocalNames
<1>3. ASSUME NEW x \in LocalNames
      PROVE  PushRoot(x) \in Seq(Steps) /\ PopRoot \in Seq(Steps) /\ Says(PushRoot(x), x)
             /\ Grow(x) \in Seq(Steps)
  <2>1. Step("root", x, x) \in Steps /\ Step("unroot", "", "") \in Steps /\ Step("root", x, x).x = x
    BY DEF Step, Steps, Operations, LocalNames
  <2>2. PushRoot(x) \in Seq(Steps) /\ PopRoot \in Seq(Steps) /\ PushRoot(x) # <<>>
        /\ PushRoot(x)[1] = Step("root", x, x)
    <3>1. \A a \in Steps : <<a>> \in Seq(Steps) /\ <<a>> # <<>> /\ <<a>>[1] = a
      OBVIOUS
    <3>. QED  BY <2>1, <3>1, Zenon DEF PushRoot, PopRoot
  <2>3. Grow(x) \in Seq(Steps)
    BY <1>1, <1>2 DEF Grow
  <2>. QED  BY <2>1, <2>2, <2>3, SaidFirst
<1>4. Says(MakeClosure, "fn")
  <2>1. MakeClosure \in Seq(Steps)
    BY SmallPrograms DEF Runs
  <2>2. MakeClosure # <<>> /\ MakeClosure[1].y = "fn"
    BY DEF MakeClosure, Step
  <2>. QED  BY <2>1, <2>2, SaidFirst
<1>5. ASSUME NEW x \in {"metaclass", "classObj"}, NEW y \in {"classClass", "superclass"}
      PROVE  WrenBindSuperclass(x, y) \in Seq(Steps) /\ Says(WrenBindSuperclass(x, y), y)
  <2>1. Step("superclass", x, y) \in Steps /\ Step("grow", x, y) \in Steps
        /\ Step("methods", x, y) \in Steps /\ Step("superclass", x, y).y = y
    BY <1>1, <1>2 DEF Step
  <2>2. WrenBindSuperclass(x, y) \in Seq(Steps) /\ WrenBindSuperclass(x, y) # <<>>
        /\ WrenBindSuperclass(x, y)[1] = Step("superclass", x, y)
    BY <2>1 DEF WrenBindSuperclass
  <2>. QED  BY <2>1, <2>2, SaidFirst
<1>6. /\ WrenNewSingleClass("metaclass", "metaclassName") \in Seq(Steps)
      /\ WrenNewSingleClass("classObj", "name") \in Seq(Steps)
      /\ Says(WrenNewSingleClass("classObj", "name"), "name")
  <2>1. /\ <<Step("class", "metaclass", "metaclassName")>> \in Seq(Steps)
        /\ <<Step("class", "classObj", "name")>> \in Seq(Steps)
        /\ Says(<<Step("class", "classObj", "name")>>, "name")
        /\ PushRoot("metaclass") \in Seq(Steps) /\ PushRoot("classObj") \in Seq(Steps)
        /\ PopRoot \in Seq(Steps)
    BY <1>1, <1>2, <1>3
  <2>. QED  BY <2>1, SaidJoined, Zenon DEF WrenNewSingleClass
<1>7. WrenNewClass \in Seq(Steps) /\ BindForeignClass \in Seq(Steps)
  BY ClassPrograms DEF Runs
<1>8. \A n \in {"superclass", "classClass", "name"} : Says(WrenNewClass, n)
  <2>1. /\ <<Step("string", "metaclassName", "")>> \in Seq(Steps)
        /\ PushRoot("metaclassName") \in Seq(Steps) /\ PushRoot("metaclass") \in Seq(Steps)
        /\ PushRoot("classObj") \in Seq(Steps) /\ PopRoot \in Seq(Steps)
    BY <1>1, <1>2, <1>3
  <2>2. <<Step("metaclass", "classObj", "metaclass")>> \in Seq(Steps)
    <3>1. Step("metaclass", "classObj", "metaclass") \in Steps
      BY DEF Step, Steps, Operations, LocalNames
    <3>. QED  BY <3>1
  <2>3. /\ WrenBindSuperclass("metaclass", "classClass") \in Seq(Steps)
        /\ WrenBindSuperclass("classObj", "superclass") \in Seq(Steps)
        /\ Says(WrenBindSuperclass("metaclass", "classClass"), "classClass")
        /\ Says(WrenBindSuperclass("classObj", "superclass"), "superclass")
    BY <1>5
  <2>4. Says(WrenNewClass, "superclass")
    BY <1>6, <2>1, <2>2, <2>3, SaidJoined, Zenon DEF WrenNewClass
  <2>5. Says(WrenNewClass, "classClass")
    BY <1>6, <2>1, <2>2, <2>3, SaidJoined, Zenon DEF WrenNewClass
  <2>6. Says(WrenNewClass, "name")
    BY <1>6, <2>1, <2>2, <2>3, SaidJoined, Zenon DEF WrenNewClass
  <2>. QED  BY <2>4, <2>5, <2>6
<1>9. \A n \in {"superclass", "classClass", "name"}, code \in {<<>>, BindForeignClass} :
        Says(WrenNewClass \o <<Step("top", "classObj", "")>> \o code, n)
  <2> TAKE n \in {"superclass", "classClass", "name"}, code \in {<<>>, BindForeignClass}
  <2>1. <<Step("top", "classObj", "")>> \in Seq(Steps) /\ code \in Seq(Steps)
    <3>1. <<>> \in Seq(Steps)
      OBVIOUS
    <3>2. <<Step("top", "classObj", "")>> \in Seq(Steps)
      BY <1>1, <1>2
    <3>. QED  BY <1>7, <3>1, <3>2, Zenon
  <2>2. Says(WrenNewClass, n)
    BY <1>8
  <2> HIDE DEF WrenNewClass, BindForeignClass
  <2>. QED  BY <1>7, <2>1, <2>2, SaidJoined, Zenon
<1>10. Says(WrenMakeHandle("value"), "value") /\ Says(ListRemoveAt, "removed")
       /\ Says(MapRemoveKey, "value")
  <2>1. /\ Says(PushRoot("value"), "value") /\ Says(PushRoot("removed"), "removed")
        /\ PushRoot("value") \in Seq(Steps) /\ PushRoot("removed") \in Seq(Steps)
        /\ PopRoot \in Seq(Steps) /\ Grow("value") \in Seq(Steps) /\ Grow("") \in Seq(Steps)
        /\ <<Step("handle", "value", "")>> \in Seq(Steps)
        /\ <<Step("push", "value", "")>> \in Seq(Steps)
        /\ <<Step("push", "removed", "")>> \in Seq(Steps)
    BY <1>1, <1>2, <1>3
  <2>2. Says(WrenMakeHandle("value"), "value")
    BY <2>1, SaidJoined, Zenon DEF WrenMakeHandle
  <2>3. Says(ListRemoveAt, "removed")
    BY <2>1, SaidJoined, Zenon DEF ListRemoveAt
  <2>4. Says(MapRemoveKey, "value")
    BY <2>1, SaidJoined, Zenon DEF MapRemoveKey
  <2>. QED  BY <2>2, <2>3, <2>4
<1>11. Says(<<Step("string", "moduleName", "")>> \o PushRoot("moduleName") \o PopRoot
              \o <<Step("push", "value", "")>>, "value")
  <2>1. /\ <<Step("string", "moduleName", "")>> \in Seq(Steps)
        /\ PushRoot("moduleName") \in Seq(Steps) /\ PopRoot \in Seq(Steps)
        /\ <<Step("push", "value", "")>> \in Seq(Steps)
        /\ Says(<<Step("push", "value", "")>>, "value")
    BY <1>1, <1>2, <1>3
  <2>. QED  BY <2>1, SaidJoined, Zenon
<1>. QED
  BY <1>4, <1>9, <1>10, <1>11

=============================================================================

--------------------------- MODULE WrenHeapSafety ---------------------------
(***************************************************************************)
(* Whatever is collected and whenever, an object that is still used is      *)
(* there (OnlyKnownDangling), and a collection frees everything that nobody *)
(* can get to (CollectsAll), for any scripts and any number of objects.     *)
(*                                                                         *)
(* The invariant is in three parts.  The heap is good: every pointer that   *)
(* the collector follows is to an allocated object or None, an open upvalue *)
(* is on the list of the fiber whose slot it points at, and no two fibers   *)
(* wait for the same one (Good).  What the machine knows of is allocated.   *)
(* And the C function in progress is at a place in its program where each   *)
(* local that a later step names is a temporary root, or on the stack, in a *)
(* handle, in the compiler or in the variable of the module, or else        *)
(* nothing is allocated before that has changed (Stands).  A collection     *)
(* then keeps all of it, because what it marks is closed under the pointers *)
(* it follows (Marks).                                                      *)
(*                                                                         *)
(* What it marks is also the least such set, so it frees the rest if every  *)
(* temporary root is a string or can be got to.  That is a fourth part:     *)
(* wherever a C function allocates, a local that is rooted is named by a    *)
(* later step, is a string, or is the metaclass of a class that is named    *)
(* (Serves).                                                                *)
(***************************************************************************)
EXTENDS WrenHeapProofs, WrenNumbers

\* A value that the collector follows, and one that it does not.
Value(h) == DOMAIN h \cup {None}
Past(n) == (1..n - 1) \cup {None}

\* The objects whose pointers are in V, but for those that are not followed, which
\* are in P.
ObjString == [kind : {"string"}]
ObjClass(V) ==
  [kind : {"class"}, class : V, superclass : V, name : V, methods : SUBSET V, foreign : BOOLEAN]
ObjInstance(V) == [kind : {"instance"}, class : V, fields : [{1} -> V]]
ObjForeign(P) == [kind : {"foreign"}, class : P]
ObjList(V) == [kind : {"list"}, elements : Seq(V)]
ObjMap(V) == [kind : {"map"}, entries : Seq([key : V, value : V])]
ObjModule(V) == [kind : {"module"}, name : V, variables : [{1} -> V]]
ObjFn(V) == [kind : {"fn"}, constants : SUBSET V]
ObjClosure(V) == [kind : {"closure"}, fn : V, upvalues : Seq(V)]
ObjUpvalue(V, P) == [kind : {"upvalue"}, fiber : P, slot : Nat, closed : V]
ObjFiber(V) ==
  [kind : {"fiber"}, stack : Seq(V), frames : Seq(V), openUpvalues : SUBSET V, caller : V,
   root : BOOLEAN]

Obj(V, P) ==
  UNION {ObjString, ObjClass(V), ObjInstance(V), ObjForeign(P), ObjList(V), ObjMap(V),
         ObjModule(V), ObjFn(V), ObjClosure(V), ObjUpvalue(V, P), ObjFiber(V)}

Typed(h, n) == \A o \in DOMAIN h : h[o] \in Obj(Value(h), Past(n))

Has(h, o, kind) == o \in DOMAIN h /\ h[o].kind = kind

\* The upvalues of closures, and those that are open.
Captures(h) ==
  \A o \in DOMAIN h : h[o].kind = "closure" =>
    \A u \in ToSet(h[o].upvalues) : Has(h, u, "upvalue")

Opened(h) ==
  /\ \A f \in DOMAIN h : h[f].kind = "fiber" =>
       \A u \in h[f].openUpvalues : Has(h, u, "upvalue") /\ h[u].fiber = f
  /\ \A u \in DOMAIN h : h[u].kind = "upvalue" /\ h[u].fiber \in DOMAIN h =>
       LET f == h[u].fiber
       IN h[f].kind = "fiber" /\ h[u].slot \in DOMAIN h[f].stack /\ u \in h[f].openUpvalues

\* A fiber that has not returned has a stack.
Stacked(h) ==
  \A f \in DOMAIN h : h[f].kind = "fiber" /\ h[f].frames # <<>> => h[f].stack # <<>>

\* The fiber that runs, and those that wait for it.
Waits(h, f) == Has(h, f, "fiber") /\ h[f].frames # <<>> /\ (h[f].root \/ h[f].caller # None)

Chained(h, f) ==
  /\ Waits(h, f)
  /\ \A g \in DOMAIN h : h[g].kind = "fiber" /\ h[g].caller # None =>
       LET c == h[g].caller
       IN /\ ~h[g].root /\ c # f /\ Waits(h, c)
          /\ \A k \in DOMAIN h : h[k].kind = "fiber" /\ h[k].caller = c => k = g

Ranged(h, n) == n \in Nat \ {0} /\ DOMAIN h \subseteq 1..n - 1 /\ None \notin DOMAIN h

Sound(h, n) ==
  /\ Ranged(h, n) /\ Typed(h, n) /\ Captures(h) /\ Opened(h) /\ Stacked(h)
  /\ Has(h, 1, "module")

Good(h, n, f) == Sound(h, n) /\ Chained(h, f)

-----------------------------------------------------------------------------
(* Marking.                                                                 *)

\* A set in U that grows from s round after round, as N says.
Rounded(g, U, N, s, k) ==
  /\ g \in [0..k -> SUBSET U]
  /\ \A n \in 0..k : g[n] = IF n = 0 THEN s ELSE N[g[n - 1]]

\* The rounds are there.
LEMMA Iterated ==
  ASSUME NEW U, NEW N \in [SUBSET U -> SUBSET U], NEW s \in SUBSET U, NEW m \in Nat
  PROVE  \E g : Rounded(g, U, N, s, m)
<1> DEFINE Upto(g, k) == Rounded(g, U, N, s, k)
           Lacking == {k \in Nat : ~\E g : Upto(g, k)}
<1>1. \E g : Upto(g, 0)
  <2>1. Upto([n \in 0..0 |-> s], 0)
    BY DEF Rounded
  <2>. QED  BY <2>1
<1>2. ASSUME NEW k \in Nat, NEW g, Upto(g, k)
      PROVE  \E h : Upto(h, k + 1)
  <2> DEFINE h == [n \in 0..k + 1 |-> IF n = k + 1 THEN N[g[k]] ELSE g[n]]
  <2>1. /\ g \in [0..k -> SUBSET U] /\ N[g[k]] \in SUBSET U
        /\ \A n \in 0..k : g[n] = IF n = 0 THEN s ELSE N[g[n - 1]]
    BY <1>2 DEF Rounded
  <2>2. h \in [0..k + 1 -> SUBSET U]
    BY <2>1
  <2>3. \A n \in 0..k + 1 : h[n] = IF n = 0 THEN s ELSE N[h[n - 1]]
    <3> TAKE n \in 0..k + 1
    <3>1. CASE n = k + 1
      <4>1. k \in 0..k + 1 /\ k # k + 1 /\ n - 1 = k /\ n # 0
        BY <3>1
      <4>2. h[n - 1] = g[k] /\ h[n] = N[g[k]]
        BY <3>1, <4>1
      <4>. QED  BY <4>1, <4>2
    <3>2. CASE n # k + 1
      <4>1. n \in 0..k /\ (n # 0 => n - 1 \in 0..k + 1 /\ n - 1 # k + 1)
        BY <3>2
      <4>2. h[n] = g[n] /\ (n # 0 => h[n - 1] = g[n - 1])
        BY <3>2, <4>1
      <4>. QED  BY <2>1, <4>1, <4>2
    <3>. QED  BY <3>1, <3>2
  <2> HIDE DEF h
  <2>4. Upto(h, k + 1)
    BY <2>2, <2>3 DEF Rounded
  <2>. QED  BY <2>4
<1>3. Lacking = {}
  <2> SUFFICES ASSUME Lacking # {} PROVE FALSE
    OBVIOUS
  <2>1. PICK k \in Lacking : \A l \in Lacking : k <= l
    <3> HIDE DEF Upto
    <3>1. Lacking \in SUBSET Nat
      OBVIOUS
    <3> HIDE DEF Lacking
    <3>. QED  BY <3>1, LeastExists
  <2> HIDE DEF Upto
  <2>2. k # 0 /\ k \in Nat
    BY <1>1, <2>1
  <2>3. k - 1 \in Nat /\ (k - 1) + 1 = k /\ k - 1 \notin Lacking
    BY <2>1, <2>2
  <2>. QED  BY <1>2, <2>1, <2>2, <2>3
<1>4. PICK g : Upto(g, m)
  <2> HIDE DEF Upto
  <2>. QED  BY <1>3
<1>. QED
  BY <1>4

Growing(g, U, N, s, k) ==
  /\ g[0] = s
  /\ \A n \in 1..k : g[n - 1] \in SUBSET U => g[n] = N[g[n - 1]]

\* It is within every set that has s and is closed.
Least(x, U, N, s) ==
  \A X : s \subseteq X /\ (\A y \in SUBSET U : y \subseteq X => N[y] \subseteq X)
           => x \subseteq X

\* After as many rounds as there are elements it is closed, and it is the least such
\* set.
LEMMA Settled ==
  ASSUME NEW U, IsFiniteSet(U), NEW N \in [SUBSET U -> SUBSET U],
         \A x \in SUBSET U : x \subseteq N[x],
         NEW s \in SUBSET U, NEW m \in Nat, Cardinality(U) <= m,
         NEW g, Growing(g, U, N, s, m)
  PROVE  /\ g[m] \in SUBSET U /\ s \subseteq g[m] /\ N[g[m]] = g[m]
         /\ Least(g[m], U, N, s)
<1>0. g[0] = s /\ \A n \in 1..m : g[n - 1] \in SUBSET U => g[n] = N[g[n - 1]]
  BY DEF Growing
<1> DEFINE Inside(n) ==
             \A X : s \subseteq X /\ (\A y \in SUBSET U : y \subseteq X => N[y] \subseteq X)
                      => g[n] \subseteq X
           Fills(n) == /\ g[n] \in SUBSET U /\ s \subseteq g[n]
                       /\ N[g[n]] = g[n] \/ Cardinality(g[n]) >= n
                       /\ Inside(n)
           Lacking == {n \in 0..m : ~Fills(n)}
<1>1. ASSUME NEW x \in SUBSET U
      PROVE  /\ IsFiniteSet(x) /\ Cardinality(x) \in Nat /\ Cardinality(x) <= Cardinality(U)
             /\ Cardinality(x) = Cardinality(U) => x = U
             /\ x # N[x] => Cardinality(N[x]) > Cardinality(x)
  <2>1. N[x] \in SUBSET U /\ x \subseteq N[x]
    OBVIOUS
  <2>2. IsFiniteSet(x) /\ IsFiniteSet(N[x])
    BY <2>1, FS_Subset
  <2>3. Cardinality(x) \in Nat /\ Cardinality(N[x]) \in Nat /\ Cardinality(U) \in Nat
    BY <2>2, FS_CardinalityType
  <2>. QED  BY <2>1, <2>2, <2>3, FS_Subset
<1>2. Fills(0)
  BY <1>0, <1>1
<1>3. ASSUME NEW n \in 1..m, Fills(n - 1)
      PROVE  Fills(n)
  <2> DEFINE x == g[n - 1]
  <2>1. /\ x \in SUBSET U /\ s \subseteq x /\ g[n] = N[x] /\ N[x] \in SUBSET U
        /\ x \subseteq N[x]
    BY <1>0, <1>3
  <2>2. Inside(n)
    BY <1>3, <2>1
  <2>3. N[g[n]] = g[n] \/ Cardinality(g[n]) >= n
    <3> HIDE DEF x, Inside
    <3>1. CASE N[x] = x
      BY <2>1, <3>1
    <3>2. CASE N[x] # x
      <4>1. Cardinality(x) >= n - 1
        BY <1>3, <3>2 DEF x
      <4>2. /\ Cardinality(x) \in Nat /\ Cardinality(N[x]) \in Nat
            /\ Cardinality(N[x]) > Cardinality(x)
        BY <1>1, <2>1, <3>2
      <4>. QED  BY <2>1, <4>1, <4>2
    <3>. QED  BY <3>1, <3>2
  <2>. QED  BY <2>1, <2>2, <2>3
<1> HIDE DEF Fills
<1>4. Lacking = {}
  <2> SUFFICES ASSUME Lacking # {} PROVE FALSE
    OBVIOUS
  <2>1. PICK k \in Lacking : \A l \in Lacking : k <= l
    <3>1. Lacking \in SUBSET Nat
      OBVIOUS
    <3> HIDE DEF Lacking
    <3>. QED  BY <3>1, LeastExists
  <2>2. k # 0 /\ k \in 1..m
    BY <1>2, <2>1
  <2>3. k - 1 \in 0..m /\ k - 1 \notin Lacking
    BY <2>1, <2>2
  <2>. QED  BY <1>3, <2>1, <2>2, <2>3
<1>5. Fills(m)
  BY <1>4
<1>6. g[m] \in SUBSET U /\ s \subseteq g[m] /\ Inside(m)
  BY <1>5 DEF Fills
<1>7. N[g[m]] = g[m]
  <2> DEFINE x == g[m]
  <2>1. CASE Cardinality(x) >= m
    <3> HIDE DEF Inside
    <3>1. x \in SUBSET U
      BY <1>6
    <3> HIDE DEF x
    <3>2. Cardinality(U) \in Nat
      BY FS_CardinalityType
    <3>3. x = U
      BY <1>1, <2>1, <3>1, <3>2
    <3>4. U \in SUBSET U
      OBVIOUS
    <3>5. U \subseteq N[U] /\ N[U] \in SUBSET U
      BY <3>4
    <3>6. N[x] = x
      BY <3>3, <3>5
    <3>. QED  BY <3>6 DEF x
  <2>. QED  BY <1>5, <2>1 DEF Fills
<1>. QED
  BY <1>6, <1>7 DEF Least

Nearer(s) == s \cup GrayObj(UNION {BlackenObject(o) : o \in s})

\* The rounds in which the gray stack is emptied.
Rounds(g, s) ==
  g = [n \in 0..MaxObjects |->
         IF n = 0 THEN s
         ELSE LET before == g[n - 1]
              IN before \cup GrayObj(UNION {BlackenObject(o) : o \in before})]

\* The last of the rounds is what is dark in the end.
LEMMA LastRound ==
  ASSUME NEW s
  PROVE  BlackenObjects(s) = dark \cup (CHOOSE g : Rounds(g, s))[MaxObjects]
  BY DEF BlackenObjects, Rounds

\* What is marked holds what it began with and all the allocated objects that its
\* objects point at, and nothing that is not within such a set.
LEMMA Marks ==
  ASSUME MaxObjects \in Nat, Allocated \subseteq 1..MaxObjects, dark = {},
         NEW s, s \subseteq Allocated
  PROVE  LET marked == BlackenObjects(s)
         IN /\ s \subseteq marked /\ marked \subseteq Allocated
            /\ \A o \in marked : Objects(BlackenObject(o)) \cap Allocated \subseteq marked
            /\ \A X : /\ s \subseteq X
                      /\ \A o \in X \cap Allocated :
                           Objects(BlackenObject(o)) \cap Allocated \subseteq X
                      => marked \subseteq X
<1> DEFINE U == Allocated
           N == [x \in SUBSET U |-> Nearer(x)]
           g == CHOOSE f : Rounds(f, s)
<1>1. /\ N \in [SUBSET U -> SUBSET U]
      /\ \A x \in SUBSET U : x \subseteq N[x] /\ N[x] = Nearer(x)
  BY DEF Nearer, GrayObj
<1>2. Rounds(g, s)
  <2>1. PICK f : Rounded(f, U, N, s, MaxObjects)
    <3>1. s \in SUBSET U
      OBVIOUS
    <3> HIDE DEF N, U
    <3>. QED  BY <1>1, <3>1, Iterated
  <2>2. /\ f \in [0..MaxObjects -> SUBSET U]
        /\ \A n \in 0..MaxObjects : f[n] = IF n = 0 THEN s ELSE N[f[n - 1]]
    BY <2>1 DEF Rounded
  <2> HIDE DEF N
  <2>3. \A n \in 0..MaxObjects : f[n] = IF n = 0 THEN s ELSE Nearer(f[n - 1])
    <3> TAKE n \in 0..MaxObjects
    <3>1. n # 0 => f[n - 1] \in SUBSET U
      BY <2>2
    <3>. QED  BY <1>1, <2>2, <3>1
  <2>4. f = [n \in 0..MaxObjects |-> f[n]]
    BY <2>2
  <2>5. f = [n \in 0..MaxObjects |-> IF n = 0 THEN s ELSE Nearer(f[n - 1])]
    BY <2>3, <2>4
  <2>6. Rounds(f, s)
    BY <2>5 DEF Rounds, Nearer
  <2>. QED  BY <2>6
<1> HIDE DEF g
<1>3. /\ g[0] = s
      /\ \A n \in 1..MaxObjects : g[n - 1] \in SUBSET U => g[n] = N[g[n - 1]]
  <2>1. g = [n \in 0..MaxObjects |-> IF n = 0 THEN s ELSE Nearer(g[n - 1])]
    BY <1>2 DEF Rounds, Nearer
  <2>2. \A n \in 0..MaxObjects : g[n] = IF n = 0 THEN s ELSE Nearer(g[n - 1])
    BY <2>1
  <2> HIDE DEF N
  <2>3. 0 \in 0..MaxObjects
    OBVIOUS
  <2>4. ASSUME NEW n \in 1..MaxObjects PROVE g[n] = Nearer(g[n - 1])
    BY <2>2
  <2>. QED  BY <1>1, <2>2, <2>3, <2>4
<1>4. IsFiniteSet(U) /\ Cardinality(U) <= MaxObjects
  <2>1. IsFiniteSet(1..MaxObjects) /\ Cardinality(1..MaxObjects) = MaxObjects
    BY FS_Interval
  <2>. QED  BY <2>1, FS_Subset
<1> DEFINE x == g[MaxObjects]
<1>5. /\ x \in SUBSET U /\ s \subseteq x /\ N[x] = x
      /\ Least(x, U, N, s)
  <2>1. s \in SUBSET U
    OBVIOUS
  <2>2. Growing(g, U, N, s, MaxObjects)
    BY <1>3 DEF Growing
  <2>3. \A y \in SUBSET U : y \subseteq N[y]
    BY <1>1
  <2> HIDE DEF N, U
  <2>. QED  BY <1>1, <1>4, <2>1, <2>2, <2>3, Settled
<1>6. BlackenObjects(s) = x
  BY LastRound DEF g
<1> HIDE DEF x, N
<1>7. ASSUME NEW o \in x PROVE Objects(BlackenObject(o)) \cap Allocated \subseteq x
  <2>1. Nearer(x) = x
    BY <1>1, <1>5
  <2>2. ASSUME NEW p \in BlackenObject(o), p \in Allocated, p # None
        PROVE  p \in x
    <3>1. p \in UNION {BlackenObject(q) : q \in x}
      BY <1>7
    <3>2. p \in Nearer(x)
      BY <2>2, <3>1, Zenon DEF Nearer, GrayObj, Objects
    <3>. QED  BY <2>1, <3>2
  <2>. QED  BY <2>2, Zenon DEF Objects
<1>8. ASSUME NEW X, s \subseteq X,
             \A o \in X \cap Allocated : Objects(BlackenObject(o)) \cap Allocated \subseteq X
      PROVE  x \subseteq X
  <2>1. ASSUME NEW y \in SUBSET U, y \subseteq X PROVE N[y] \subseteq X
    <3>1. ASSUME NEW p \in GrayObj(UNION {BlackenObject(o) : o \in y}) PROVE p \in X
      <4>1. PICK o \in y : p \in BlackenObject(o) /\ p \in Allocated /\ p # None
        BY DEF GrayObj, Objects
      <4>2. p \in Objects(BlackenObject(o)) \cap Allocated
        BY <4>1, Zenon DEF Objects
      <4>3. o \in X \cap Allocated
        BY <2>1
      <4>. QED  BY <1>8, <4>2, <4>3
    <3>2. Nearer(y) \subseteq X
      BY <2>1, <3>1 DEF Nearer
    <3>. QED  BY <1>1, <3>2
  <2>. QED  BY <1>5, <1>8, <2>1 DEF Least
<1>. QED
  BY <1>5, <1>6, <1>7, <1>8

-----------------------------------------------------------------------------
(* Objects and their pointers.                                              *)

\* The kind of an object says what it is made of.
LEMMA KindsApart ==
  ASSUME NEW V, NEW P, NEW r \in Obj(V, P)
  PROVE  /\ r.kind = "string" => r \in ObjString
         /\ r.kind = "class" => r \in ObjClass(V)
         /\ r.kind = "instance" => r \in ObjInstance(V)
         /\ r.kind = "foreign" => r \in ObjForeign(P)
         /\ r.kind = "list" => r \in ObjList(V)
         /\ r.kind = "map" => r \in ObjMap(V)
         /\ r.kind = "module" => r \in ObjModule(V)
         /\ r.kind = "fn" => r \in ObjFn(V)
         /\ r.kind = "closure" => r \in ObjClosure(V)
         /\ r.kind = "upvalue" => r \in ObjUpvalue(V, P)
         /\ r.kind = "fiber" => r \in ObjFiber(V)
         /\ r.kind \in {"string", "class", "instance", "foreign", "list", "map", "module", "fn",
                        "closure", "upvalue", "fiber"}
<1>1. /\ \A x \in ObjString : x.kind = "string"
      /\ \A x \in ObjClass(V) : x.kind = "class"
      /\ \A x \in ObjInstance(V) : x.kind = "instance"
      /\ \A x \in ObjForeign(P) : x.kind = "foreign"
      /\ \A x \in ObjList(V) : x.kind = "list"
      /\ \A x \in ObjMap(V) : x.kind = "map"
      /\ \A x \in ObjModule(V) : x.kind = "module"
      /\ \A x \in ObjFn(V) : x.kind = "fn"
      /\ \A x \in ObjClosure(V) : x.kind = "closure"
      /\ \A x \in ObjUpvalue(V, P) : x.kind = "upvalue"
      /\ \A x \in ObjFiber(V) : x.kind = "fiber"
  BY DEF ObjString, ObjClass, ObjInstance, ObjForeign, ObjList, ObjMap, ObjModule, ObjFn,
         ObjClosure, ObjUpvalue, ObjFiber
<1>. QED
  BY <1>1 DEF Obj

\* An object may come to be seen with more objects around it.
LEMMA MoreAround ==
  ASSUME NEW V, NEW W, V \subseteq W, NEW P, NEW Q, P \subseteq Q, NEW r \in Obj(V, P)
  PROVE  r \in Obj(W, Q)
<1>1. \A s \in Seq(V) : s \in Seq(W)
  OBVIOUS
<1>2. /\ ObjClass(V) \subseteq ObjClass(W) /\ ObjFn(V) \subseteq ObjFn(W)
      /\ ObjForeign(P) \subseteq ObjForeign(Q) /\ ObjUpvalue(V, P) \subseteq ObjUpvalue(W, Q)
  BY DEF ObjClass, ObjFn, ObjForeign, ObjUpvalue
<1>3. ObjInstance(V) \subseteq ObjInstance(W) /\ ObjModule(V) \subseteq ObjModule(W)
  BY DEF ObjInstance, ObjModule
<1>4. /\ ObjList(V) \subseteq ObjList(W) /\ ObjClosure(V) \subseteq ObjClosure(W)
      /\ ObjFiber(V) \subseteq ObjFiber(W)
  BY <1>1 DEF ObjList, ObjClosure, ObjFiber
<1>5. ObjMap(V) \subseteq ObjMap(W)
  <2>0. [key : V, value : V] \subseteq [key : W, value : W]
    OBVIOUS
  <2>1. \A s \in Seq([key : V, value : V]) : s \in Seq([key : W, value : W])
    <3> DEFINE A == [key : V, value : V]
               B == [key : W, value : W]
    <3> HIDE DEF A, B
    <3>1. A \subseteq B => \A s \in Seq(A) : s \in Seq(B)
      OBVIOUS
    <3>. QED  BY <2>0, <3>1 DEF A, B
  <2>. QED  BY <2>1 DEF ObjMap
<1>. QED
  BY <1>2, <1>3, <1>4, <1>5 DEF Obj

\* Or with fewer, if those it points at are among them.
LEMMA FewerAround ==
  ASSUME NEW V, NEW W, NEW P, NEW o \in Allocated, heap[o] \in Obj(V, P),
         BlackenObject(o) \subseteq W
  PROVE  heap[o] \in Obj(W, P)
<1> DEFINE r == heap[o]
<1>1. CASE r.kind = "string" \/ r.kind = "foreign"
  BY <1>1, KindsApart DEF Obj
<1>2. CASE r.kind = "class"
  <2>1. r \in ObjClass(V) /\ BlackenClass(o) \subseteq W
    BY <1>2, KindsApart DEF BlackenObject
  <2>2. r \in ObjClass(W)
    BY <2>1 DEF ObjClass, BlackenClass
  <2>. QED  BY <2>2 DEF Obj
<1>3. CASE r.kind = "instance"
  <2>1. r \in ObjInstance(V) /\ BlackenInstance(o) \subseteq W
    BY <1>3, KindsApart DEF BlackenObject
  <2>2. r \in ObjInstance(W)
    BY <2>1 DEF ObjInstance, BlackenInstance, ToSet
  <2>. QED  BY <2>2 DEF Obj
<1>4. CASE r.kind = "list"
  <2>1. r \in ObjList(V) /\ BlackenList(o) \subseteq W
    BY <1>4, KindsApart DEF BlackenObject
  <2>2. r \in ObjList(W)
    BY <2>1 DEF ObjList, BlackenList, ToSet
  <2>. QED  BY <2>2 DEF Obj
<1>5. CASE r.kind = "map"
  <2>1. r \in ObjMap(V) /\ BlackenMap(o) \subseteq W
    BY <1>5, KindsApart DEF BlackenObject
  <2>2. r.entries \in Seq([key : V, value : V]) /\ r \in [kind : {"map"}, entries : {r.entries}]
    BY <2>1 DEF ObjMap
  <2>3. ASSUME NEW i \in DOMAIN r.entries
        PROVE  r.entries[i] \in [key : W, value : W]
    <3> DEFINE A == [key : V, value : V]
               e == r.entries
               x == e[i]
    <3>1. x \in A
      <4>1. e \in Seq(A)
        BY <2>2
      <4> HIDE DEF A, e
      <4>2. i \in DOMAIN e
        BY DEF e
      <4>. QED  BY <4>1, <4>2
    <3>2. x \in ToSet(r.entries)
      BY DEF ToSet
    <3>3. {x.key, x.value} \in {{y.key, y.value} : y \in ToSet(r.entries)}
      <4> HIDE DEF x
      <4>. QED  BY <3>2
    <3>4. x.key \in W /\ x.value \in W
      <4> HIDE DEF x, A, e
      <4>. QED  BY <2>1, <3>3 DEF BlackenMap
    <3> HIDE DEF x, e
    <3>5. x \in [key : W, value : W]
      BY <3>1, <3>4
    <3>. QED  BY <3>5 DEF x, e
  <2>4. r.entries \in Seq([key : W, value : W])
    <3> DEFINE A == [key : V, value : V]
               B == [key : W, value : W]
               e == r.entries
    <3>1. e \in Seq(A) /\ \A i \in DOMAIN e : e[i] \in B
      BY <2>2, <2>3
    <3> HIDE DEF A, B, e
    <3>2. e \in Seq(B)
      BY <3>1
    <3>. QED  BY <3>2 DEF B, e
  <2>5. r \in ObjMap(W)
    BY <2>2, <2>4 DEF ObjMap
  <2>. QED  BY <2>5 DEF Obj
<1>6. CASE r.kind = "module"
  <2>1. r \in ObjModule(V) /\ BlackenModule(o) \subseteq W
    BY <1>6, KindsApart DEF BlackenObject
  <2>2. r \in ObjModule(W)
    BY <2>1 DEF ObjModule, BlackenModule, ToSet
  <2>. QED  BY <2>2 DEF Obj
<1>7. CASE r.kind = "fn"
  <2>1. r \in ObjFn(V) /\ BlackenFn(o) \subseteq W
    BY <1>7, KindsApart DEF BlackenObject
  <2>2. r \in ObjFn(W)
    BY <2>1 DEF ObjFn, BlackenFn
  <2>. QED  BY <2>2 DEF Obj
<1>8. CASE r.kind = "closure"
  <2>1. r \in ObjClosure(V) /\ BlackenClosure(o) \subseteq W
    BY <1>8, KindsApart DEF BlackenObject
  <2>2. r \in ObjClosure(W)
    BY <2>1 DEF ObjClosure, BlackenClosure, ToSet
  <2>. QED  BY <2>2 DEF Obj
<1>9. CASE r.kind = "upvalue"
  <2>1. r \in ObjUpvalue(V, P) /\ BlackenUpvalue(o) \subseteq W
    BY <1>9, KindsApart DEF BlackenObject
  <2>2. r \in ObjUpvalue(W, P)
    BY <2>1 DEF ObjUpvalue, BlackenUpvalue
  <2>. QED  BY <2>2 DEF Obj
<1>10. CASE r.kind = "fiber"
  <2>1. r \in ObjFiber(V) /\ BlackenFiber(o) \subseteq W
    BY <1>10, KindsApart DEF BlackenObject
  <2>2. /\ r \in [kind : {"fiber"}, stack : {r.stack}, frames : {r.frames},
                   openUpvalues : {r.openUpvalues}, caller : {r.caller}, root : BOOLEAN]
        /\ r.stack \in Seq(V) /\ r.frames \in Seq(V) /\ r.openUpvalues \subseteq V
    BY <2>1 DEF ObjFiber
  <2>3. /\ ToSet(r.stack) \subseteq W /\ ToSet(r.frames) \subseteq W
        /\ r.openUpvalues \subseteq W /\ r.caller \in W
    BY <2>1 DEF BlackenFiber
  <2>4. \A s \in Seq(V) : ToSet(s) \subseteq W => s \in Seq(W)
    BY DEF ToSet
  <2>5. r.stack \in Seq(W) /\ r.frames \in Seq(W) /\ r.openUpvalues \subseteq W
    BY <2>2, <2>3, <2>4
  <2>6. r \in ObjFiber(W)
    BY <2>2, <2>3, <2>5 DEF ObjFiber
  <2>. QED  BY <2>6 DEF Obj
<1>11. r.kind \in {"string", "class", "instance", "foreign", "list", "map", "module", "fn",
                   "closure", "upvalue", "fiber"}
  BY KindsApart
<1>. QED
  BY <1>1, <1>2, <1>3, <1>4, <1>5, <1>6, <1>7, <1>8, <1>9, <1>10, <1>11

-----------------------------------------------------------------------------
(* What keeps a heap good.                                                  *)

\* What a good heap says of a fiber, an upvalue and a closure.
LEMMA Made ==
  ASSUME NEW h, NEW n, Typed(h, n), NEW o \in DOMAIN h
  PROVE  LET V == Value(h) IN
         /\ h[o] \in Obj(V, Past(n))
         /\ h[o].kind = "fiber" =>
              /\ h[o].stack \in Seq(V) /\ h[o].frames \in Seq(V) /\ h[o].openUpvalues \subseteq V
              /\ h[o].caller \in V /\ h[o].root \in BOOLEAN
              /\ h[o] \in ObjFiber(V)
              /\ DOMAIN h[o] = {"kind", "stack", "frames", "openUpvalues", "caller", "root"}
         /\ h[o].kind = "upvalue" =>
              h[o].fiber \in Past(n) /\ h[o].slot \in Nat /\ h[o].closed \in V
         /\ h[o].kind = "closure" => h[o].upvalues \in Seq(V) /\ h[o].fn \in V
<1> DEFINE V == Value(h)
<1>1. h[o] \in Obj(V, Past(n))
  BY DEF Typed
<1>2. h[o].kind = "fiber" => h[o] \in ObjFiber(V)
  BY <1>1, KindsApart
<1>3. h[o].kind = "upvalue" => h[o] \in ObjUpvalue(V, Past(n))
  BY <1>1, KindsApart
<1>4. h[o].kind = "closure" => h[o] \in ObjClosure(V)
  BY <1>1, KindsApart
<1>. QED
  BY <1>1, <1>2, <1>3, <1>4 DEF ObjFiber, ObjUpvalue, ObjClosure

Put(h, x, r) == [h EXCEPT ![x] = r]

\* An object is written.  A fiber loses no slot that an open upvalue points at.
LEMMA Written ==
  ASSUME NEW h, NEW n, Sound(h, n), NEW x \in DOMAIN h,
         NEW r \in Obj(Value(h), Past(n)), r.kind = h[x].kind,
         r.kind # "upvalue",
         r.kind = "closure" => \A u \in ToSet(r.upvalues) : Has(h, u, "upvalue"),
         r.kind = "fiber" =>
           /\ r.openUpvalues = h[x].openUpvalues
           /\ r.frames # <<>> => r.stack # <<>>
           /\ \A u \in r.openUpvalues : h[u].slot \in DOMAIN r.stack
  PROVE  Sound(Put(h, x, r), n)
<1> DEFINE g == Put(h, x, r)
<1>1. DOMAIN g = DOMAIN h /\ g[x] = r /\ \A o \in DOMAIN h : o # x => g[o] = h[o]
  BY DEF Put
<1>2. \A o \in DOMAIN h : g[o].kind = h[o].kind
  BY <1>1
<1>3. \A o \in DOMAIN h : h[o].kind = "upvalue" => g[o] = h[o]
  BY <1>1
<1> HIDE DEF g
<1>4. \A o, k : Has(g, o, k) <=> Has(h, o, k)
  BY <1>1, <1>2 DEF Has
<1>5. Ranged(g, n) /\ Typed(g, n) /\ Has(g, 1, "module")
  BY <1>1, <1>4 DEF Sound, Ranged, Typed, Value
<1>6. Captures(g)
  BY <1>1, <1>2, <1>4 DEF Sound, Captures
<1>7. \A o \in DOMAIN h : h[o].kind = "fiber" =>
        /\ g[o].openUpvalues = h[o].openUpvalues
        /\ g[o].frames # <<>> => g[o].stack # <<>>
        /\ o # x => g[o].stack = h[o].stack
  BY <1>1 DEF Sound, Stacked
<1>8. Stacked(g)
  BY <1>1, <1>2, <1>7 DEF Stacked
<1>9. Opened(g)
  <2>1. ASSUME NEW o \in DOMAIN g, g[o].kind = "fiber", NEW u \in g[o].openUpvalues
        PROVE  Has(g, u, "upvalue") /\ g[u].fiber = o
    BY <1>1, <1>2, <1>3, <1>4, <1>7, <2>1 DEF Sound, Opened, Has
  <2>2. ASSUME NEW u \in DOMAIN g, g[u].kind = "upvalue", g[u].fiber \in DOMAIN g
        PROVE  /\ g[g[u].fiber].kind = "fiber" /\ g[u].slot \in DOMAIN g[g[u].fiber].stack
               /\ u \in g[g[u].fiber].openUpvalues
    <3> DEFINE y == h[u].fiber
    <3>1. g[u] = h[u] /\ y \in DOMAIN h
      BY <1>1, <1>2, <1>3, <2>2
    <3>2. /\ h[y].kind = "fiber" /\ h[u].slot \in DOMAIN h[y].stack
          /\ u \in h[y].openUpvalues
      BY <1>1, <1>2, <2>2, <3>1 DEF Sound, Opened
    <3>3. g[y].kind = "fiber" /\ u \in g[y].openUpvalues
      BY <1>2, <1>7, <3>1, <3>2
    <3>4. h[u].slot \in DOMAIN g[y].stack
      <4>1. CASE y = x
        BY <1>1, <3>2, <4>1
      <4>. QED  BY <1>7, <3>1, <3>2, <4>1
    <3>. QED  BY <3>1, <3>3, <3>4
  <2>. QED  BY <2>1, <2>2 DEF Opened
<1>. QED
  BY <1>5, <1>6, <1>8, <1>9 DEF Sound, g

\* The fibers wait for each other as before if nothing else of them is written.
LEMMA WaitsAsBefore ==
  ASSUME NEW h, NEW g, NEW f, DOMAIN h \subseteq DOMAIN g, Chained(h, f), None \notin DOMAIN h,
         \A o \in DOMAIN h : g[o].kind = h[o].kind,
         \A o \in DOMAIN h : h[o].kind = "fiber" =>
           g[o].frames = h[o].frames /\ g[o].caller = h[o].caller /\ g[o].root = h[o].root,
         \A o \in DOMAIN g \ DOMAIN h : g[o].kind = "fiber" => g[o].caller = None
  PROVE  Chained(g, f)
<1>1. \A c : Waits(h, c) => Waits(g, c)
  BY DEF Waits, Has
<1>2. ASSUME NEW o \in DOMAIN g, g[o].kind = "fiber", g[o].caller # None
      PROVE  o \in DOMAIN h /\ h[o].kind = "fiber" /\ h[o].caller = g[o].caller
             /\ h[o].root = g[o].root
  BY <1>2
<1>. QED
  BY <1>1, <1>2 DEF Chained

\* The same for the fiber that runs.
LEMMA WrittenGood ==
  ASSUME NEW h, NEW n, NEW f, Good(h, n, f), NEW x \in DOMAIN h,
         NEW r \in Obj(Value(h), Past(n)), r.kind = h[x].kind,
         r.kind # "upvalue",
         r.kind = "closure" => \A u \in ToSet(r.upvalues) : Has(h, u, "upvalue"),
         r.kind = "fiber" =>
           /\ r.frames = h[x].frames /\ r.openUpvalues = h[x].openUpvalues
           /\ r.caller = h[x].caller /\ r.root = h[x].root
           /\ r.frames # <<>> => r.stack # <<>>
           /\ \A u \in r.openUpvalues : h[u].slot \in DOMAIN r.stack
  PROVE  Good(Put(h, x, r), n, f)
<1>1. Sound(Put(h, x, r), n)
  BY Written DEF Good
<1> DEFINE g == Put(h, x, r)
<1>2. DOMAIN g = DOMAIN h /\ g[x] = r /\ \A o \in DOMAIN h : o # x => g[o] = h[o]
  BY DEF Put
<1> HIDE DEF g
<1>3. Chained(g, f)
  BY <1>2, WaitsAsBefore DEF Good, Sound, Ranged
<1>. QED
  BY <1>1, <1>3 DEF Good, g

\* A fiber is called: it waited for nobody and nobody for it.
LEMMA Called ==
  ASSUME NEW h, NEW n, NEW f, Good(h, n, f), NEW t, Has(h, t, "fiber"), t # f,
         h[t].caller = None, ~h[t].root, h[t].frames # <<>>
  PROVE  Good(Put(h, t, [h[t] EXCEPT !.caller = f]), n, t)
<1> DEFINE r == [h[t] EXCEPT !.caller = f]
           g == Put(h, t, r)
<1>1. t \in DOMAIN h /\ f \in DOMAIN h /\ h[t].kind = "fiber" /\ None \notin DOMAIN h
  BY DEF Has, Good, Chained, Waits, Sound, Ranged
<1>2. h[t] \in ObjFiber(Value(h)) /\ h[t] \in Obj(Value(h), Past(n))
  BY <1>1, Made DEF Good, Sound
<1>3. r \in ObjFiber(Value(h))
  BY <1>1, <1>2 DEF ObjFiber, Value
<1>4. /\ r.kind = "fiber" /\ r.openUpvalues = h[t].openUpvalues /\ r.frames = h[t].frames
      /\ r.stack = h[t].stack /\ r.root = h[t].root /\ r.caller = f
  BY <1>1, <1>2 DEF ObjFiber
<1> HIDE DEF r
<1>5. Sound(g, n)
  <2>1. r \in Obj(Value(h), Past(n))
    BY <1>3 DEF Obj
  <2>2. \A u \in r.openUpvalues : h[u].slot \in DOMAIN r.stack
    BY <1>1, <1>4 DEF Good, Sound, Opened, Has
  <2>3. r.frames # <<>> => r.stack # <<>>
    BY <1>1, <1>4 DEF Good, Sound, Stacked
  <2>. QED  BY <1>1, <1>4, <2>1, <2>2, <2>3, Written DEF Good
<1>6. DOMAIN g = DOMAIN h /\ g[t] = r /\ \A o \in DOMAIN h : o # t => g[o] = h[o]
  BY <1>1 DEF Put
<1> HIDE DEF g
<1>7. Waits(g, t) /\ (\A c : Waits(h, c) => Waits(g, c))
  BY <1>1, <1>4, <1>6 DEF Waits, Has
<1>8. Waits(g, f)
  BY <1>7 DEF Good, Chained
<1>9. ASSUME NEW o \in DOMAIN g, g[o].kind = "fiber", g[o].caller # None
      PROVE  LET c == g[o].caller
             IN /\ ~g[o].root /\ c # t /\ Waits(g, c)
                /\ \A k \in DOMAIN g : g[k].kind = "fiber" /\ g[k].caller = c => k = o
  <2>1. CASE o = t
    <3>1. g[o].caller = f /\ ~g[o].root /\ f # t /\ Waits(g, f)
      BY <1>4, <1>6, <1>8, <2>1
    <3>2. ASSUME NEW k \in DOMAIN g, g[k].kind = "fiber", g[k].caller = f, k # t PROVE FALSE
      <4>1. k \in DOMAIN h /\ h[k].kind = "fiber" /\ h[k].caller = f /\ f # None
        BY <1>1, <1>6, <3>2
      <4>. QED  BY <4>1 DEF Good, Chained
    <3>. QED  BY <2>1, <3>1, <3>2
  <2>2. CASE o # t
    <3>1. /\ o \in DOMAIN h /\ h[o].kind = "fiber" /\ h[o].caller = g[o].caller
          /\ h[o].root = g[o].root
      BY <1>6, <1>9, <2>2
    <3> DEFINE c == h[o].caller
    <3>2. /\ ~h[o].root /\ c # f /\ Waits(h, c)
          /\ \A k \in DOMAIN h : h[k].kind = "fiber" /\ h[k].caller = c => k = o
      BY <1>9, <3>1 DEF Good, Chained
    <3>3. c # t
      BY <3>2 DEF Waits
    <3>4. \A k \in DOMAIN g : g[k].kind = "fiber" /\ g[k].caller = c => k = o
      BY <1>4, <1>6, <3>2
    <3>. QED  BY <1>7, <3>1, <3>2, <3>3, <3>4
  <2>. QED  BY <2>1, <2>2
<1>10. Chained(g, t)
  BY <1>7, <1>9 DEF Chained
<1>. QED
  BY <1>5, <1>10 DEF Good, g, r

\* The running fiber goes back to the one that called it, which nobody else waits for.
LEMMA BackTo ==
  ASSUME NEW h, NEW n, NEW f, Good(h, n, f), h[f].caller # None,
         NEW r \in ObjFiber(Value(h)),
         r.caller = None, r.root = h[f].root, r.openUpvalues = h[f].openUpvalues,
         r.frames # <<>> => r.stack # <<>>,
         \A u \in r.openUpvalues : h[u].slot \in DOMAIN r.stack
  PROVE  Good(Put(h, f, r), n, h[f].caller)
<1> DEFINE g == Put(h, f, r)
           c == h[f].caller
<1>1. f \in DOMAIN h /\ h[f].kind = "fiber" /\ None \notin DOMAIN h
  BY DEF Has, Good, Chained, Waits, Sound, Ranged
<1>2. r.kind = "fiber" /\ r \in Obj(Value(h), Past(n))
  BY DEF ObjFiber, Obj
<1>3. Sound(g, n)
  BY <1>1, <1>2, Written DEF Good
<1>4. DOMAIN g = DOMAIN h /\ g[f] = r /\ \A o \in DOMAIN h : o # f => g[o] = h[o]
  BY <1>1 DEF Put
<1> HIDE DEF g
<1>5. c # f /\ Waits(h, c) /\ c # None
  BY <1>1 DEF Good, Chained
<1>6. \A k : Waits(h, k) /\ k # f => Waits(g, k)
  BY <1>1, <1>4 DEF Waits, Has
<1>7. ASSUME NEW o \in DOMAIN g, g[o].kind = "fiber", g[o].caller # None
      PROVE  LET k == g[o].caller
             IN /\ ~g[o].root /\ k # c /\ Waits(g, k)
                /\ \A l \in DOMAIN g : g[l].kind = "fiber" /\ g[l].caller = k => l = o
  <2>1. o # f /\ o \in DOMAIN h /\ h[o].kind = "fiber" /\ h[o] = g[o]
    BY <1>4, <1>7
  <2> DEFINE k == h[o].caller
  <2>2. /\ ~h[o].root /\ k # f /\ Waits(h, k)
        /\ \A l \in DOMAIN h : h[l].kind = "fiber" /\ h[l].caller = k => l = o
    BY <1>7, <2>1 DEF Good, Chained
  <2>3. k # c
    BY <1>1, <2>1, <2>2
  <2>4. \A l \in DOMAIN g : g[l].kind = "fiber" /\ g[l].caller = k => l = o
    BY <1>4, <1>7, <2>1, <2>2
  <2>. QED  BY <1>6, <2>1, <2>2, <2>3, <2>4
<1>8. Chained(g, c)
  BY <1>5, <1>6, <1>7 DEF Chained
<1>. QED
  BY <1>3, <1>8 DEF Good, g

\* A new fiber is entered, which nobody has called.
LEMMA Entered ==
  ASSUME NEW h, NEW n, NEW f, Good(h, n, f), NEW t, Has(h, t, "fiber"),
         h[t].caller = None, ~h[t].root, h[t].frames # <<>>
  PROVE  Good(Put(h, t, [h[t] EXCEPT !.root = TRUE]), n, t)
<1> DEFINE r == [h[t] EXCEPT !.root = TRUE]
           g == Put(h, t, r)
<1>1. t \in DOMAIN h /\ h[t].kind = "fiber" /\ None \notin DOMAIN h
  BY DEF Has, Good, Sound, Ranged
<1>2. h[t] \in ObjFiber(Value(h))
  BY <1>1, Made DEF Good, Sound
<1>3. r \in ObjFiber(Value(h))
  BY <1>2 DEF ObjFiber
<1>4. /\ r.kind = "fiber" /\ r.openUpvalues = h[t].openUpvalues /\ r.frames = h[t].frames
      /\ r.stack = h[t].stack /\ r.root /\ r.caller = None
  BY <1>1, <1>2 DEF ObjFiber
<1> HIDE DEF r
<1>5. Sound(g, n)
  <2>1. r \in Obj(Value(h), Past(n))
    BY <1>3 DEF Obj
  <2>2. \A u \in r.openUpvalues : h[u].slot \in DOMAIN r.stack
    BY <1>1, <1>4 DEF Good, Sound, Opened, Has
  <2>3. r.frames # <<>> => r.stack # <<>>
    BY <1>1, <1>4 DEF Good, Sound, Stacked
  <2>. QED  BY <1>1, <1>4, <2>1, <2>2, <2>3, Written DEF Good
<1>6. DOMAIN g = DOMAIN h /\ g[t] = r /\ \A o \in DOMAIN h : o # t => g[o] = h[o]
  BY <1>1 DEF Put
<1> HIDE DEF g
<1>7. Waits(g, t) /\ (\A c : Waits(h, c) => Waits(g, c) /\ c # t)
  BY <1>1, <1>4, <1>6 DEF Waits, Has
<1>8. Chained(g, t)
  BY <1>4, <1>6, <1>7 DEF Good, Chained
<1>. QED
  BY <1>5, <1>8 DEF Good, g, r

\* The numbers of a heap.
LEMMA Numbers ==
  ASSUME NEW h, NEW n, Ranged(h, n), n # None
  PROVE  /\ n \notin DOMAIN h /\ n \notin Past(n) /\ n + 1 \in Nat \ {0}
         /\ DOMAIN h \cup {n} \subseteq 1..(n + 1) - 1 /\ None \notin DOMAIN h \cup {n}
         /\ Past(n) \subseteq Past(n + 1) /\ Value(h) \subseteq Past(n) /\ n \in Past(n + 1)
<1>1. n \in Nat \ {0} /\ DOMAIN h \subseteq 1..n - 1 /\ None \notin DOMAIN h
  BY DEF Ranged
<1>2. n \notin 1..n - 1 /\ 1..n - 1 \subseteq 1..(n + 1) - 1 /\ n \in 1..(n + 1) - 1
  BY <1>1
<1>. QED
  BY <1>1, <1>2 DEF Past, Value

Plus(h, n, r) == [o \in DOMAIN h \cup {n} |-> IF o = n THEN r ELSE h[o]]

\* An object is allocated.  It is no open upvalue, and captures none.
LEMMA Added ==
  ASSUME NEW h, NEW n, NEW f, Good(h, n, f), n # None,
         NEW r \in Obj(Value(h), Past(n)), r.kind # "upvalue",
         r.kind = "closure" => r.upvalues = <<>>,
         r.kind = "fiber" => r.openUpvalues = {} /\ r.stack # <<>> /\ r.caller = None
  PROVE  /\ Good(Plus(h, n, r), n + 1, f)
         /\ Value(Plus(h, n, r)) = Value(h) \cup {n}
         /\ Plus(h, n, r)[n] = r /\ \A o \in DOMAIN h : Plus(h, n, r)[o] = h[o]
<1> DEFINE g == Plus(h, n, r)
<1>0. Ranged(h, n) /\ Typed(h, n)
  BY DEF Good, Sound
<1>1. n \notin DOMAIN h /\ n \notin Past(n) /\ Past(n) \subseteq Past(n + 1)
  BY <1>0, Numbers
<1>2. DOMAIN g = DOMAIN h \cup {n} /\ g[n] = r /\ \A o \in DOMAIN h : g[o] = h[o]
  BY <1>1 DEF Plus
<1> HIDE DEF g
<1>3. Value(g) = Value(h) \cup {n}
  BY <1>2 DEF Value
<1>4. \A o, k : Has(h, o, k) => Has(g, o, k)
  BY <1>2 DEF Has
<1>5. Ranged(g, n + 1)
  BY <1>0, <1>2, Numbers DEF Ranged
<1>6. Typed(g, n + 1)
  <2>1. ASSUME NEW o \in DOMAIN g PROVE g[o] \in Obj(Value(h), Past(n))
    BY <1>0, <1>2 DEF Typed
  <2>. QED  BY <1>1, <1>3, <2>1, MoreAround DEF Typed
<1>7. Captures(g)
  <2>1. ASSUME NEW o \in DOMAIN g, g[o].kind = "closure", NEW u \in ToSet(g[o].upvalues)
        PROVE  Has(g, u, "upvalue")
    <3>1. CASE o = n
      BY <1>2, <2>1, <3>1 DEF ToSet
    <3>. QED  BY <1>2, <1>4, <2>1, <3>1 DEF Good, Sound, Captures
  <2>. QED  BY <2>1 DEF Captures
<1>8. Opened(g)
  <2>1. ASSUME NEW o \in DOMAIN g, g[o].kind = "fiber", NEW u \in g[o].openUpvalues
        PROVE  Has(g, u, "upvalue") /\ g[u].fiber = o
    <3>1. CASE o = n
      BY <1>2, <2>1, <3>1 DEF ToSet
    <3>2. CASE o \in DOMAIN h
      <4>1. Has(h, u, "upvalue") /\ h[u].fiber = o
        BY <1>2, <2>1, <3>2 DEF Good, Sound, Opened
      <4>. QED  BY <1>2, <1>4, <4>1 DEF Has
    <3>. QED  BY <1>2, <3>1, <3>2
  <2>2. ASSUME NEW u \in DOMAIN g, g[u].kind = "upvalue", g[u].fiber \in DOMAIN g
        PROVE  /\ g[g[u].fiber].kind = "fiber" /\ g[u].slot \in DOMAIN g[g[u].fiber].stack
               /\ u \in g[g[u].fiber].openUpvalues
    <3>1. u \in DOMAIN h /\ g[u] = h[u]
      BY <1>2, <2>2
    <3>2. h[u].fiber \in Past(n)
      BY <1>0, <2>2, <3>1, Made
    <3>3. h[u].fiber \in DOMAIN h
      BY <1>1, <1>2, <2>2, <3>1, <3>2
    <3>. QED  BY <1>2, <2>2, <3>1, <3>3 DEF Good, Sound, Opened
  <2>. QED  BY <2>1, <2>2 DEF Opened
<1>9. Stacked(g)
  BY <1>2 DEF Good, Sound, Stacked
<1>10. Chained(g, f)
  BY <1>0, <1>2, WaitsAsBefore DEF Good, Ranged
<1>11. Has(g, 1, "module")
  BY <1>4 DEF Good, Sound
<1>12. Good(g, n + 1, f)
  BY <1>5, <1>6, <1>7, <1>8, <1>9, <1>10, <1>11 DEF Good, Sound
<1>. QED
  BY <1>2, <1>3, <1>12 DEF g

\* A new upvalue is put on the list of the fiber whose slot it points at.
OpenedIn(h, n, f, i) ==
  LET w == Plus(h, n, NewUpvalue(f, i))
  IN Put(w, f, [w[f] EXCEPT !.openUpvalues = @ \cup {n}])

\* The heap stays good.
LEMMA OpenedUp ==
  ASSUME NEW h, NEW n, NEW f, Good(h, n, f), n # None, NEW i \in DOMAIN h[f].stack
  PROVE  LET g == OpenedIn(h, n, f, i)
         IN /\ Good(g, n + 1, f) /\ Value(g) = Value(h) \cup {n}
            /\ Has(g, n, "upvalue")
            /\ \A o \in DOMAIN h : o # f => g[o] = h[o]
            /\ g[f].stack = h[f].stack /\ g[f].kind = "fiber"
<1> DEFINE u1 == NewUpvalue(f, i)
           w == Plus(h, n, u1)
           r == [w[f] EXCEPT !.openUpvalues = @ \cup {n}]
           g == Put(w, f, r)
<1>0. Ranged(h, n) /\ Typed(h, n)
  BY DEF Good, Sound
<1>1. n \notin DOMAIN h /\ n \notin Past(n) /\ Past(n) \subseteq Past(n + 1) /\ n # f
      /\ f \in DOMAIN h /\ h[f].kind = "fiber" /\ None \notin DOMAIN h
  <2>1. n \notin DOMAIN h /\ n \notin Past(n) /\ Past(n) \subseteq Past(n + 1)
    BY <1>0, Numbers
  <2>2. f \in DOMAIN h /\ h[f].kind = "fiber"
    BY DEF Good, Chained, Waits, Has
  <2>. QED  BY <1>0, <2>1, <2>2 DEF Ranged
<1>2. h[f] \in ObjFiber(Value(h)) /\ h[f].openUpvalues \subseteq Value(h)
      /\ h[f].stack \in Seq(Value(h))
  BY <1>0, <1>1, Made
<1>3. DOMAIN w = DOMAIN h \cup {n} /\ w[n] = u1 /\ \A o \in DOMAIN h : w[o] = h[o]
  BY <1>1 DEF Plus
<1>4. r = [h[f] EXCEPT !.openUpvalues = h[f].openUpvalues \cup {n}]
  BY <1>1, <1>3
<1> HIDE DEF w, r
<1>5. /\ r.kind = "fiber" /\ r.openUpvalues = h[f].openUpvalues \cup {n}
      /\ r.frames = h[f].frames /\ r.stack = h[f].stack /\ r.root = h[f].root
      /\ r.caller = h[f].caller
      /\ r \in ObjFiber(Value(h) \cup {n})
  <2> DEFINE q == h[f].openUpvalues \cup {n}
             W == Value(h) \cup {n}
  <2>1. q \subseteq W
    BY <1>2
  <2>2. h[f] \in ObjFiber(W)
    <3>1. \A s \in Seq(Value(h)) : s \in Seq(W)
      OBVIOUS
    <3> HIDE DEF W
    <3>2. Value(h) \subseteq W
      BY DEF W
    <3>. QED  BY <1>2, <3>1, <3>2 DEF ObjFiber
  <2> HIDE DEF q, W
  <2>3. r = [h[f] EXCEPT !.openUpvalues = q]
    BY <1>4 DEF q
  <2>4. /\ r.kind = "fiber" /\ r.openUpvalues = q
        /\ r.frames = h[f].frames /\ r.stack = h[f].stack /\ r.root = h[f].root
        /\ r.caller = h[f].caller /\ r \in ObjFiber(W)
    BY <2>1, <2>2, <2>3 DEF ObjFiber
  <2>. QED  BY <2>4 DEF q, W
<1>6. DOMAIN g = DOMAIN h \cup {n} /\ g[n] = u1 /\ g[f] = r
      /\ \A o \in DOMAIN h : o # f => g[o] = h[o]
  BY <1>1, <1>3 DEF Put
<1>7. /\ u1.kind = "upvalue" /\ u1.fiber = f /\ u1.slot = i /\ i \in Nat
      /\ u1 \in ObjUpvalue(Value(h) \cup {n}, Past(n + 1))
  <2>1. i \in Nat
    BY <1>2
  <2>2. f \in Past(n + 1)
    BY <1>0, <1>1, Numbers DEF Value
  <2>. QED  BY <2>1, <2>2 DEF NewUpvalue, ObjUpvalue, Value
<1>8. r.openUpvalues = h[f].openUpvalues \cup {n}
  BY <1>5
<1> HIDE DEF g, u1
<1>9. Value(g) = Value(h) \cup {n}
  BY <1>6 DEF Value
<1>10. \A o \in DOMAIN h : g[o].kind = h[o].kind
  BY <1>1, <1>5, <1>6
<1>11. \A o, k : Has(h, o, k) => Has(g, o, k)
  BY <1>6, <1>10 DEF Has
<1>12. Ranged(g, n + 1)
  BY <1>0, <1>6, Numbers DEF Ranged
<1>13. Typed(g, n + 1)
  <2>1. ASSUME NEW o \in DOMAIN g, o # f, o # n PROVE g[o] \in Obj(Value(g), Past(n + 1))
    <3>1. o \in DOMAIN h /\ g[o] = h[o] /\ h[o] \in Obj(Value(h), Past(n))
      BY <1>0, <1>6, <2>1 DEF Typed
    <3>. QED  BY <1>1, <1>9, <3>1, MoreAround
  <2>2. g[f] \in Obj(Value(g), Past(n + 1)) /\ g[n] \in Obj(Value(g), Past(n + 1))
    BY <1>5, <1>6, <1>7, <1>9 DEF Obj
  <2>. QED  BY <2>1, <2>2 DEF Typed
<1>14. Captures(g)
  <2>1. ASSUME NEW o \in DOMAIN g, g[o].kind = "closure", NEW u \in ToSet(g[o].upvalues)
        PROVE  Has(g, u, "upvalue")
    <3>1. o # n /\ o # f /\ o \in DOMAIN h /\ g[o] = h[o]
      BY <1>5, <1>6, <1>7, <2>1
    <3>. QED  BY <1>11, <2>1, <3>1 DEF Good, Sound, Captures
  <2>. QED  BY <2>1 DEF Captures
<1>15. \A u \in DOMAIN h : h[u].kind = "upvalue" => g[u] = h[u]
  BY <1>1, <1>6
<1>16. Opened(g)
  <2>1. ASSUME NEW o \in DOMAIN g, g[o].kind = "fiber", NEW u \in g[o].openUpvalues
        PROVE  Has(g, u, "upvalue") /\ g[u].fiber = o
    <3>1. CASE o = f /\ u = n
      BY <1>6, <1>7, <3>1 DEF Has
    <3>2. CASE ~(o = f /\ u = n)
      <4>1. o \in DOMAIN h /\ h[o].kind = "fiber" /\ u \in h[o].openUpvalues
        BY <1>1, <1>6, <1>7, <1>8, <2>1, <3>2
      <4>2. Has(h, u, "upvalue") /\ h[u].fiber = o
        BY <4>1 DEF Good, Sound, Opened
      <4>. QED  BY <1>11, <1>15, <4>2 DEF Has
    <3>. QED  BY <3>1, <3>2
  <2>2. ASSUME NEW u \in DOMAIN g, g[u].kind = "upvalue", g[u].fiber \in DOMAIN g
        PROVE  /\ g[g[u].fiber].kind = "fiber" /\ g[u].slot \in DOMAIN g[g[u].fiber].stack
               /\ u \in g[g[u].fiber].openUpvalues
    <3>1. CASE u = n
      <4>1. g[u].fiber = f /\ g[u].slot = i
        BY <1>6, <1>7, <3>1
      <4>. QED  BY <1>5, <1>6, <1>8, <3>1, <4>1
    <3>2. CASE u # n
      <4>1. u \in DOMAIN h /\ g[u] = h[u]
        BY <1>5, <1>6, <2>2, <3>2
      <4>2. h[u].fiber \in Past(n)
        BY <1>0, <2>2, <4>1, Made
      <4>3. h[u].fiber \in DOMAIN h
        BY <1>1, <1>6, <2>2, <4>1, <4>2
      <4> DEFINE y == h[u].fiber
      <4>4. /\ h[y].kind = "fiber" /\ h[u].slot \in DOMAIN h[y].stack
            /\ u \in h[y].openUpvalues
        BY <2>2, <4>1, <4>3 DEF Good, Sound, Opened
      <4>5. /\ g[y].kind = "fiber" /\ g[y].stack = h[y].stack
            /\ h[y].openUpvalues \subseteq g[y].openUpvalues
        BY <1>5, <1>6, <1>8, <1>10, <4>3, <4>4
      <4>. QED  BY <4>1, <4>4, <4>5
    <3>. QED  BY <3>1, <3>2
  <2>. QED  BY <2>1, <2>2 DEF Opened
<1>17. Stacked(g)
  BY <1>5, <1>6, <1>7, <1>10 DEF Good, Sound, Stacked
<1>18. Chained(g, f)
  <2>1. \A o \in DOMAIN h : h[o].kind = "fiber" =>
          g[o].frames = h[o].frames /\ g[o].caller = h[o].caller /\ g[o].root = h[o].root
    BY <1>5, <1>6
  <2>. QED  BY <1>1, <1>6, <1>7, <1>10, <2>1, WaitsAsBefore DEF Good
<1>19. Has(g, 1, "module") /\ Has(g, n, "upvalue") /\ g[f].kind = "fiber"
  BY <1>5, <1>6, <1>7, <1>11 DEF Good, Sound, Has
<1>20. Good(g, n + 1, f)
  BY <1>12, <1>13, <1>14, <1>16, <1>17, <1>18, <1>19 DEF Good, Sound
<1>. QED
  BY <1>5, <1>6, <1>9, <1>19, <1>20 DEF OpenedIn, g, r, w, u1

\* Upvalues are closed and taken off the list of their fiber.
ClosedIn(h, x, s) ==
  [o \in DOMAIN h |->
     IF o \in s THEN [kind |-> "upvalue", fiber |-> None, slot |-> 0,
                      closed |-> h[x].stack[h[o].slot]]
     ELSE h[o]]

ShutIn(h, x, s) == Put(ClosedIn(h, x, s), x, [h[x] EXCEPT !.openUpvalues = @ \ s])

\* The heap stays good.
LEMMA ClosedUp ==
  ASSUME NEW h, NEW n, NEW f, Good(h, n, f), NEW x, Has(h, x, "fiber"),
         NEW s \in SUBSET h[x].openUpvalues
  PROVE  LET g == ShutIn(h, x, s)
         IN /\ Good(g, n, f) /\ DOMAIN g = DOMAIN h
            /\ \A o \in DOMAIN h : o \notin s /\ o # x => g[o] = h[o]
            /\ \A o \in DOMAIN h : g[o].kind = h[o].kind
            /\ g[x] = [h[x] EXCEPT !.openUpvalues = @ \ s]
<1> DEFINE c == ClosedIn(h, x, s)
           q == h[x].openUpvalues \ s
           r == [h[x] EXCEPT !.openUpvalues = q]
           g == Put(c, x, r)
           shut(o) == [kind |-> "upvalue", fiber |-> None, slot |-> 0,
                       closed |-> h[x].stack[h[o].slot]]
<1>0. /\ Ranged(h, n) /\ Typed(h, n) /\ x \in DOMAIN h /\ h[x].kind = "fiber"
      /\ None \notin DOMAIN h
  BY DEF Good, Sound, Ranged, Has
<1>1. /\ h[x] \in ObjFiber(Value(h)) /\ h[x].openUpvalues \subseteq Value(h)
      /\ h[x].stack \in Seq(Value(h))
  BY <1>0, Made
<1>2. ASSUME NEW u \in s
      PROVE  /\ u \in DOMAIN h /\ h[u].kind = "upvalue" /\ h[u].fiber = x /\ u # x
             /\ h[u].slot \in DOMAIN h[x].stack /\ h[x].stack[h[u].slot] \in Value(h)
  <2>1. Has(h, u, "upvalue") /\ h[u].fiber = x
    BY <1>0, <1>2 DEF Good, Sound, Opened
  <2>2. h[u].slot \in DOMAIN h[x].stack
    BY <1>0, <2>1 DEF Good, Sound, Opened, Has
  <2>. QED  BY <1>0, <1>1, <2>1, <2>2 DEF Has
<1>3. DOMAIN g = DOMAIN h /\ g[x] = r /\ (\A o \in s : g[o] = shut(o))
      /\ \A o \in DOMAIN h : o \notin s /\ o # x => g[o] = h[o]
  BY <1>0, <1>2 DEF Put, ClosedIn
<1>4. /\ r.kind = "fiber" /\ r.openUpvalues = q
      /\ r.frames = h[x].frames /\ r.stack = h[x].stack /\ r.root = h[x].root
      /\ r.caller = h[x].caller /\ r \in ObjFiber(Value(h))
  BY <1>1 DEF ObjFiber
<1>5. ASSUME NEW o \in s
      PROVE  /\ shut(o).kind = "upvalue" /\ shut(o).fiber = None
             /\ shut(o) \in Obj(Value(h), Past(n))
  <2>1. shut(o) \in ObjUpvalue(Value(h), Past(n))
    BY <1>2 DEF ObjUpvalue, Past
  <2>. QED  BY <2>1 DEF Obj
<1> HIDE DEF g, r, c, shut
<1>6. \A o \in DOMAIN h : g[o].kind = h[o].kind
  BY <1>0, <1>2, <1>3, <1>4, <1>5
<1>7. \A o, k : Has(g, o, k) <=> Has(h, o, k)
  BY <1>3, <1>6 DEF Has
<1>8. Ranged(g, n) /\ Has(g, 1, "module") /\ Value(g) = Value(h)
  BY <1>3, <1>7 DEF Good, Sound, Ranged, Value
<1>9. Typed(g, n)
  <2>1. ASSUME NEW o \in DOMAIN g PROVE g[o] \in Obj(Value(h), Past(n))
    <3>1. r \in Obj(Value(h), Past(n)) /\ h[o] \in Obj(Value(h), Past(n))
      BY <1>0, <1>3, <1>4 DEF Obj, Typed
    <3>. QED  BY <1>3, <1>5, <3>1
  <2>. QED  BY <1>8, <2>1 DEF Typed
<1>10. \A o \in DOMAIN h : h[o].kind = "closure" => g[o] = h[o]
  BY <1>0, <1>2, <1>3
<1>11. Captures(g)
  BY <1>3, <1>6, <1>7, <1>10 DEF Good, Sound, Captures
<1>12. \A o \in DOMAIN h : h[o].kind = "fiber" =>
         /\ g[o].frames = h[o].frames /\ g[o].stack = h[o].stack
         /\ g[o].caller = h[o].caller /\ g[o].root = h[o].root
         /\ g[o].openUpvalues = h[o].openUpvalues \ s
  <2> TAKE o \in DOMAIN h
  <2>1. CASE o = x
    BY <1>3, <1>4, <2>1
  <2>2. CASE o # x /\ h[o].kind = "fiber"
    <3>1. o \notin s /\ g[o] = h[o]
      BY <1>2, <1>3, <2>2
    <3>2. \A u \in h[o].openUpvalues : u \notin s
      BY <1>2, <2>2 DEF Good, Sound, Opened
    <3>. QED  BY <3>1, <3>2
  <2>. QED  BY <2>1, <2>2
<1>13. Opened(g)
  <2>1. ASSUME NEW o \in DOMAIN g, g[o].kind = "fiber", NEW u \in g[o].openUpvalues
        PROVE  Has(g, u, "upvalue") /\ g[u].fiber = o
    <3>1. o \in DOMAIN h /\ h[o].kind = "fiber" /\ u \in h[o].openUpvalues /\ u \notin s
      BY <1>3, <1>6, <1>12, <2>1
    <3>2. Has(h, u, "upvalue") /\ h[u].fiber = o
      BY <3>1 DEF Good, Sound, Opened
    <3>3. g[u] = h[u]
      BY <1>0, <1>3, <3>1, <3>2 DEF Has
    <3>. QED  BY <1>7, <3>2, <3>3
  <2>2. ASSUME NEW u \in DOMAIN g, g[u].kind = "upvalue", g[u].fiber \in DOMAIN g
        PROVE  /\ g[g[u].fiber].kind = "fiber" /\ g[u].slot \in DOMAIN g[g[u].fiber].stack
               /\ u \in g[g[u].fiber].openUpvalues
    <3>1. u \notin s
      BY <1>0, <1>3, <1>5, <2>2
    <3>2. u \in DOMAIN h /\ g[u] = h[u]
      BY <1>0, <1>3, <1>6, <2>2, <3>1
    <3> DEFINE y == h[u].fiber
    <3>3. /\ y \in DOMAIN h /\ h[y].kind = "fiber" /\ h[u].slot \in DOMAIN h[y].stack
          /\ u \in h[y].openUpvalues
      BY <1>3, <2>2, <3>2 DEF Good, Sound, Opened
    <3>. QED  BY <1>6, <1>12, <3>1, <3>2, <3>3
  <2>. QED  BY <2>1, <2>2 DEF Opened
<1>14. Stacked(g)
  BY <1>3, <1>6, <1>12 DEF Good, Sound, Stacked
<1>15. Chained(g, f)
  BY <1>0, <1>3, <1>6, <1>12, WaitsAsBefore DEF Good
<1>16. Good(g, n, f)
  BY <1>8, <1>9, <1>11, <1>13, <1>14, <1>15 DEF Good, Sound
<1>. QED
  BY <1>3, <1>6, <1>16 DEF ShutIn, g, c, r, q

\* Objects are freed that none that stay point at.
LEMMA Freed ==
  ASSUME NEW n, NEW f, Good(heap, n, f), NEW m, m \subseteq Allocated, f \in m, 1 \in m,
         \A o \in m : Objects(BlackenObject(o)) \cap Allocated \subseteq m
  PROVE  LET g == [o \in m |-> heap[o]] IN Good(g, n, f)
<1> DEFINE g == [o \in m |-> heap[o]]
           h == heap
<1>0. Ranged(h, n) /\ Typed(h, n) /\ None \notin DOMAIN h /\ Allocated = DOMAIN h
  BY DEF Good, Sound, Ranged, Allocated
<1>1. DOMAIN g = m /\ m \subseteq DOMAIN h /\ \A o \in m : g[o] = h[o]
  BY <1>0
<1> HIDE DEF g
<1>2. ASSUME NEW o \in m
      PROVE  BlackenObject(o) \subseteq Value(g) /\ h[o] \in Obj(Value(g), Past(n))
  <2>1. h[o] \in Obj(Value(h), Past(n))
    BY <1>0, <1>1 DEF Typed
  <2>2. BlackenObject(o) \subseteq Value(h)
    <3>1. CASE h[o].kind = "class"
      <4>1. h[o] \in ObjClass(Value(h))
        BY <2>1, <3>1, KindsApart
      <4>. QED  BY <3>1, <4>1 DEF BlackenObject, BlackenClass, ObjClass
    <3>2. CASE h[o].kind = "instance"
      <4>1. h[o] \in ObjInstance(Value(h))
        BY <2>1, <3>2, KindsApart
      <4>. QED  BY <3>2, <4>1 DEF BlackenObject, BlackenInstance, ObjInstance, ToSet
    <3>3. CASE h[o].kind = "list"
      <4>1. h[o] \in ObjList(Value(h))
        BY <2>1, <3>3, KindsApart
      <4>. QED  BY <3>3, <4>1 DEF BlackenObject, BlackenList, ObjList, ToSet
    <3>4. CASE h[o].kind = "map"
      <4> DEFINE V == Value(h)
                 A == [key : V, value : V]
                 e == h[o].entries
      <4>1. h[o] \in ObjMap(Value(h))
        BY <2>1, <3>4, KindsApart
      <4>2. e \in Seq(A)
        BY <4>1 DEF ObjMap
      <4>3. \A x \in A : x.key \in V /\ x.value \in V
        OBVIOUS
      <4> HIDE DEF e, A, V
      <4>4. ToSet(e) \subseteq A
        BY <4>2 DEF ToSet
      <4>5. \A y \in {{x.key, x.value} : x \in ToSet(e)} : y \subseteq V
        BY <4>3, <4>4
      <4>6. UNION {{x.key, x.value} : x \in ToSet(e)} \subseteq V
        BY <4>5, Zenon
      <4>. QED  BY <3>4, <4>6 DEF BlackenObject, BlackenMap, e, V
    <3>5. CASE h[o].kind = "module"
      <4>1. h[o] \in ObjModule(Value(h))
        BY <2>1, <3>5, KindsApart
      <4>. QED  BY <3>5, <4>1 DEF BlackenObject, BlackenModule, ObjModule, ToSet
    <3>6. CASE h[o].kind = "fn"
      <4>1. h[o] \in ObjFn(Value(h))
        BY <2>1, <3>6, KindsApart
      <4>. QED  BY <3>6, <4>1 DEF BlackenObject, BlackenFn, ObjFn
    <3>7. CASE h[o].kind = "closure"
      <4>1. h[o] \in ObjClosure(Value(h))
        BY <2>1, <3>7, KindsApart
      <4>. QED  BY <3>7, <4>1 DEF BlackenObject, BlackenClosure, ObjClosure, ToSet
    <3>8. CASE h[o].kind = "upvalue"
      <4>1. h[o] \in ObjUpvalue(Value(h), Past(n))
        BY <2>1, <3>8, KindsApart
      <4>. QED  BY <3>8, <4>1 DEF BlackenObject, BlackenUpvalue, ObjUpvalue
    <3>9. CASE h[o].kind = "fiber"
      <4>1. h[o] \in ObjFiber(Value(h))
        BY <2>1, <3>9, KindsApart
      <4>2. \A s \in Seq(Value(h)) : ToSet(s) \subseteq Value(h)
        BY DEF ToSet
      <4>3. /\ h[o].stack \in Seq(Value(h)) /\ h[o].frames \in Seq(Value(h))
            /\ h[o].openUpvalues \subseteq Value(h) /\ h[o].caller \in Value(h)
        BY <4>1 DEF ObjFiber
      <4>. QED  BY <3>9, <4>2, <4>3 DEF BlackenObject, BlackenFiber
    <3>10. CASE h[o].kind = "string" \/ h[o].kind = "foreign"
      BY <3>10 DEF BlackenObject, BlackenForeign
    <3>11. h[o].kind \in {"string", "class", "instance", "foreign", "list", "map", "module", "fn",
                          "closure", "upvalue", "fiber"}
      BY <2>1, KindsApart
    <3>. QED  BY <3>1, <3>2, <3>3, <3>4, <3>5, <3>6, <3>7, <3>8, <3>9, <3>10, <3>11
  <2>3. BlackenObject(o) \subseteq Value(g)
    BY <1>0, <1>1, <2>2 DEF Value, Objects
  <2>. QED  BY <1>0, <1>1, <2>1, <2>3, FewerAround
<1>3. Ranged(g, n) /\ Typed(g, n) /\ Has(g, 1, "module")
  BY <1>0, <1>1, <1>2 DEF Ranged, Typed, Good, Sound, Has
<1>4. \A o, k : o \in m /\ Has(h, o, k) => Has(g, o, k)
  BY <1>1 DEF Has
<1>5. Captures(g)
  <2>1. ASSUME NEW o \in m, h[o].kind = "closure", NEW u \in ToSet(h[o].upvalues)
        PROVE  Has(g, u, "upvalue")
    <3>1. Has(h, u, "upvalue")
      BY <1>1, <2>1 DEF Good, Sound, Captures
    <3>2. u \in BlackenObject(o)
      BY <2>1 DEF BlackenObject, BlackenClosure
    <3>. QED  BY <1>0, <1>1, <1>2, <1>4, <3>1, <3>2 DEF Value, Has
  <2>. QED  BY <1>1, <2>1 DEF Captures
<1>6. ASSUME NEW o \in m, h[o].kind = "fiber"
      PROVE  h[o].openUpvalues \subseteq Value(g) /\ h[o].caller \in Value(g)
  BY <1>2, <1>6 DEF BlackenObject, BlackenFiber
<1>7. Opened(g)
  <2>1. ASSUME NEW o \in m, h[o].kind = "fiber", NEW u \in h[o].openUpvalues
        PROVE  Has(g, u, "upvalue") /\ g[u].fiber = o
    <3>1. Has(h, u, "upvalue") /\ h[u].fiber = o
      BY <1>1, <2>1 DEF Good, Sound, Opened
    <3>. QED  BY <1>0, <1>1, <1>4, <1>6, <2>1, <3>1 DEF Value, Has
  <2>2. ASSUME NEW u \in m, h[u].kind = "upvalue", h[u].fiber \in m
        PROVE  /\ h[h[u].fiber].kind = "fiber" /\ h[u].slot \in DOMAIN h[h[u].fiber].stack
               /\ u \in h[h[u].fiber].openUpvalues
    BY <1>1, <2>2 DEF Good, Sound, Opened
  <2>. QED  BY <1>1, <2>1, <2>2 DEF Opened
<1>8. Stacked(g)
  BY <1>1 DEF Good, Sound, Stacked
<1>9. \A c : c \in m /\ Waits(h, c) => Waits(g, c)
  BY <1>1 DEF Waits, Has
<1>10. Chained(g, f)
  <2>1. ASSUME NEW o \in DOMAIN g, g[o].kind = "fiber", g[o].caller # None
        PROVE  LET c == g[o].caller
               IN /\ ~g[o].root /\ c # f /\ Waits(g, c)
                  /\ \A k \in DOMAIN g : g[k].kind = "fiber" /\ g[k].caller = c => k = o
    <3> DEFINE c == h[o].caller
    <3>1. o \in m /\ g[o] = h[o] /\ c \in m
      BY <1>1, <1>6, <2>1 DEF Value
    <3>2. /\ ~h[o].root /\ c # f /\ Waits(h, c)
          /\ \A k \in DOMAIN h : h[k].kind = "fiber" /\ h[k].caller = c => k = o
      BY <1>1, <2>1, <3>1 DEF Good, Chained
    <3>. QED  BY <1>1, <1>9, <3>1, <3>2
  <2>2. Waits(g, f)
    BY <1>9 DEF Good, Chained
  <2>. QED  BY <2>1, <2>2 DEF Chained
<1>11. Good(g, n, f)
  BY <1>3, <1>5, <1>7, <1>8, <1>10 DEF Good, Sound
<1>. QED
  BY <1>11 DEF g

-----------------------------------------------------------------------------
(* The invariant.                                                           *)

\* A fiber that nobody has called or entered.
Fresh(h, f) == Has(h, f, "fiber") /\ h[f].caller = None /\ ~h[f].root /\ h[f].frames # <<>>

\* Where a C function may leave a value that it goes on to use.
Anchors ==
  {None} \cup compiler \cup ToSet(handles) \cup ToSet(heap[fiber].stack)
    \cup ToSet(heap[1].variables)

\* The locals of the C function in progress are what p says.
Stands(p) ==
  /\ Len(tempRoots) = Len(p.roots)
  /\ \A i \in 1..Len(p.roots) :
       p.roots[i] \in Names(native.code) => tempRoots[i] = Local(p.roots[i])
  /\ \A n \in LocalNames \ p.dead :
       /\ Local(n) \in IF n \in Unrooted THEN Past(next) ELSE Value(heap)
       /\ n \notin Set(p) => Local(n) = None
       /\ n \in p.kept => Local(n) \in Anchors
  /\ \A n \in NeverMade : Local(n) \in Allocated => heap[Local(n)].kind = "class"
  /\ "upvalue" \in p.bare \cap Names(native.code) => Has(heap, Local("upvalue"), "upvalue")
  /\ "fiber" \in p.bare \cap Names(native.code) => Fresh(heap, Local("fiber"))
  /\ compiler # {} => p.source

\* What is on the temporary roots for good, and the class that is created, are what p
\* says: strings, and a class that has its metaclass.
Serves(p) ==
  /\ \A i \in 1..Len(p.roots) :
       /\ tempRoots[i] \in Past(next)
       /\ p.roots[i] \in StringNames =>
            (tempRoots[i] \in Allocated => Has(heap, tempRoots[i], "string"))
  /\ \A n \in StringNames : Local(n) \in Allocated => Has(heap, Local(n), "string")
  /\ "classObj" \in Names(native.code) =>
       /\ p.stage # "none" => Has(heap, ClassObj, "class")
       /\ p.stage = "linked" =>
            \A i \in 1..Len(p.roots) :
              p.roots[i] = "metaclass" => tempRoots[i] = heap[ClassObj].class

\* Locals that a C function may be called with, whatever the value.
Holders == LocalNames \ (NeverMade \cup StringNames \cup {"upvalue", "fiber"})

\* No root is left when it returns, and nothing that is compiled or live.
Ended(q) == q.roots = <<>> /\ ~q.source /\ q.live = {}

Leads(code, p) == \E q \in States : Path(code, p, q) /\ Ended(q)

Lives ==
  /\ Good(heap, next, fiber)
  /\ modules \cup methodNames \cup compiler \subseteq Value(heap)
  /\ handles \in Seq(Value(heap))
  /\ 1 \in modules /\ dark = {}
  /\ DOMAIN native.locals \subseteq Names(native.code)
  /\ \E p \in States : Leads(native.code, p) /\ Stands(p) /\ Serves(p)

\* The machine was freed.
Over ==
  /\ Allocated = {} /\ modules = {} /\ methodNames = {} /\ handles = <<>> /\ compiler = {}
  /\ native.code = <<>> /\ DOMAIN native.locals = {}

LInv == IF fiber = None THEN Over ELSE Lives

\* What is marked in an object and what it points at are the same but for what is not
\* followed.
LEMMA KnownPointers ==
  ASSUME Good(heap, next, fiber), NEW o \in Allocated, NEW x \in Pointers(o)
  PROVE  x \in Allocated \/ Unfollowed(o, x)
<1> DEFINE r == heap[o]
           V == Value(heap)
<1>1. r \in Obj(V, Past(next)) /\ V \ {None} = Allocated /\ x # None
  BY DEF Good, Sound, Typed, Allocated, Value, Pointers, Objects, Ranged
<1>2. x \in (CASE r.kind = "string" -> {}
         [] r.kind = "class" -> {r.class, r.superclass, r.name} \cup r.methods
         [] r.kind = "instance" -> {r.class, r.fields[1]}
         [] r.kind = "foreign" -> {r.class}
         [] r.kind = "list" -> ToSet(r.elements)
         [] r.kind = "map" -> UNION {{e.key, e.value} : e \in ToSet(r.entries)}
         [] r.kind = "module" -> {r.name} \cup ToSet(r.variables)
         [] r.kind = "fn" -> r.constants
         [] r.kind = "closure" -> {r.fn} \cup ToSet(r.upvalues)
         [] r.kind = "upvalue" -> {r.fiber, r.closed}
         [] r.kind = "fiber" -> {r.caller} \cup ToSet(r.stack) \cup ToSet(r.frames)
                                  \cup r.openUpvalues)
  BY DEF Pointers, Objects
<1> HIDE DEF V
<1>3. \A s \in Seq(V) : ToSet(s) \subseteq V
  BY DEF ToSet
<1>4. CASE r.kind = "class"
  BY <1>1, <1>2, <1>4, KindsApart DEF ObjClass
<1>5. CASE r.kind = "instance"
  BY <1>1, <1>2, <1>5, KindsApart DEF ObjInstance
<1>6. CASE r.kind = "foreign"
  BY <1>2, <1>6 DEF Unfollowed
<1>7. CASE r.kind = "list"
  BY <1>1, <1>2, <1>3, <1>7, KindsApart DEF ObjList
<1>8. CASE r.kind = "map"
  <2> DEFINE A == [key : V, value : V]
             e == r.entries
  <2>1. e \in Seq(A)
    BY <1>1, <1>8, KindsApart DEF ObjMap
  <2>2. \A y \in A : y.key \in V /\ y.value \in V
    OBVIOUS
  <2>3. x \in UNION {{y.key, y.value} : y \in ToSet(e)}
    BY <1>2, <1>8
  <2> HIDE DEF e, A
  <2>4. ToSet(e) \subseteq A
    BY <2>1 DEF ToSet
  <2>5. PICK y \in ToSet(e) : x = y.key \/ x = y.value
    BY <2>3
  <2>. QED  BY <1>1, <2>2, <2>4, <2>5
<1>9. CASE r.kind = "module"
  BY <1>1, <1>2, <1>9, KindsApart DEF ObjModule, ToSet
<1>10. CASE r.kind = "fn"
  BY <1>1, <1>2, <1>10, KindsApart DEF ObjFn
<1>11. CASE r.kind = "closure"
  BY <1>1, <1>2, <1>3, <1>11, KindsApart DEF ObjClosure
<1>12. CASE r.kind = "upvalue"
  BY <1>1, <1>2, <1>12, KindsApart DEF ObjUpvalue, Unfollowed
<1>13. CASE r.kind = "fiber"
  BY <1>1, <1>2, <1>3, <1>13, KindsApart DEF ObjFiber
<1>14. r.kind # "string"
  BY <1>2
<1>15. r.kind \in {"string", "class", "instance", "foreign", "list", "map", "module", "fn",
                   "closure", "upvalue", "fiber"}
  BY <1>1, KindsApart
<1>. QED
  BY <1>4, <1>5, <1>6, <1>7, <1>8, <1>9, <1>10, <1>11, <1>12, <1>13, <1>14, <1>15

\* The invariant is enough.
LEMMA LivesIsSafe == LInv => OnlyKnownDangling
<1> SUFFICES ASSUME LInv PROVE OnlyKnownDangling
  OBVIOUS
<1>1. CASE fiber = None
  <2>1. Over
    BY <1>1 DEF LInv
  <2>2. Objects({fiber} \cup modules \cup methodNames \cup ToSet(handles) \cup compiler) = {}
    BY <1>1, <2>1 DEF Over, Objects, ToSet
  <2>. QED  BY <2>1, <2>2 DEF Over, OnlyKnownDangling
<1>2. CASE fiber # None
  <2>1. Lives
    BY <1>2 DEF LInv
  <2>2. \A o \in Allocated : \A x \in Pointers(o) : x \in Allocated \/ Unfollowed(o, x)
    BY <2>1, KnownPointers DEF Lives
  <2>3. Objects({fiber} \cup modules \cup methodNames \cup ToSet(handles) \cup compiler)
          \subseteq Allocated
    <3>1. fiber \in Allocated
      BY <2>1 DEF Lives, Good, Chained, Waits, Has, Allocated
    <3>2. ToSet(handles) \subseteq Value(heap)
      BY <2>1 DEF Lives, ToSet
    <3>. QED  BY <2>1, <3>1, <3>2 DEF Lives, Objects, Value, Allocated
  <2>4. ASSUME NEW x \in DOMAIN native.locals
        PROVE  native.locals[x] \in Allocated \cup {None} \/ x \in Unrooted
    <3>1. PICK p \in States : Leads(native.code, p) /\ Stands(p)
      BY <2>1 DEF Lives
    <3>2. x \in LocalNames \ p.dead
      BY <2>1, <3>1, DeadUnnamed DEF Lives, Leads
    <3>. QED  BY <3>1, <3>2 DEF Stands, Local, Value, Allocated
  <2>. QED  BY <2>2, <2>3, <2>4 DEF OnlyKnownDangling
<1>. QED
  BY <1>1, <1>2

-----------------------------------------------------------------------------
(* A step of a C function.                                                  *)

\* The locals after a step.
LEMMA NextLocals ==
  ASSUME NEW x, NEW v, Proceed(x, v)
  PROVE  /\ native'.code = Tail(native.code)
         /\ DOMAIN native'.locals \subseteq Names(native'.code)
         /\ \A n : Local(n)' = IF n \notin Names(native'.code) THEN None
                               ELSE IF n = x THEN v ELSE Local(n)
<1> DEFINE rest == Tail(native.code)
           locals == [n \in DOMAIN native.locals \cup {x} |->
                        IF n = x THEN v ELSE native.locals[n]]
           kept == [n \in DOMAIN locals \cap Names(rest) |-> locals[n]]
<1>1. native' = [code |-> rest, locals |-> kept]
  BY DEF Proceed
<1>2. native'.code = rest /\ native'.locals = kept
  BY <1>1
<1>3. \A n : n \in DOMAIN kept <=> n \in Names(rest) /\ (n = x \/ n \in DOMAIN native.locals)
  OBVIOUS
<1>4. \A n \in DOMAIN kept : kept[n] = IF n = x THEN v ELSE native.locals[n]
  OBVIOUS
<1> HIDE DEF rest, kept
<1>5. ASSUME NEW n
      PROVE  Local(n)' = IF n \notin Names(rest) THEN None ELSE IF n = x THEN v ELSE Local(n)
  <2>1. Local(n)' = IF n \in DOMAIN kept THEN kept[n] ELSE None
    BY <1>2 DEF Local
  <2>. QED  BY <1>3, <1>4, <2>1 DEF Local
<1>. QED
  BY <1>2, <1>3, <1>5 DEF rest

\* What later steps name, this one and the later ones name.
LEMMA NamesFollow ==
  ASSUME NEW code \in Seq(Steps), code # <<>>
  PROVE  /\ Names(Tail(code)) \subseteq Names(code)
         /\ Head(code).x \in Names(code) /\ Head(code).y \in Names(code)
<1>1. /\ Head(code) = code[1] /\ 1 \in DOMAIN code /\ Len(code) \in Nat
      /\ \A k \in DOMAIN Tail(code) : k + 1 \in DOMAIN code /\ Tail(code)[k] = code[k + 1]
  BY HeadTailProperties
<1>2. ASSUME NEW n \in Names(Tail(code)) PROVE n \in Names(code)
  <2>1. PICK k \in DOMAIN Tail(code) : n \in {Tail(code)[k].x, Tail(code)[k].y}
    BY DEF Names
  <2>. QED  BY <1>1, <2>1 DEF Names
<1>. QED
  BY <1>1, <1>2 DEF Names

\* What a step leaves of the objects.
Grows ==
  /\ Allocated \subseteq DOMAIN heap' /\ Past(next) \subseteq Past(next')
  /\ DOMAIN heap' \cap Past(next) \subseteq Allocated /\ Value(heap') \subseteq Past(next')
  /\ Value(heap) \subseteq Past(next)
  /\ \A o \in Allocated : heap'[o].kind = heap[o].kind
  /\ Now.do # "enter" => \A o \in Allocated : Fresh(heap, o) => Fresh(heap', o)

\* What a step does to the temporary roots.
RootsMove ==
  IF Now.do = "root" THEN tempRoots' = Append(tempRoots, Local(Now.x))
  ELSE IF Now.do = "unroot" THEN tempRoots' = Front(tempRoots)
  ELSE tempRoots' = tempRoots

\* What is known of the locals before a step gives what is known of them after it.
LEMMA StandsOn ==
  ASSUME NEW p \in States, NEW r \in States, Now \in Steps, Follows(Now, p, r),
         p.dead \subseteq r.dead, Stands(p),
         Now.x \in Names(native.code),
         Names(Tail(native.code)) \subseteq Names(native.code),
         Names(native.code) \subseteq LocalNames \ p.dead,
         Names(Tail(native.code)) \subseteq LocalNames \ r.dead,
         DOMAIN native.locals \subseteq Names(native.code),
         None \notin DOMAIN heap', RootsMove,
         NEW T, tempRoots \in Seq(T),
         NEW v, Proceed(Now.x, v),
         IF Now.do \in Makers THEN v \in Value(heap') ELSE v = Local(Now.x),
         Now.do = "upvalue" => Has(heap', v, "upvalue"),
         Now.do = "fiber" => Fresh(heap', v),
         Grows,
         \A n \in r.kept \ r.dead :
           \/ n \in p.kept /\ n \notin (IF Now.do \in Makers THEN {Now.x} ELSE {})
              /\ (Local(n) \in Anchors => Local(n) \in Anchors')
           \/ n = Now.x /\ Local(n) \in Anchors' /\ Now.do \notin Makers,
         compiler' # {} => r.source
  PROVE  Stands(r)'
<1> DEFINE rest == Names(native'.code)
           x == Now.x
           making == Now.do \in Makers
<1>1. /\ rest \subseteq Names(native.code) /\ rest \subseteq LocalNames \ p.dead
      /\ \A n : Local(n)' = IF n \notin rest THEN None ELSE IF n = x THEN v ELSE Local(n)
  BY NextLocals
<1>2. /\ x \notin p.dead
      /\ making => x \notin ToSet(p.roots) \cup r.kept \cup NeverMade
      /\ making => (Now.do = "upvalue" <=> x = "upvalue") /\ (Now.do = "fiber" <=> x = "fiber")
      /\ Set(p) \subseteq Set(r) \cup r.dead /\ (making => x \in Set(r) \cup r.dead)
      /\ "upvalue" \in r.bare => "upvalue" \in p.bare \/ (making /\ x = "upvalue")
      /\ "fiber" \in r.bare => "fiber" \in p.bare \/ (making /\ x = "fiber")
      /\ Now.do = "enter" => "fiber" \in r.dead
  <2> DEFINE made == IF Now.do \in Makers THEN {x} ELSE {}
  <2>1. /\ x \notin p.dead
        /\ made \cap (ToSet(p.roots) \cup r.kept \cup NeverMade) = {}
        /\ making => (Now.do = "upvalue" <=> x = "upvalue") /\ (Now.do = "fiber" <=> x = "fiber")
        /\ Set(p) \cup made \subseteq Set(r) \cup r.dead
        /\ {"upvalue", "fiber"} \cap r.bare \subseteq p.bare \cup made
        /\ Now.do = "enter" => "fiber" \in r.dead
    <3>1. x \notin p.dead /\ Allots(Now, p, r) /\ Employs(Now, p, r)
      BY DEF Follows
    <3>2. Now.do = "enter" => "fiber" \in r.dead
      BY <3>1 DEF Employs
    <3>. QED  BY <3>1, <3>2, Zenon DEF Allots
  <2>2. making => x \in made
    OBVIOUS
  <2>3. \A n \in made : making /\ n = x
    OBVIOUS
  <2> HIDE DEF made
  <2>. QED  BY <2>1, <2>2, <2>3
<1>3. \A n \in rest : ~(making /\ n = x) => Local(n)' = Local(n)
  BY <1>1
<1>4. \A n : n \notin rest => Local(n)' = None
  BY <1>1
<1>5. \A n \in LocalNames \ r.dead : n \in LocalNames \ p.dead
  OBVIOUS
<1>6. /\ None \in Value(heap') /\ None \in Past(next') /\ None \in Anchors'
      /\ Value(heap) \subseteq Value(heap') /\ Past(next) \subseteq Past(next')
  BY DEF Value, Past, Anchors, Grows, Allocated
<1>7. /\ Len(tempRoots') = Len(r.roots)
      /\ \A i \in 1..Len(r.roots) :
           r.roots[i] \in rest => tempRoots'[i] = Local(r.roots[i])'
  <2>0. /\ p.roots \in Seq(LocalNames) /\ r.roots \in Seq(LocalNames)
        /\ Len(tempRoots) = Len(p.roots) /\ Len(p.roots) \in Nat /\ Len(r.roots) \in Nat
        /\ \A i \in 1..Len(p.roots) :
             p.roots[i] \in Names(native.code) => tempRoots[i] = Local(p.roots[i])
    BY DEF States, Stands
  <2>1. CASE Now.do = "root"
    <3>1. r.roots = Append(p.roots, x) /\ tempRoots' = Append(tempRoots, Local(x)) /\ ~making
      BY <2>1 DEF Follows, Restacks, RootsMove, Makers
    <3>2. x \in LocalNames
      BY DEF Steps
    <3>3. tempRoots \in Seq(T \cup {Local(x)})
      OBVIOUS
    <3>4. /\ Len(r.roots) = Len(p.roots) + 1 /\ Len(tempRoots') = Len(tempRoots) + 1
          /\ \A i \in 1..Len(p.roots) : r.roots[i] = p.roots[i] /\ tempRoots'[i] = tempRoots[i]
          /\ r.roots[Len(p.roots) + 1] = x /\ tempRoots'[Len(p.roots) + 1] = Local(x)
      BY <2>0, <3>1, <3>2, <3>3
    <3>5. ASSUME NEW i \in 1..Len(r.roots), r.roots[i] \in rest
          PROVE  tempRoots'[i] = Local(r.roots[i])'
      <4>1. i \in 1..Len(p.roots) \/ i = Len(p.roots) + 1
        BY <2>0, <3>4
      <4>. QED  BY <1>1, <1>3, <2>0, <3>1, <3>4, <3>5, <4>1
    <3>. QED  BY <2>0, <3>4, <3>5
  <2>2. CASE Now.do = "unroot"
    <3>1. /\ Len(p.roots) = Len(r.roots) + 1 /\ ~making /\ tempRoots' = Front(tempRoots)
          /\ \A i \in 1..Len(r.roots) : r.roots[i] = p.roots[i]
      BY <2>2 DEF Follows, Restacks, RootsMove, Makers
    <3>2. /\ Len(tempRoots') = Len(tempRoots) - 1
          /\ \A i \in 1..Len(tempRoots) - 1 : tempRoots'[i] = tempRoots[i]
      <4>1. 1 \in 1..Len(tempRoots) /\ Len(tempRoots) - 1 \in 0..Len(tempRoots)
        BY <2>0, <3>1
      <4>2. tempRoots' = SubSeq(tempRoots, 1, Len(tempRoots) - 1)
        BY <3>1 DEF Front
      <4>. QED  BY <2>0, <3>1, <4>1, <4>2, SubSeqProperties
    <3>3. \A i \in 1..Len(r.roots) : i \in 1..Len(p.roots) /\ i \in 1..Len(tempRoots) - 1
      BY <2>0, <3>1
    <3>. QED  BY <1>1, <1>3, <2>0, <3>1, <3>2, <3>3
  <2>3. CASE Now.do \notin {"root", "unroot"}
    <3>1. r.roots = p.roots /\ tempRoots' = tempRoots
      BY <2>3 DEF Follows, Restacks, RootsMove
    <3>2. \A i \in 1..Len(r.roots) : r.roots[i] \in ToSet(p.roots)
      BY <2>0, <3>1 DEF ToSet
    <3>3. \A i \in 1..Len(r.roots) : r.roots[i] \in rest => Local(r.roots[i])' = Local(r.roots[i])
      BY <1>2, <1>3, <3>2
    <3>. QED  BY <1>1, <2>0, <3>1, <3>3
  <2>. QED  BY <2>1, <2>2, <2>3
<1>8. ASSUME NEW n \in LocalNames \ r.dead
      PROVE  /\ Local(n)' \in IF n \in Unrooted THEN Past(next') ELSE Value(heap')
             /\ n \notin Set(r) => Local(n)' = None
             /\ n \in r.kept => Local(n)' \in Anchors'
  <2>0. n \in LocalNames \ p.dead
    OBVIOUS
  <2>1. CASE n \notin rest
    BY <1>4, <1>6, <2>1
  <2>2. CASE n \in rest /\ making /\ n = x
    <3>1. Local(n)' = v /\ v \in Value(heap') /\ v \in Past(next')
      BY <1>1, <2>2 DEF Grows
    <3>. QED  BY <1>2, <2>2, <3>1
  <2>3. CASE n \in rest /\ ~(making /\ n = x)
    <3>1. Local(n)' = Local(n)
      BY <1>3, <2>3
    <3>2. /\ Local(n) \in IF n \in Unrooted THEN Past(next) ELSE Value(heap)
          /\ n \notin Set(p) => Local(n) = None
          /\ n \in p.kept => Local(n) \in Anchors
      BY <2>0 DEF Stands
    <3>3. Local(n)' \in IF n \in Unrooted THEN Past(next') ELSE Value(heap')
      BY <1>6, <3>1, <3>2
    <3>4. n \notin Set(r) => Local(n)' = None
      BY <1>2, <3>1, <3>2
    <3>5. n \in r.kept => Local(n)' \in Anchors'
      BY <3>1, <3>2
    <3>. QED  BY <3>3, <3>4, <3>5
  <2>. QED  BY <2>1, <2>2, <2>3
<1>9. \A n \in NeverMade : Local(n)' \in DOMAIN heap' => heap'[Local(n)'].kind = "class"
  <2> SUFFICES ASSUME NEW n \in NeverMade, Local(n)' \in DOMAIN heap'
               PROVE  heap'[Local(n)'].kind = "class"
    OBVIOUS
  <2>1. n \in rest
    BY <1>4
  <2>2. Local(n)' = Local(n)
    BY <1>2, <1>3, <2>1
  <2>3. Local(n) \in Past(next)
    <3>1. n \in LocalNames \ p.dead
      BY <1>1, <2>1
    <3>2. Value(heap) \subseteq Past(next)
      BY DEF Grows
    <3>. QED  BY <3>1, <3>2 DEF Stands
  <2>4. Local(n) \in Allocated
    BY <2>2, <2>3 DEF Grows
  <2>. QED  BY <2>2, <2>4 DEF Stands, Grows
<1>10. "upvalue" \in r.bare \cap rest => Has(heap', Local("upvalue")', "upvalue")
  <2> SUFFICES ASSUME "upvalue" \in r.bare, "upvalue" \in rest
               PROVE  Has(heap', Local("upvalue")', "upvalue")
    OBVIOUS
  <2>1. CASE making /\ x = "upvalue"
    BY <1>1, <1>2, <2>1
  <2>2. CASE ~(making /\ x = "upvalue")
    <3>1. Local("upvalue")' = Local("upvalue") /\ "upvalue" \in p.bare
      BY <1>2, <1>3, <2>2
    <3>2. Has(heap, Local("upvalue"), "upvalue")
      BY <1>1, <3>1 DEF Stands
    <3>. QED  BY <3>1, <3>2 DEF Has, Grows, Allocated
  <2>. QED  BY <2>1, <2>2
<1>11. "fiber" \in r.bare \cap rest => Fresh(heap', Local("fiber")')
  <2> SUFFICES ASSUME "fiber" \in r.bare, "fiber" \in rest
               PROVE  Fresh(heap', Local("fiber")')
    OBVIOUS
  <2>1. CASE making /\ x = "fiber"
    BY <1>1, <1>2, <2>1
  <2>2. CASE ~(making /\ x = "fiber")
    <3>1. Local("fiber")' = Local("fiber") /\ "fiber" \in p.bare
      BY <1>2, <1>3, <2>2
    <3>2. Fresh(heap, Local("fiber"))
      BY <1>1, <3>1 DEF Stands
    <3>3. Now.do # "enter"
      BY <1>2, NextLocals
    <3>. QED  BY <3>1, <3>2, <3>3 DEF Fresh, Has, Grows, Allocated
  <2>. QED  BY <2>1, <2>2
<1>. QED
  BY <1>7, <1>8, <1>9, <1>10, <1>11 DEF Stands, Allocated

\* A root is one that was there, or the local that is pushed.
LEMMA RootsAre ==
  ASSUME NEW p \in States, NEW r \in States, Now \in Steps, Restacks(Now, p, r), RootsMove,
         Len(tempRoots) = Len(p.roots), NEW T, tempRoots \in Seq(T), NEW i \in 1..Len(r.roots)
  PROVE  \/ /\ i \in 1..Len(p.roots) /\ r.roots[i] = p.roots[i] /\ tempRoots'[i] = tempRoots[i]
         \/ Now.do = "root" /\ r.roots[i] = Now.x /\ tempRoots'[i] = Local(Now.x)
<1>0. /\ p.roots \in Seq(LocalNames) /\ r.roots \in Seq(LocalNames)
      /\ Len(p.roots) \in Nat /\ Len(r.roots) \in Nat
  BY DEF States
<1>1. CASE Now.do = "root"
  <2>1. r.roots = Append(p.roots, Now.x) /\ tempRoots' = Append(tempRoots, Local(Now.x))
    BY <1>1 DEF Restacks, RootsMove
  <2>2. Now.x \in LocalNames
    BY DEF Steps
  <2>3. tempRoots \in Seq(T \cup {Local(Now.x)})
    OBVIOUS
  <2>4. /\ Len(r.roots) = Len(p.roots) + 1
        /\ \A j \in 1..Len(p.roots) : r.roots[j] = p.roots[j] /\ tempRoots'[j] = tempRoots[j]
        /\ r.roots[Len(p.roots) + 1] = Now.x /\ tempRoots'[Len(p.roots) + 1] = Local(Now.x)
    BY <1>0, <2>1, <2>2, <2>3
  <2>5. i \in 1..Len(p.roots) \/ i = Len(p.roots) + 1
    BY <1>0, <2>4
  <2>. QED  BY <1>1, <2>4, <2>5
<1>2. CASE Now.do = "unroot"
  <2>1. /\ Len(p.roots) = Len(r.roots) + 1 /\ tempRoots' = Front(tempRoots)
        /\ \A j \in 1..Len(r.roots) : r.roots[j] = p.roots[j]
    BY <1>2 DEF Restacks, RootsMove
  <2>2. \A j \in 1..Len(tempRoots) - 1 : tempRoots'[j] = tempRoots[j]
    <3>1. 1 \in 1..Len(tempRoots) /\ Len(tempRoots) - 1 \in 0..Len(tempRoots)
      BY <1>0, <2>1
    <3>2. tempRoots' = SubSeq(tempRoots, 1, Len(tempRoots) - 1)
      BY <2>1 DEF Front
    <3>. QED  BY <1>0, <2>1, <3>1, <3>2, SubSeqProperties
  <2>3. i \in 1..Len(p.roots) /\ i \in 1..Len(tempRoots) - 1
    BY <1>0, <2>1
  <2>. QED  BY <2>1, <2>2, <2>3
<1>3. CASE Now.do \notin {"root", "unroot"}
  BY <1>3 DEF Restacks, RootsMove
<1>. QED
  BY <1>1, <1>2, <1>3

\* What a step makes is of its kind, and only the metaclass of a new class is set.
Shapes(v) ==
  /\ Now.do = "string" => Has(heap', v, "string")
  /\ Now.do = "class" => Has(heap', v, "class")
  /\ \A o \in Allocated : heap[o].kind = "class" =>
       heap'[o].class = IF Now.do = "metaclass" /\ o = Local(Now.x) THEN Local(Now.y)
                        ELSE heap[o].class

\* The roots that are strings stay strings, and the class that is created its metaclass.
LEMMA ServesOn ==
  ASSUME NEW p \in States, NEW r \in States, Now \in Steps, Follows(Now, p, r),
         Stands(p), Serves(p),
         {Now.x, Now.y} \subseteq Names(native.code),
         Names(Tail(native.code)) \subseteq Names(native.code),
         Names(native.code) \subseteq LocalNames \ p.dead,
         None \notin DOMAIN heap', RootsMove,
         NEW T, tempRoots \in Seq(T),
         NEW v, Proceed(Now.x, v),
         IF Now.do \in Makers THEN v \in Value(heap') ELSE v = Local(Now.x),
         Grows, Shapes(v)
  PROVE  Serves(r)'
<1> DEFINE rest == Names(native'.code)
           x == Now.x
           making == Now.do \in Makers
<1>1. /\ native'.code = Tail(native.code)
      /\ rest \subseteq Names(native.code) /\ x \in Names(native.code)
      /\ \A n : Local(n)' = IF n \notin rest THEN None ELSE IF n = x THEN v ELSE Local(n)
  BY NextLocals
<1>2. \A n \in rest : ~(making /\ n = x) => Local(n)' = Local(n)
  BY <1>1
<1>3. \A o : o \in Past(next) /\ o \in DOMAIN heap' => o \in Allocated
  BY DEF Grows
<1>4. \A n \in Names(native.code) : Local(n) \in Past(next)
  <2> TAKE n \in Names(native.code)
  <2>1. Local(n) \in IF n \in Unrooted THEN Past(next) ELSE Value(heap)
    BY DEF Stands
  <2>. QED  BY <2>1 DEF Grows
<1>5. \A o, kind : o \in Past(next) /\ (o \in Allocated => Has(heap, o, kind))
                     => (o \in DOMAIN heap' => Has(heap', o, kind))
  BY <1>3 DEF Has, Grows, Allocated
<1>6. /\ making /\ x \in StringNames => Now.do = "string"
      /\ r.stage = "made" =>
           IF Now.do = "class" THEN x = "classObj"
           ELSE p.stage = "made" /\ (making => x # "classObj")
      /\ r.stage = "linked" =>
           IF Now.do = "metaclass" THEN p.stage = "made" /\ Now.y = "metaclass"
           ELSE p.stage = "linked" /\ ~making /\ (Now.do = "root" => x # "metaclass")
  BY DEF Follows, Lasts
<1>7. \A n \in StringNames : Local(n)' \in DOMAIN heap' => Has(heap', Local(n)', "string")
  <2> SUFFICES ASSUME NEW n \in StringNames, Local(n)' \in DOMAIN heap'
               PROVE  Has(heap', Local(n)', "string")
    OBVIOUS
  <2>1. n \in rest
    BY <1>1
  <2>2. CASE making /\ n = x
    BY <1>1, <1>6, <2>1, <2>2 DEF Shapes
  <2>3. CASE ~(making /\ n = x)
    <3>1. Local(n)' = Local(n) /\ Local(n) \in Past(next)
      BY <1>1, <1>2, <1>4, <2>1, <2>3
    <3>2. Local(n) \in Allocated => Has(heap, Local(n), "string")
      BY DEF Serves
    <3>. QED  BY <1>5, <3>1, <3>2
  <2>. QED  BY <2>2, <2>3
<1>8. ASSUME NEW i \in 1..Len(r.roots)
      PROVE  \/ /\ i \in 1..Len(p.roots) /\ r.roots[i] = p.roots[i]
                /\ tempRoots'[i] = tempRoots[i]
             \/ Now.do = "root" /\ r.roots[i] = x /\ tempRoots'[i] = Local(x)
  <2>1. Restacks(Now, p, r) /\ Len(tempRoots) = Len(p.roots)
    BY DEF Follows, Stands
  <2>. QED  BY <2>1, RootsAre
<1>9. ASSUME NEW i \in 1..Len(r.roots)
      PROVE  /\ tempRoots'[i] \in Past(next')
             /\ r.roots[i] \in StringNames =>
                  (tempRoots'[i] \in DOMAIN heap' => Has(heap', tempRoots'[i], "string"))
  <2>1. CASE /\ i \in 1..Len(p.roots) /\ r.roots[i] = p.roots[i] /\ tempRoots'[i] = tempRoots[i]
    <3>1. /\ tempRoots[i] \in Past(next)
          /\ r.roots[i] \in StringNames =>
               (tempRoots[i] \in Allocated => Has(heap, tempRoots[i], "string"))
      BY <2>1 DEF Serves
    <3>. QED  BY <1>5, <2>1, <3>1 DEF Grows
  <2>2. CASE Now.do = "root" /\ r.roots[i] = x /\ tempRoots'[i] = Local(x)
    <3>1. Local(x) \in Past(next)
      BY <1>1, <1>4
    <3>2. x \in StringNames => (Local(x) \in Allocated => Has(heap, Local(x), "string"))
      BY DEF Serves
    <3>. QED  BY <1>5, <2>2, <3>1, <3>2 DEF Grows
  <2>. QED  BY <1>8, <2>1, <2>2
<1>10. ASSUME "classObj" \in rest, r.stage # "none"
       PROVE  /\ Has(heap', Local("classObj")', "class")
              /\ r.stage = "linked" =>
                   \A i \in 1..Len(r.roots) :
                     r.roots[i] = "metaclass" => tempRoots'[i] = heap'[Local("classObj")'].class
  <2>0. r.stage = "made" \/ r.stage = "linked"
    BY <1>10 DEF States, Stages
  <2>1. CASE Now.do = "class"
    <3>1. making
      BY <2>1 DEF Makers
    <3>2. r.stage = "made" /\ x = "classObj"
      BY <1>6, <2>0, <2>1, <3>1
    <3>3. Local("classObj")' = v
      BY <1>1, <1>10, <3>2
    <3>. QED  BY <2>1, <3>2, <3>3 DEF Shapes
  <2>2. CASE Now.do # "class"
    <3>1. p.stage # "none" /\ ~(making /\ x = "classObj")
      BY <1>6, <2>0, <2>2 DEF Makers
    <3>2. Local("classObj")' = ClassObj /\ "classObj" \in Names(native.code)
      BY <1>1, <1>2, <1>10, <3>1 DEF ClassObj
    <3>3. Has(heap, ClassObj, "class")
      BY <3>1, <3>2 DEF Serves
    <3>4. Has(heap', ClassObj, "class") /\ ClassObj \in Allocated
      BY <3>3 DEF Has, Grows, Allocated
    <3>5. ASSUME r.stage = "linked", NEW i \in 1..Len(r.roots), r.roots[i] = "metaclass"
          PROVE  tempRoots'[i] = heap'[ClassObj].class
      <4>1. i \in 1..Len(p.roots) /\ p.roots[i] = "metaclass" /\ tempRoots'[i] = tempRoots[i]
        BY <1>6, <1>8, <3>5
      <4>2. CASE Now.do = "metaclass"
        <5>1. Now.y = "metaclass" /\ x = "classObj"
          BY <1>6, <3>5, <4>2 DEF Steps
        <5>2. heap'[ClassObj].class = Local("metaclass")
          BY <3>3, <3>4, <4>2, <5>1 DEF Shapes, Has, ClassObj
        <5>3. tempRoots[i] = Local("metaclass")
          BY <4>1, <5>1 DEF Stands
        <5>. QED  BY <4>1, <5>2, <5>3
      <4>3. CASE Now.do # "metaclass"
        <5>1. p.stage = "linked"
          BY <1>6, <3>5, <4>3
        <5>2. tempRoots[i] = heap[ClassObj].class
          BY <3>2, <4>1, <5>1 DEF Serves
        <5>3. heap'[ClassObj].class = heap[ClassObj].class
          BY <3>3, <3>4, <4>3 DEF Shapes, Has
        <5>. QED  BY <4>1, <5>2, <5>3
      <4>. QED  BY <4>2, <4>3
    <3>. QED  BY <3>2, <3>4, <3>5
  <2>. QED  BY <2>1, <2>2
<1>. QED
  BY <1>7, <1>9, <1>10 DEF Serves, Allocated, ClassObj

\* A C function is between p and r.
At(p, r) ==
  /\ native.code # <<>> /\ Now \in Steps
  /\ Stands(p) /\ Serves(p) /\ Follows(Now, p, r) /\ p.dead \subseteq r.dead
  /\ Leads(Tail(native.code), r)
  /\ {Now.x, Now.y} \subseteq Names(native.code)
  /\ Names(native.code) \subseteq LocalNames \ p.dead
  /\ Names(Tail(native.code)) \subseteq Names(native.code)
  /\ Names(Tail(native.code)) \subseteq LocalNames \ r.dead

\* There is always a next step for it to be at.
LEMMA AtStep ==
  ASSUME Lives, native.code # <<>>
  PROVE  \E p \in States, r \in States : At(p, r)
<1>1. PICK p \in States, q \in States :
        Path(native.code, p, q) /\ Ended(q) /\ Stands(p) /\ Serves(p)
  BY DEF Lives, Leads
<1>2. /\ Head(native.code) \in Steps
      /\ \E r \in States : /\ Follows(Head(native.code), p, r) /\ p.dead \subseteq r.dead
                           /\ Path(Tail(native.code), r, q)
  BY <1>1, PathNow
<1>3. PICK r \in States : /\ Follows(Head(native.code), p, r) /\ p.dead \subseteq r.dead
                          /\ Path(Tail(native.code), r, q)
  BY <1>2
<1>4. native.code \in Seq(Steps)
  BY <1>1 DEF Path
<1>5. /\ Names(native.code) \subseteq LocalNames \ p.dead
      /\ Names(Tail(native.code)) \subseteq LocalNames \ r.dead
  BY <1>1, <1>3, DeadUnnamed
<1>6. At(p, r)
  BY <1>1, <1>2, <1>3, <1>4, <1>5, NamesFollow DEF At, Now, Leads
<1>. QED
  BY <1>6

\* What is known of the locals of a step.
LEMMA Named ==
  ASSUME Lives, NEW p \in States, NEW r \in States, At(p, r), NEW n \in {Now.x, Now.y}
  PROVE  /\ Local(n) \in Past(next)
         /\ n \notin Unrooted => Local(n) \in Value(heap)
         /\ Local(n) \in Allocated \cup {None} => Local(n) \in Value(heap)
         /\ n \in NeverMade => (Local(n) \in Allocated => heap[Local(n)].kind = "class")
<1>1. n \in LocalNames \ p.dead
  BY DEF At
<1>2. Local(n) \in IF n \in Unrooted THEN Past(next) ELSE Value(heap)
  BY <1>1 DEF At, Stands
<1>3. Value(heap) \subseteq Past(next)
  BY DEF Lives, Good, Sound, Ranged, Value, Past
<1>4. n \in NeverMade => (Local(n) \in Allocated => heap[Local(n)].kind = "class")
  BY DEF At, Stands
<1>. QED
  BY <1>2, <1>3, <1>4 DEF Value, Allocated

\* The step is taken.
LEMMA Onward ==
  ASSUME FInv, Lives, NEW p \in States, NEW r \in States, At(p, r), RootsMove,
         NEW v, Proceed(Now.x, v),
         IF Now.do \in Makers THEN v \in Value(heap') ELSE v = Local(Now.x),
         Now.do = "upvalue" => Has(heap', v, "upvalue"),
         Now.do = "fiber" => Fresh(heap', v),
         Grows, Shapes(v),
         \A n \in r.kept \ r.dead :
           \/ n \in p.kept /\ n \notin (IF Now.do \in Makers THEN {Now.x} ELSE {})
              /\ (Local(n) \in Anchors => Local(n) \in Anchors')
           \/ n = Now.x /\ Local(n) \in Anchors' /\ Now.do \notin Makers,
         compiler' # {} => r.source,
         Good(heap', next', fiber'),
         modules' \cup methodNames' \cup compiler' \subseteq Value(heap'),
         handles' \in Seq(Value(heap')), 1 \in modules', dark' = {}
  PROVE  Lives'
<1>1. PICK S : tempRoots \in Seq(S)
  BY DEF FInv, Rooted
<1>2. None \notin DOMAIN heap'
  BY DEF Good, Sound, Ranged
<1>3. Stands(r)' /\ Serves(r)'
  <2>1. /\ Now \in Steps /\ Stands(p) /\ Serves(p) /\ Follows(Now, p, r)
        /\ p.dead \subseteq r.dead
        /\ Now.x \in Names(native.code) /\ {Now.x, Now.y} \subseteq Names(native.code)
        /\ Names(native.code) \subseteq LocalNames \ p.dead
        /\ Names(Tail(native.code)) \subseteq Names(native.code)
        /\ Names(Tail(native.code)) \subseteq LocalNames \ r.dead
    BY DEF At
  <2>2. DOMAIN native.locals \subseteq Names(native.code)
    BY DEF Lives
  <2>3. Stands(r)'
    BY <1>1, <1>2, <2>1, <2>2, StandsOn
  <2>4. Serves(r)'
    BY <1>1, <1>2, <2>1, ServesOn
  <2>. QED  BY <2>3, <2>4
<1>4. native'.code = Tail(native.code) /\ DOMAIN native'.locals \subseteq Names(native'.code)
  BY NextLocals
<1>5. Leads(native'.code, r)
  BY <1>4 DEF At
<1>. QED
  BY <1>3, <1>4, <1>5 DEF Lives

\* Where the values are that are kept by a step.
LEMMA KeptWell ==
  ASSUME NEW p \in States, NEW r \in States, At(p, r), NEW n \in r.kept
  PROVE  /\ n \in p.kept \/ (n = Now.x /\ Now.do \in {"compiler", "handle", "push", "rehandle",
              "top"})
         /\ Now.do \in {"rehandle", "top"} => n = Now.x
         /\ Now.do \notin {"endCompiler", "enter"}
         /\ Now.do \in Makers => n \in p.kept /\ n # Now.x
<1>1. r.kept \subseteq Keeping(Now, p)
  BY DEF At, Follows, Employs
<1>2. Now.do \in Makers => n # Now.x
  BY DEF At, Follows, Allots
<1>. QED
  BY <1>1, <1>2 DEF Keeping, Makers

\* What compiles is known, and a compiler may be finished.
LEMMA Compiles ==
  ASSUME NEW p \in States, NEW r \in States, At(p, r),
         Now.do # "compiler" => compiler' = compiler \/ compiler' = {},
         Now.do = "endCompiler" => compiler' = {}
  PROVE  compiler' # {} => r.source
<1>1. r.source = (IF Now.do = "compiler" THEN TRUE
                  ELSE IF Now.do = "endCompiler" THEN FALSE ELSE p.source)
  BY DEF At, Follows, Employs
<1>2. compiler # {} => p.source
  BY DEF At, Stands
<1>. QED
  BY <1>1, <1>2

\* The number of the next object is no value yet.
LEMMA NextNew ==
  ASSUME FInv, Good(heap, next, fiber), next <= MaxObjects
  PROVE  /\ next # None /\ next \notin Allocated /\ next \notin Past(next)
         /\ next \in Past(next + 1) /\ Past(next) \subseteq Past(next + 1)
         /\ Value(heap) \subseteq Past(next)
<1>1. next # None
  <2>1. script \in Scripts /\ next \in Nat \ {0} /\ MaxObjects \in Nat
        /\ None \notin 1..MaxObjects
    BY HeapAssumption DEF FInv, Numbered, MaxObjects
  <2>. QED  BY <2>1
<1>2. Ranged(heap, next)
  BY DEF Good, Sound
<1>. QED
  BY <1>1, <1>2, Numbers DEF Allocated

\* The objects that are there stay as they are when another is allocated.
LEMMA GrowsWith ==
  ASSUME FInv, Lives, next <= MaxObjects, next' = next + 1,
         DOMAIN heap' = Allocated \cup {next},
         \A o \in Allocated : heap'[o].kind = heap[o].kind,
         \A o \in Allocated : heap[o].kind = "fiber" =>
           /\ heap'[o].frames = heap[o].frames /\ heap'[o].caller = heap[o].caller
           /\ heap'[o].root = heap[o].root
  PROVE  Grows
<1>1. /\ next \notin Allocated /\ next \notin Past(next)
      /\ next \in Past(next + 1) /\ Past(next) \subseteq Past(next + 1)
      /\ Value(heap) \subseteq Past(next)
  BY NextNew DEF Lives
<1>2. Value(heap') \subseteq Past(next')
  BY <1>1 DEF Value, Allocated
<1>3. \A o \in Allocated : Fresh(heap, o) => Fresh(heap', o)
  BY DEF Fresh, Has, Allocated
<1>. QED
  BY <1>1, <1>2, <1>3 DEF Grows

\* What is allocated is made of what is there.
LEMMA NewObjects ==
  ASSUME Value(heap) \subseteq Past(next), NEW y \in Value(heap)
  PROVE  /\ \A r \in {NewString, NewSingleClass(y), NewFunction, NewClosure(y), NewModule(y),
                      NewFiber(y), NewInstance(y), NewForeign(y), NewList, NewMap} :
              /\ r \in Obj(Value(heap), Past(next)) /\ r.kind # "upvalue"
              /\ r.kind = "closure" => r.upvalues = <<>>
              /\ r.kind = "fiber" =>
                   /\ r.openUpvalues = {} /\ r.stack # <<>> /\ r.caller = None
                   /\ ~r.root /\ r.frames # <<>>
         /\ NewFiber(y).kind = "fiber"
<1> DEFINE V == Value(heap)
           P == Past(next)
<1>1. None \in V
  BY DEF Value
<1> HIDE DEF V
<1>2. <<y>> \in Seq(V) /\ <<>> \in Seq(V) /\ <<None>> \in [{1} -> V] /\ <<y>> # <<>>
  <2>1. 1..1 = {1}
    OBVIOUS
  <2>2. \A v \in V : <<v>> \in [1..1 -> V]
    OBVIOUS
  <2>. QED  BY <1>1, <2>1, <2>2 DEF V
<1>3. NewString \in ObjString
  BY DEF NewString, ObjString
<1>4. NewSingleClass(y) \in ObjClass(V)
  BY <1>1 DEF NewSingleClass, ObjClass, V
<1>5. NewFunction \in ObjFn(V)
  BY DEF NewFunction, ObjFn
<1>6. NewClosure(y) \in ObjClosure(V) /\ NewClosure(y).upvalues = <<>>
  BY <1>2 DEF NewClosure, ObjClosure, V
<1>7. NewModule(y) \in ObjModule(V)
  BY <1>2 DEF NewModule, ObjModule, V
<1>8. /\ NewFiber(y) \in ObjFiber(V) /\ NewFiber(y).kind = "fiber"
      /\ NewFiber(y).openUpvalues = {} /\ NewFiber(y).stack # <<>> /\ NewFiber(y).caller = None
      /\ ~NewFiber(y).root /\ NewFiber(y).frames # <<>>
  BY <1>1, <1>2 DEF NewFiber, ObjFiber
<1>9. NewInstance(y) \in ObjInstance(V)
  BY <1>2 DEF NewInstance, ObjInstance, V
<1>10. NewForeign(y) \in ObjForeign(P)
  BY DEF NewForeign, ObjForeign, V
<1>11. NewList \in ObjList(V) /\ NewMap \in ObjMap(V)
  BY DEF NewList, NewMap, ObjList, ObjMap
<1>12. \A r \in {NewString, NewSingleClass(y), NewFunction, NewClosure(y), NewModule(y),
                 NewFiber(y), NewInstance(y), NewForeign(y), NewList, NewMap} :
         r \in Obj(V, P)
  BY <1>3, <1>4, <1>5, <1>6, <1>7, <1>8, <1>9, <1>10, <1>11 DEF Obj
<1>13. \A r \in {NewString, NewSingleClass(y), NewFunction, NewClosure(y), NewModule(y),
                 NewFiber(y), NewInstance(y), NewForeign(y), NewList, NewMap} :
         /\ r.kind # "upvalue" /\ (r.kind = "closure" => r = NewClosure(y))
         /\ r.kind = "fiber" => r = NewFiber(y)
  BY DEF NewString, NewSingleClass, NewFunction, NewClosure, NewModule, NewFiber, NewInstance,
         NewForeign, NewList, NewMap
<1>. QED
  BY <1>6, <1>8, <1>12, <1>13 DEF V

\* An object is allocated.
LEMMA MadeGood ==
  ASSUME FInv, Good(heap, next, fiber), next <= MaxObjects,
         NEW rec \in Obj(Value(heap), Past(next)), rec.kind # "upvalue",
         rec.kind = "closure" => rec.upvalues = <<>>,
         rec.kind = "fiber" => rec.openUpvalues = {} /\ rec.stack # <<>> /\ rec.caller = None
  PROVE  /\ Good(With(rec), next + 1, fiber) /\ Value(With(rec)) = Value(heap) \cup {next}
         /\ With(rec)[next] = rec /\ \A o \in Allocated : With(rec)[o] = heap[o]
         /\ DOMAIN With(rec) = Allocated \cup {next}
<1>1. With(rec) = Plus(heap, next, rec)
  BY DEF With, Plus, Allocated
<1>2. next # None
  BY NextNew
<1>3. /\ Good(Plus(heap, next, rec), next + 1, fiber)
      /\ Value(Plus(heap, next, rec)) = Value(heap) \cup {next}
      /\ Plus(heap, next, rec)[next] = rec
      /\ \A o \in DOMAIN heap : Plus(heap, next, rec)[o] = heap[o]
  BY <1>2, Added
<1>4. DOMAIN Plus(heap, next, rec) = Allocated \cup {next}
  BY DEF Plus, Allocated
<1>. QED
  BY <1>1, <1>3, <1>4 DEF Allocated

\* What a C function allocates.
LEMMA AllocateLives == FInv /\ Lives /\ Allocate => Lives'
<1> SUFFICES ASSUME FInv, Lives, Allocate PROVE Lives'
  OBVIOUS
<1> DEFINE y == Local(Now.y)
<1>1. /\ native.code # <<>> /\ next <= MaxObjects /\ next' = next + 1
      /\ Usable(y) /\ Proceed(Now.x, next)
      /\ fiber' = fiber /\ modules' = modules /\ methodNames' = methodNames
      /\ handles' = handles /\ tempRoots' = tempRoots /\ compiler' = compiler /\ dark' = dark
  BY DEF Allocate, roots
<1>2. PICK p \in States, r \in States : At(p, r)
  BY <1>1, AtStep
<1>3. y \in Value(heap)
  BY <1>1 DEF Usable, Value, Allocated
<1>4. PICK rec : /\ heap' = With(rec)
                 /\ \/ Now.do = "string" /\ rec = NewString
                    \/ Now.do = "class" /\ rec = NewSingleClass(y)
                    \/ Now.do = "fn" /\ rec = NewFunction
                    \/ Now.do = "closure" /\ rec = NewClosure(y)
                    \/ Now.do = "module" /\ rec = NewModule(y)
                    \/ Now.do = "fiber" /\ rec = NewFiber(y)
  BY DEF Allocate, Doing
<1>5. /\ rec \in Obj(Value(heap), Past(next)) /\ rec.kind # "upvalue"
      /\ rec.kind = "closure" => rec.upvalues = <<>>
      /\ rec.kind = "fiber" => rec.openUpvalues = {} /\ rec.stack # <<>> /\ rec.caller = None
      /\ Now.do = "fiber" => rec.kind = "fiber" /\ rec.caller = None /\ ~rec.root
           /\ rec.frames # <<>>
  <2>1. /\ rec \in {NewString, NewSingleClass(y), NewFunction, NewClosure(y), NewModule(y),
                     NewFiber(y), NewInstance(y), NewForeign(y), NewList, NewMap}
        /\ Now.do = "fiber" => rec = NewFiber(y)
    BY <1>4
  <2>2. Value(heap) \subseteq Past(next)
    BY <1>1, NextNew DEF Lives
  <2>. QED  BY <1>3, <2>1, <2>2, NewObjects
<1>6. /\ Good(heap', next + 1, fiber) /\ Value(heap') = Value(heap) \cup {next}
      /\ heap'[next] = rec /\ \A o \in Allocated : heap'[o] = heap[o]
      /\ DOMAIN heap' = Allocated \cup {next}
  BY <1>1, <1>4, <1>5, MadeGood DEF Lives
<1>7. Grows
  BY <1>1, <1>6, GrowsWith
<1>8. Anchors' = Anchors
  <2>1. heap'[fiber] = heap[fiber] /\ heap'[1] = heap[1]
    BY <1>6 DEF Lives, Good, Chained, Waits, Sound, Has, Allocated
  <2>. QED  BY <1>1, <2>1 DEF Anchors
<1>9. Now.do \in Makers /\ Now.do # "upvalue" /\ RootsMove
  BY <1>1, <1>4 DEF Makers, RootsMove
<1>10. Now.do = "fiber" => Fresh(heap', next)
  BY <1>5, <1>6 DEF Fresh, Has
<1>11. compiler' # {} => r.source
  BY <1>1, <1>2, <1>9, Compiles DEF Makers
<1>12. \A n \in r.kept : n \in p.kept /\ n # Now.x
  BY <1>2, <1>9, KeptWell
<1>13. /\ modules' \cup methodNames' \cup compiler' \subseteq Value(heap')
       /\ handles' \in Seq(Value(heap')) /\ 1 \in modules' /\ dark' = {}
  BY <1>1, <1>6 DEF Lives
<1>14. Shapes(next)
  <2>1. /\ Now.do = "string" => rec.kind = "string"
        /\ Now.do = "class" => rec.kind = "class"
        /\ Now.do # "metaclass"
    BY <1>4 DEF NewString, NewSingleClass
  <2>. QED  BY <1>6, <2>1 DEF Shapes, Has
<1>. QED
  BY <1>1, <1>2, <1>6, <1>7, <1>8, <1>9, <1>10, <1>11, <1>12, <1>13, <1>14, Onward

\* Nothing is allocated and nothing becomes something else.
LEMMA GrowsStill ==
  ASSUME Lives, next' = next, DOMAIN heap' = Allocated,
         \A o \in Allocated : heap'[o].kind = heap[o].kind,
         \A o \in Allocated : heap[o].kind = "fiber" =>
           /\ heap'[o].frames = heap[o].frames /\ heap'[o].caller = heap[o].caller
           /\ Now.do # "enter" => heap'[o].root = heap[o].root
  PROVE  Grows
<1>1. Value(heap) \subseteq Past(next)
  BY DEF Lives, Good, Sound, Ranged, Value, Past
<1>2. Value(heap') = Value(heap)
  BY DEF Value, Allocated
<1>3. Now.do # "enter" => \A o \in Allocated : Fresh(heap, o) => Fresh(heap', o)
  BY DEF Fresh, Has, Allocated
<1>. QED
  BY <1>1, <1>2, <1>3 DEF Grows

\* Memory grows, or a temporary root is pushed or popped.
LEMMA QuietLives == FInv /\ Lives /\ (Reallocate \/ Root) => Lives'
<1> SUFFICES ASSUME FInv, Lives, Reallocate \/ Root PROVE Lives'
  OBVIOUS
<1>1. /\ native.code # <<>> /\ Proceed(Now.x, Local(Now.x))
      /\ heap' = heap /\ next' = next /\ fiber' = fiber /\ modules' = modules
      /\ methodNames' = methodNames /\ handles' = handles /\ compiler' = compiler /\ dark' = dark
  BY DEF Reallocate, Root, Doing, Continue, roots
<1>2. Now.do \in {"grow", "root", "unroot"} /\ RootsMove
  BY DEF Reallocate, Root, Doing, RootsMove, roots
<1>3. PICK p \in States, r \in States : At(p, r)
  BY <1>1, AtStep
<1>4. Now.do \notin Makers \cup {"compiler", "endCompiler", "enter", "handle", "push", "rehandle",
        "top"}
  BY <1>2 DEF Makers
<1>5. Grows
  BY <1>1, GrowsStill DEF Allocated
<1>6. Anchors' = Anchors
  BY <1>1 DEF Anchors
<1>7. compiler' # {} => r.source
  BY <1>1, <1>3, <1>4, Compiles
<1>8. \A n \in r.kept : n \in p.kept
  BY <1>3, <1>4, KeptWell
<1>9. /\ Good(heap', next', fiber') /\ modules' \cup methodNames' \cup compiler'
           \subseteq Value(heap')
      /\ handles' \in Seq(Value(heap')) /\ 1 \in modules' /\ dark' = {}
  BY <1>1 DEF Lives
<1>10. Now.do # "upvalue" /\ Now.do # "fiber"
  BY <1>2
<1>11. Shapes(Local(Now.x))
  BY <1>1, <1>2 DEF Shapes
<1>. QED
  BY <1>1, <1>2, <1>3, <1>4, <1>5, <1>6, <1>7, <1>8, <1>9, <1>10, <1>11, Onward

\* The kinds of objects that have a field.
LEMMA FieldsApart ==
  ASSUME NEW V, NEW P, NEW r \in Obj(V, P)
  PROVE  /\ "superclass" \in DOMAIN r => r.kind = "class"
         /\ "methods" \in DOMAIN r => r.kind = "class"
         /\ "foreign" \in DOMAIN r => r.kind = "class"
         /\ "class" \in DOMAIN r => r.kind \in {"class", "instance", "foreign"}
         /\ "constants" \in DOMAIN r => r.kind = "fn"
         /\ "upvalues" \in DOMAIN r => r.kind = "closure"
<1> DEFINE Fields == {"superclass", "methods", "foreign", "class", "constants", "upvalues"}
<1>1. /\ \A x \in ObjString : DOMAIN x \cap Fields = {}
      /\ \A x \in ObjInstance(V) \cup ObjForeign(P) : DOMAIN x \cap Fields = {"class"}
      /\ \A x \in ObjList(V) \cup ObjMap(V) \cup ObjModule(V) : DOMAIN x \cap Fields = {}
      /\ \A x \in ObjUpvalue(V, P) \cup ObjFiber(V) : DOMAIN x \cap Fields = {}
      /\ \A x \in ObjFn(V) : DOMAIN x \cap Fields = {"constants"}
      /\ \A x \in ObjClosure(V) : DOMAIN x \cap Fields = {"upvalues"}
      /\ \A x \in ObjClass(V) : DOMAIN x \cap Fields \subseteq {"superclass", "methods", "foreign",
           "class"}
  BY DEF ObjString, ObjClass, ObjInstance, ObjForeign, ObjList, ObjMap, ObjModule, ObjFn,
         ObjClosure, ObjUpvalue, ObjFiber
<1>2. /\ \A x \in ObjClass(V) : x.kind = "class"
      /\ \A x \in ObjInstance(V) : x.kind = "instance"
      /\ \A x \in ObjForeign(P) : x.kind = "foreign"
      /\ \A x \in ObjFn(V) : x.kind = "fn"
      /\ \A x \in ObjClosure(V) : x.kind = "closure"
  BY DEF ObjClass, ObjInstance, ObjForeign, ObjFn, ObjClosure
<1>3. /\ "superclass" \in Fields /\ "methods" \in Fields /\ "foreign" \in Fields
      /\ "class" \in Fields /\ "constants" \in Fields /\ "upvalues" \in Fields
  OBVIOUS
<1> HIDE DEF Fields
<1>4. CASE r \in ObjString \cup ObjList(V) \cup ObjMap(V) \cup ObjModule(V) \cup ObjUpvalue(V, P)
        \cup ObjFiber(V)
  BY <1>1, <1>3, <1>4
<1>5. CASE r \in ObjInstance(V) \cup ObjForeign(P)
  <2>1. DOMAIN r \cap Fields = {"class"} /\ r.kind \in {"instance", "foreign"}
    BY <1>1, <1>2, <1>5
  <2>. QED  BY <1>3, <2>1
<1>6. CASE r \in ObjFn(V) \cup ObjClosure(V) \cup ObjClass(V)
  <2>1. CASE r \in ObjFn(V)
    BY <1>1, <1>2, <1>3, <2>1
  <2>2. CASE r \in ObjClosure(V)
    BY <1>1, <1>2, <1>3, <2>2
  <2>3. CASE r \in ObjClass(V)
    BY <1>1, <1>2, <1>3, <2>3
  <2>. QED  BY <1>6, <2>1, <2>2, <2>3
<1>. QED
  BY <1>4, <1>5, <1>6 DEF Obj

\* An object is written, if it is there and the value is new.
LEMMA PutGood ==
  ASSUME Good(heap, next, fiber), NEW x, NEW rec,
         x \in Allocated /\ rec # heap[x] =>
           /\ rec \in Obj(Value(heap), Past(next)) /\ rec.kind = heap[x].kind
           /\ rec.kind # "upvalue"
           /\ rec.kind = "closure" => \A u \in ToSet(rec.upvalues) : Has(heap, u, "upvalue")
           /\ rec.kind = "fiber" =>
                /\ rec.frames = heap[x].frames /\ rec.openUpvalues = heap[x].openUpvalues
                /\ rec.caller = heap[x].caller /\ rec.root = heap[x].root
                /\ rec.frames # <<>> => rec.stack # <<>>
                /\ \A u \in rec.openUpvalues : heap[u].slot \in DOMAIN rec.stack
  PROVE  LET g == Put(heap, x, rec)
         IN /\ Good(g, next, fiber) /\ DOMAIN g = Allocated
            /\ \A o \in Allocated : g[o] = IF o = x THEN rec ELSE heap[o]
            /\ \A o \in Allocated : /\ g[o].kind = heap[o].kind
                                    /\ heap[o].kind = "fiber" =>
                                         /\ g[o].frames = heap[o].frames
                                         /\ g[o].caller = heap[o].caller
                                         /\ g[o].root = heap[o].root
<1> DEFINE g == Put(heap, x, rec)
<1>1. DOMAIN g = Allocated /\ \A o \in Allocated : g[o] = IF o = x THEN rec ELSE heap[o]
  BY DEF Put, Allocated
<1>2. CASE x \in Allocated /\ rec # heap[x]
  <2>1. Good(g, next, fiber)
    BY <1>2, WrittenGood DEF Allocated
  <2>. QED  BY <1>1, <1>2, <2>1
<1>3. CASE ~(x \in Allocated /\ rec # heap[x])
  <2>1. 1 \in DOMAIN heap /\ heap[1].kind = "module" /\ heap[1] \in Obj(Value(heap), Past(next))
    BY DEF Good, Sound, Typed, Has
  <2>2. Good(Put(heap, 1, heap[1]), next, fiber)
    BY <2>1, WrittenGood
  <2>3. g = Put(heap, 1, heap[1])
    BY <1>3 DEF Put, Allocated
  <2>. QED  BY <1>1, <1>3, <2>2, <2>3
<1>. QED
  BY <1>2, <1>3

\* A step that writes an object which is no fiber and no module.
LEMMA PutLives ==
  ASSUME FInv, Lives, native.code # <<>>, Proceed(Now.x, Local(Now.x)),
         Now.do \in {"superclass", "methods", "metaclass", "foreign", "constant", "capture"},
         next' = next, fiber' = fiber, modules' = modules, methodNames' = methodNames,
         handles' = handles, tempRoots' = tempRoots, compiler' = compiler, dark' = dark,
         NEW x, NEW rec, heap' = Put(heap, x, rec), x = Local(Now.x),
         x \in Allocated /\ heap[x].kind = "class" =>
           rec.class = (IF Now.do = "metaclass" THEN Local(Now.y) ELSE heap[x].class),
         x \in Allocated /\ rec # heap[x] =>
           /\ rec \in Obj(Value(heap), Past(next)) /\ rec.kind = heap[x].kind
           /\ rec.kind \notin {"upvalue", "fiber", "module"}
           /\ rec.kind = "closure" => \A u \in ToSet(rec.upvalues) : Has(heap, u, "upvalue")
  PROVE  Lives'
<1>1. PICK p \in States, r \in States : At(p, r)
  BY AtStep
<1>2. /\ Good(heap', next, fiber) /\ DOMAIN heap' = Allocated
      /\ \A o \in Allocated : heap'[o] = IF o = x THEN rec ELSE heap[o]
      /\ \A o \in Allocated : /\ heap'[o].kind = heap[o].kind
                              /\ heap[o].kind = "fiber" =>
                                   /\ heap'[o].frames = heap[o].frames
                                   /\ heap'[o].caller = heap[o].caller
                                   /\ heap'[o].root = heap[o].root
  BY PutGood DEF Lives
<1>3. Now.do \notin Makers \cup {"compiler", "endCompiler", "enter", "handle", "push", "rehandle",
        "top"}
  BY DEF Makers
<1>4. Grows
  BY <1>2, GrowsStill
<1>5. Anchors' = Anchors
  <2>1. Has(heap, fiber, "fiber") /\ Has(heap, 1, "module")
    BY DEF Lives, Good, Sound, Chained, Waits
  <2>2. heap'[fiber] = heap[fiber] /\ heap'[1] = heap[1]
    BY <1>2, <2>1 DEF Has, Allocated
  <2>. QED  BY <2>2 DEF Anchors
<1>6. compiler' # {} => r.source
  BY <1>1, <1>3, Compiles
<1>7. \A n \in r.kept : n \in p.kept
  BY <1>1, <1>3, KeptWell
<1>8. RootsMove /\ Now.do # "upvalue" /\ Now.do # "fiber"
  BY DEF RootsMove
<1>9. /\ Good(heap', next', fiber') /\ modules' \cup methodNames' \cup compiler'
           \subseteq Value(heap')
      /\ handles' \in Seq(Value(heap')) /\ 1 \in modules' /\ dark' = {}
  <2>1. Value(heap') = Value(heap)
    BY <1>2 DEF Value, Allocated
  <2>. QED  BY <1>2, <2>1 DEF Lives
<1>10. Shapes(x)
  BY <1>2 DEF Shapes
<1>. QED
  BY <1>1, <1>3, <1>4, <1>5, <1>6, <1>7, <1>8, <1>9, <1>10, Onward

\* What is known of a sequence with one more.
LEMMA InAppended ==
  ASSUME NEW V, NEW s \in Seq(V), NEW y \in V
  PROVE  /\ Append(s, y) \in Seq(V) /\ ToSet(Append(s, y)) = ToSet(s) \cup {y}
         /\ Append(s, y) # <<>> /\ Len(Append(s, y)) = Len(s) + 1
         /\ DOMAIN s \subseteq DOMAIN Append(s, y)
<1> DEFINE a == Append(s, y)
<1>1. /\ a \in Seq(V) /\ Len(a) = Len(s) + 1 /\ Len(s) \in Nat
      /\ \A i \in 1..Len(s) : a[i] = s[i] /\ a[Len(s) + 1] = y
  BY AppendProperties
<1>2. DOMAIN a = 1..Len(s) + 1 /\ DOMAIN s = 1..Len(s) /\ a[Len(s) + 1] = y
  BY <1>1, AppendProperties
<1> HIDE DEF a
<1>3. ToSet(a) = ToSet(s) \cup {y}
  <2>1. \A i \in 1..Len(s) + 1 : i \in 1..Len(s) \/ i = Len(s) + 1
    BY <1>1
  <2>2. \A i \in 1..Len(s) : i \in 1..Len(s) + 1
    BY <1>1
  <2>. QED  BY <1>1, <1>2, <2>1, <2>2 DEF ToSet
<1>4. a # <<>> /\ DOMAIN s \subseteq DOMAIN a
  BY <1>1, <1>2
<1>. QED
  BY <1>1, <1>3, <1>4 DEF a

\* An object is a record.
LEMMA KindsFunctions ==
  ASSUME NEW V, NEW P, NEW r \in Obj(V, P)
  PROVE  r = [f \in DOMAIN r |-> r[f]]
<1>1. /\ \A x \in ObjString : x = [f \in DOMAIN x |-> x[f]]
      /\ \A x \in ObjClass(V) : x = [f \in DOMAIN x |-> x[f]]
      /\ \A x \in ObjInstance(V) \cup ObjForeign(P) : x = [f \in DOMAIN x |-> x[f]]
      /\ \A x \in ObjList(V) \cup ObjMap(V) \cup ObjModule(V) : x = [f \in DOMAIN x |-> x[f]]
      /\ \A x \in ObjFn(V) \cup ObjClosure(V) : x = [f \in DOMAIN x |-> x[f]]
      /\ \A x \in ObjUpvalue(V, P) \cup ObjFiber(V) : x = [f \in DOMAIN x |-> x[f]]
  BY DEF ObjString, ObjClass, ObjInstance, ObjForeign, ObjList, ObjMap, ObjModule, ObjFn,
         ObjClosure, ObjUpvalue, ObjFiber
<1>. QED
  BY <1>1 DEF Obj

\* A new class gets what it inherits, a function a constant, and a closure its upvalue.
LEMMA WriteLives == FInv /\ Lives /\ Write => Lives'
<1> SUFFICES ASSUME FInv, Lives, Write PROVE Lives'
  OBVIOUS
<1> DEFINE x == Local(Now.x)
           y == Local(Now.y)
           V == Value(heap)
<1>1. /\ native.code # <<>> /\ Proceed(Now.x, x) /\ Usable(y)
      /\ next' = next /\ fiber' = fiber /\ modules' = modules /\ methodNames' = methodNames
      /\ handles' = handles /\ tempRoots' = tempRoots /\ compiler' = compiler /\ dark' = dark
  BY DEF Write, Continue, roots
<1>2. y \in V /\ None \in V
  BY <1>1 DEF Usable, Value, Allocated
<1>3. x \in Allocated => heap[x] \in Obj(V, Past(next))
  BY DEF Lives, Good, Sound, Typed, Allocated
<1>4. x \in Allocated /\ heap[x].kind = "class" => heap[x] \in ObjClass(V)
  BY <1>3, KindsApart
<1>5. PICK p \in States, r \in States : At(p, r)
  BY <1>1, AtStep
<1> HIDE DEF x, y
<1>6. CASE Doing("superclass") /\ heap' = [heap EXCEPT ![x].superclass = y]
  <2> DEFINE rec == [heap[x] EXCEPT !.superclass = y]
  <2>1. heap' = Put(heap, x, rec)
    BY <1>6 DEF Put
  <2>2. ASSUME x \in Allocated, rec # heap[x]
        PROVE  rec \in Obj(V, Past(next)) /\ rec.kind = heap[x].kind /\ rec.kind = "class"
    <3>1. heap[x].kind = "class"
      <4>1. heap[x] = [f \in DOMAIN heap[x] |-> heap[x][f]]
        BY <1>3, <2>2, KindsFunctions
      <4>2. "superclass" \in DOMAIN heap[x]
        BY <2>2, <4>1
      <4>. QED  BY <1>3, <2>2, <4>2, FieldsApart
    <3>2. heap[x] \in ObjClass(V)
      BY <1>3, <2>2, <3>1, KindsApart
    <3>3. rec \in ObjClass(V) /\ rec.kind = "class"
      BY <1>2, <3>2 DEF ObjClass
    <3>. QED  BY <3>1, <3>3 DEF Obj
  <2>3. x \in Allocated /\ heap[x].kind = "class" => rec.class = heap[x].class
    BY <1>4 DEF ObjClass
  <2> HIDE DEF rec
  <2>. QED  BY <1>1, <1>6, <2>1, <2>2, <2>3, PutLives DEF Doing, x, y
<1>7. CASE Doing("methods") /\ heap' = [heap EXCEPT ![x].methods =
                            @ \cup IF y = None THEN {} ELSE heap[y].methods]
  <2> DEFINE more == IF y = None THEN {} ELSE heap[y].methods
             rec == [heap[x] EXCEPT !.methods = @ \cup more]
  <2>1. heap' = Put(heap, x, rec)
    BY <1>7 DEF Put
  <2>2. ASSUME x \in Allocated, rec # heap[x]
        PROVE  rec \in Obj(V, Past(next)) /\ rec.kind = heap[x].kind /\ rec.kind = "class"
    <3>1. heap[x].kind = "class"
      <4>1. heap[x] = [f \in DOMAIN heap[x] |-> heap[x][f]]
        BY <1>3, <2>2, KindsFunctions
      <4>2. "methods" \in DOMAIN heap[x]
        BY <2>2, <4>1
      <4>. QED  BY <1>3, <2>2, <4>2, FieldsApart
    <3>2. heap[x] \in ObjClass(V)
      BY <1>3, <2>2, <3>1, KindsApart
    <3>3. more \subseteq V
      <4>1. Now.y \in NeverMade
        BY <1>5, <1>7 DEF At, Follows, Employs, Doing
      <4>2. y \in Allocated => heap[y].kind = "class"
        BY <1>5, <4>1, Named DEF y
      <4>3. y \in Allocated => heap[y] \in Obj(V, Past(next))
        BY DEF Lives, Good, Sound, Typed, Allocated
      <4>4. y \in Allocated => heap[y] \in ObjClass(V)
        BY <4>2, <4>3, KindsApart
      <4>5. y \in Allocated => heap[y].methods \subseteq V
        BY <4>4 DEF ObjClass
      <4>. QED  BY <1>1, <4>5 DEF Usable
    <3> HIDE DEF more
    <3>4. rec \in ObjClass(V) /\ rec.kind = "class"
      BY <3>2, <3>3 DEF ObjClass
    <3>. QED  BY <3>1, <3>4 DEF Obj
  <2>3. x \in Allocated /\ heap[x].kind = "class" => rec.class = heap[x].class
    <3> HIDE DEF more
    <3>. QED  BY <1>4 DEF ObjClass
  <2> HIDE DEF rec
  <2>. QED  BY <1>1, <1>7, <2>1, <2>2, <2>3, PutLives DEF Doing, x, y
<1>8. CASE Doing("metaclass") /\ heap' = [heap EXCEPT ![x].class = y]
  <2> DEFINE rec == [heap[x] EXCEPT !.class = y]
  <2>1. heap' = Put(heap, x, rec)
    BY <1>8 DEF Put
  <2>2. ASSUME x \in Allocated, rec # heap[x]
        PROVE  /\ rec \in Obj(V, Past(next)) /\ rec.kind = heap[x].kind
               /\ rec.kind \in {"class", "instance", "foreign"}
    <3>1. heap[x].kind \in {"class", "instance", "foreign"}
      <4>1. heap[x] = [f \in DOMAIN heap[x] |-> heap[x][f]]
        BY <1>3, <2>2, KindsFunctions
      <4>2. "class" \in DOMAIN heap[x]
        BY <2>2, <4>1
      <4>. QED  BY <1>3, <2>2, <4>2, FieldsApart
    <3>2. CASE heap[x].kind = "class"
      <4>1. heap[x] \in ObjClass(V)
        BY <1>3, <2>2, <3>2, KindsApart
      <4>2. rec \in ObjClass(V) /\ rec.kind = "class"
        BY <1>2, <4>1 DEF ObjClass
      <4>. QED  BY <3>2, <4>2 DEF Obj
    <3>3. CASE heap[x].kind = "instance"
      <4>1. heap[x] \in ObjInstance(V)
        BY <1>3, <2>2, <3>3, KindsApart
      <4>2. rec \in ObjInstance(V) /\ rec.kind = "instance"
        BY <1>2, <4>1 DEF ObjInstance
      <4>. QED  BY <3>3, <4>2 DEF Obj
    <3>4. CASE heap[x].kind = "foreign"
      <4>1. heap[x] \in ObjForeign(Past(next))
        BY <1>3, <2>2, <3>4, KindsApart
      <4>2. V \subseteq Past(next)
        BY DEF Lives, Good, Sound, Ranged, Value, Past
      <4>3. rec \in ObjForeign(Past(next)) /\ rec.kind = "foreign"
        BY <1>2, <4>1, <4>2 DEF ObjForeign
      <4>. QED  BY <3>4, <4>3 DEF Obj
    <3>. QED  BY <3>1, <3>2, <3>3, <3>4
  <2>3. x \in Allocated /\ heap[x].kind = "class" => rec.class = y
    BY <1>4 DEF ObjClass
  <2> HIDE DEF rec
  <2>. QED  BY <1>1, <1>8, <2>1, <2>2, <2>3, PutLives DEF Doing, x, y
<1>9. CASE Doing("foreign") /\ heap' = [heap EXCEPT ![x].foreign = TRUE]
  <2> DEFINE rec == [heap[x] EXCEPT !.foreign = TRUE]
  <2>1. heap' = Put(heap, x, rec)
    BY <1>9 DEF Put
  <2>2. ASSUME x \in Allocated, rec # heap[x]
        PROVE  rec \in Obj(V, Past(next)) /\ rec.kind = heap[x].kind /\ rec.kind = "class"
    <3>1. heap[x].kind = "class"
      <4>1. heap[x] = [f \in DOMAIN heap[x] |-> heap[x][f]]
        BY <1>3, <2>2, KindsFunctions
      <4>2. "foreign" \in DOMAIN heap[x]
        BY <2>2, <4>1
      <4>. QED  BY <1>3, <2>2, <4>2, FieldsApart
    <3>2. heap[x] \in ObjClass(V)
      BY <1>3, <2>2, <3>1, KindsApart
    <3>3. rec \in ObjClass(V) /\ rec.kind = "class"
      BY <3>2 DEF ObjClass
    <3>. QED  BY <3>1, <3>3 DEF Obj
  <2>3. x \in Allocated /\ heap[x].kind = "class" => rec.class = heap[x].class
    BY <1>4 DEF ObjClass
  <2> HIDE DEF rec
  <2>. QED  BY <1>1, <1>9, <2>1, <2>2, <2>3, PutLives DEF Doing, x, y
<1>10. CASE Doing("constant") /\ heap' = [heap EXCEPT ![x].constants = @ \cup {y}]
  <2> DEFINE rec == [heap[x] EXCEPT !.constants = @ \cup {y}]
  <2>1. heap' = Put(heap, x, rec)
    BY <1>10 DEF Put
  <2>2. ASSUME x \in Allocated, rec # heap[x]
        PROVE  rec \in Obj(V, Past(next)) /\ rec.kind = heap[x].kind /\ rec.kind = "fn"
    <3>1. heap[x].kind = "fn"
      <4>1. heap[x] = [f \in DOMAIN heap[x] |-> heap[x][f]]
        BY <1>3, <2>2, KindsFunctions
      <4>2. "constants" \in DOMAIN heap[x]
        BY <2>2, <4>1
      <4>. QED  BY <1>3, <2>2, <4>2, FieldsApart
    <3>2. heap[x] \in ObjFn(V)
      BY <1>3, <2>2, <3>1, KindsApart
    <3>3. rec \in ObjFn(V) /\ rec.kind = "fn"
      BY <1>2, <3>2 DEF ObjFn
    <3>. QED  BY <3>1, <3>3 DEF Obj
  <2>3. x \in Allocated /\ heap[x].kind = "class" => rec.class = heap[x].class
    BY <1>4 DEF ObjClass
  <2> HIDE DEF rec
  <2>. QED  BY <1>1, <1>10, <2>1, <2>2, <2>3, PutLives DEF Doing, x, y
<1>11. CASE Doing("capture") /\ heap' = [heap EXCEPT ![x].upvalues = Append(@, y)]
  <2> DEFINE rec == [heap[x] EXCEPT !.upvalues = Append(@, y)]
  <2>1. heap' = Put(heap, x, rec)
    BY <1>11 DEF Put
  <2>2. ASSUME x \in Allocated, rec # heap[x]
        PROVE  /\ rec \in Obj(V, Past(next)) /\ rec.kind = heap[x].kind /\ rec.kind = "closure"
               /\ \A u \in ToSet(rec.upvalues) : Has(heap, u, "upvalue")
    <3>1. heap[x].kind = "closure"
      <4>1. heap[x] = [f \in DOMAIN heap[x] |-> heap[x][f]]
        BY <1>3, <2>2, KindsFunctions
      <4>2. "upvalues" \in DOMAIN heap[x]
        BY <2>2, <4>1
      <4>. QED  BY <1>3, <2>2, <4>2, FieldsApart
    <3>2. heap[x] \in ObjClosure(V)
      BY <1>3, <2>2, <3>1, KindsApart
    <3>3. rec \in ObjClosure(V) /\ rec.kind = "closure"
          /\ rec.upvalues = Append(heap[x].upvalues, y) /\ heap[x].upvalues \in Seq(V)
      <4>1. PICK f \in V, s \in Seq(V) : heap[x] = [kind |-> "closure", fn |-> f, upvalues |-> s]
        BY <3>2 DEF ObjClosure
      <4>2. Append(s, y) \in Seq(V)
        BY <1>2, AppendProperties
      <4>3. rec = [kind |-> "closure", fn |-> f, upvalues |-> Append(s, y)]
        BY SMTT(30), <4>1
      <4>. QED  BY <4>1, <4>2, <4>3 DEF ObjClosure
    <3>4. Has(heap, y, "upvalue")
      <4>1. Now.y = "upvalue" /\ "upvalue" \in p.bare
        BY <1>5, <1>11 DEF At, Follows, Employs, Doing
      <4>2. Now.y \in Names(native.code)
        BY <1>5 DEF At
      <4>. QED  BY <1>5, <4>1, <4>2 DEF At, Stands, y
    <3>5. \A u \in ToSet(heap[x].upvalues) : Has(heap, u, "upvalue")
      BY <2>2, <3>1 DEF Lives, Good, Sound, Captures, Allocated
    <3>6. ToSet(rec.upvalues) \subseteq ToSet(heap[x].upvalues) \cup {y}
      BY <1>2, <3>3, InAppended
    <3>. QED  BY <3>1, <3>3, <3>4, <3>5, <3>6 DEF Obj
  <2>3. x \in Allocated /\ heap[x].kind = "class" => rec.class = heap[x].class
    BY <1>4 DEF ObjClass
  <2> HIDE DEF rec
  <2>. QED  BY <1>1, <1>11, <2>1, <2>2, <2>3, PutLives DEF Doing, x, y
<1>. QED
  BY <1>6, <1>7, <1>8, <1>9, <1>10, <1>11 DEF Write, x, y

\* A sequence without its last element, if it has one.
LEMMA InFront ==
  ASSUME NEW V, NEW s \in Seq(V)
  PROVE  /\ Front(s) \in Seq(V) /\ ToSet(Front(s)) \subseteq ToSet(s)
         /\ s # <<>> => /\ Len(Front(s)) = Len(s) - 1 /\ Last(s) \in V /\ Last(s) \in ToSet(s)
                        /\ \A i \in DOMAIN s : i \in DOMAIN Front(s) \/ i = Len(s)
                        /\ Last(s) = s[Len(s)]
                        /\ \A i \in DOMAIN Front(s) : i \in DOMAIN s /\ Front(s)[i] = s[i]
                             /\ i # Len(s)
<1>0. Len(s) \in Nat /\ Front(s) = SubSeq(s, 1, Len(s) - 1)
  BY DEF Front
<1>1. CASE s = <<>>
  <2>1. Front(s) = <<>>
    BY <1>1 DEF Front
  <2>. QED  BY <1>1, <2>1 DEF ToSet
<1>2. CASE s # <<>>
  <2>1. 1 \in 1..Len(s) + 1 /\ Len(s) - 1 \in 0..Len(s) /\ Len(s) >= 1
    BY <1>0, <1>2
  <2>2. /\ Front(s) \in Seq(V) /\ Len(Front(s)) = Len(s) - 1
        /\ \A i \in 1..Len(s) - 1 : Front(s)[i] = s[i]
    <3>1. Len(s) - 1 - 1 + 1 = Len(s) - 1
      BY <1>0
    <3>2. \A i \in 1..Len(s) - 1 : 1 + i - 1 = i /\ i \in Nat
      BY <1>0
    <3>. QED  BY <1>0, <2>1, <3>1, <3>2, SubSeqProperties
  <2>3. DOMAIN Front(s) = 1..Len(s) - 1 /\ DOMAIN s = 1..Len(s)
    BY <2>1, <2>2
  <2>4. Len(s) \in DOMAIN s /\ Last(s) = s[Len(s)]
    BY <2>1, <2>3 DEF Last
  <2>5. ToSet(Front(s)) \subseteq ToSet(s)
    BY <2>1, <2>2, <2>3 DEF ToSet
  <2>6. /\ \A i \in DOMAIN s : i \in DOMAIN Front(s) \/ i = Len(s)
        /\ \A i \in DOMAIN Front(s) : i \in DOMAIN s /\ Front(s)[i] = s[i] /\ i # Len(s)
    BY <2>1, <2>2, <2>3
  <2>. QED  BY <1>2, <2>2, <2>4, <2>5, <2>6 DEF ToSet
<1>. QED
  BY <1>1, <1>2

\* The machine is told of a new object, but for a fiber.
LEMMA ToldLives ==
  ASSUME FInv, Lives, Publish, ~Doing("enter")
  PROVE  Lives'
<1> DEFINE x == Local(Now.x)
           V == Value(heap)
<1>1. /\ native.code # <<>> /\ Proceed(Now.x, x) /\ Usable(x)
      /\ next' = next /\ fiber' = fiber /\ heap' = heap /\ tempRoots' = tempRoots /\ dark' = dark
      /\ Now.do # "enter"
  BY DEF Publish, Continue, Doing
<1>2. x \in V /\ V = V'
  BY <1>1 DEF Usable, Value, Allocated
<1>3. /\ \/ Now.do = "register" /\ modules' = modules \cup {x}
         \/ Now.do # "register" /\ modules' = modules
      /\ \/ Now.do = "symbol" /\ methodNames' = methodNames \cup {x}
         \/ Now.do # "symbol" /\ methodNames' = methodNames
      /\ \/ Now.do = "handle" /\ handles' = Append(handles, x)
         \/ Now.do = "rehandle" /\ handles' = Append(Front(handles), x)
         \/ Now.do \notin {"handle", "rehandle"} /\ handles' = handles
      /\ \/ Now.do = "compiler" /\ compiler' = compiler \cup {x}
         \/ Now.do = "endCompiler" /\ compiler' = {}
         \/ Now.do \notin {"compiler", "endCompiler"} /\ compiler' = compiler
      /\ Now.do \in {"register", "symbol", "handle", "rehandle", "compiler", "endCompiler"}
  BY <1>1 DEF Publish, Doing
<1>4. PICK p \in States, r \in States : At(p, r)
  BY <1>1, AtStep
<1>5. Now.do \notin Makers \cup {"root", "unroot", "push", "top", "fiber", "upvalue"}
  BY <1>3 DEF Makers
<1>6. handles \in Seq(V) /\ modules \cup methodNames \cup compiler \subseteq V
  BY DEF Lives
<1>7. /\ handles' \in Seq(V)
      /\ Now.do # "rehandle" => ToSet(handles) \subseteq ToSet(handles')
      /\ Now.do \in {"handle", "rehandle"} => x \in ToSet(handles')
  <2>1. Append(handles, x) \in Seq(V) /\ ToSet(Append(handles, x)) = ToSet(handles) \cup {x}
    BY <1>2, <1>6, InAppended
  <2>2. Append(Front(handles), x) \in Seq(V) /\ x \in ToSet(Append(Front(handles), x))
    <3>1. Front(handles) \in Seq(V)
      BY <1>6, InFront
    <3>. QED  BY <1>2, <3>1, InAppended
  <2>. QED  BY <1>3, <1>6, <2>1, <2>2
<1>8. modules' \cup methodNames' \cup compiler' \subseteq V /\ 1 \in modules'
  BY <1>2, <1>3, <1>6 DEF Lives
<1>9. Grows
  BY <1>1, GrowsStill DEF Allocated
<1>10. compiler' # {} => r.source
  BY <1>3, <1>4, Compiles
<1>11. RootsMove
  BY <1>1, <1>5 DEF RootsMove
<1>12. Now.do \notin {"rehandle", "endCompiler"} => Anchors \subseteq Anchors'
  BY <1>1, <1>3, <1>7 DEF Anchors
<1>13. Now.do \in {"handle", "rehandle", "compiler"} => x \in Anchors'
  BY <1>1, <1>3, <1>7 DEF Anchors
<1>14. ASSUME NEW n \in r.kept
       PROVE  \/ n \in p.kept /\ (Local(n) \in Anchors => Local(n) \in Anchors')
              \/ n = Now.x /\ Local(n) \in Anchors'
  <2>1. /\ n \in p.kept \/ (n = Now.x /\ Now.do \in {"compiler", "handle", "push", "rehandle",
             "top"})
        /\ Now.do = "rehandle" => n = Now.x
        /\ Now.do # "endCompiler"
    BY <1>4, KeptWell
  <2>. QED  BY <1>5, <1>12, <1>13, <2>1
<1>15. Good(heap', next', fiber') /\ dark' = {} /\ handles' \in Seq(Value(heap'))
       /\ modules' \cup methodNames' \cup compiler' \subseteq Value(heap')
  BY <1>1, <1>7, <1>8 DEF Lives
<1>16. Shapes(x)
  BY <1>1, <1>3 DEF Shapes
<1>. QED
  BY <1>1, <1>4, <1>5, <1>8, <1>9, <1>10, <1>11, <1>14, <1>15, <1>16, Onward

\* The fiber of a new source is entered.
LEMMA EnterLives ==
  ASSUME FInv, Lives, Publish, Doing("enter")
  PROVE  Lives'
<1> DEFINE x == Local(Now.x)
<1>1. /\ native.code # <<>> /\ Proceed(Now.x, x) /\ Now.do = "enter"
      /\ next' = next /\ fiber' = x /\ heap' = [heap EXCEPT ![x].root = TRUE]
      /\ modules' = modules /\ methodNames' = methodNames /\ handles' = handles
      /\ tempRoots' = tempRoots /\ compiler' = compiler /\ dark' = dark
  BY DEF Publish, Continue, Doing
<1>2. PICK p \in States, r \in States : At(p, r)
  BY <1>1, AtStep
<1>3. Fresh(heap, x)
  <2>1. Now.x = "fiber" /\ "fiber" \in p.bare
    BY <1>1, <1>2 DEF At, Follows, Employs
  <2>2. Now.x \in Names(native.code)
    BY <1>2 DEF At
  <2>. QED  BY <1>2, <2>1, <2>2 DEF At, Stands
<1> HIDE DEF x
<1>4. heap' = Put(heap, x, [heap[x] EXCEPT !.root = TRUE])
  BY <1>1 DEF Put
<1>5. Good(heap', next', fiber')
  <2>1. Good(heap, next, fiber) /\ Has(heap, x, "fiber") /\ heap[x].caller = None
        /\ ~heap[x].root /\ heap[x].frames # <<>>
    BY <1>3 DEF Lives, Fresh
  <2>2. Good(Put(heap, x, [heap[x] EXCEPT !.root = TRUE]), next, x)
    BY <2>1, Entered
  <2>. QED  BY <1>1, <1>4, <2>2
<1>6. heap[x] \in ObjFiber(Value(heap))
  <2>1. x \in Allocated /\ heap[x].kind = "fiber"
    BY <1>3 DEF Fresh, Has, Allocated
  <2>. QED  BY <2>1, Made DEF Lives, Good, Sound, Allocated
<1>7. /\ DOMAIN heap' = Allocated
      /\ \A o \in Allocated : o # x => heap'[o] = heap[o]
      /\ heap'[x].kind = heap[x].kind /\ heap'[x].frames = heap[x].frames
      /\ heap'[x].caller = heap[x].caller
  BY <1>3, <1>4, <1>6 DEF Put, Fresh, Has, Allocated, ObjFiber
<1>8. Grows
  <2>1. \A o \in Allocated : heap'[o].kind = heap[o].kind
    BY <1>7
  <2>2. \A o \in Allocated : heap[o].kind = "fiber" =>
          heap'[o].frames = heap[o].frames /\ heap'[o].caller = heap[o].caller
    BY <1>7
  <2>. QED  BY <1>1, <1>7, <2>1, <2>2, GrowsStill
<1>9. compiler' # {} => r.source
  BY <1>1, <1>2, Compiles
<1>10. r.kept = {}
  BY <1>1, <1>2, KeptWell
<1>11. RootsMove /\ Now.do \notin Makers
  BY <1>1 DEF RootsMove, Makers
<1>12. /\ modules' \cup methodNames' \cup compiler' \subseteq Value(heap')
       /\ handles' \in Seq(Value(heap')) /\ 1 \in modules' /\ dark' = {}
  <2>1. Value(heap') = Value(heap)
    BY <1>7 DEF Value, Allocated
  <2>. QED  BY <1>1, <2>1 DEF Lives
<1>13. Shapes(x)
  BY <1>1, <1>3, <1>7 DEF Shapes, Fresh, Has
<1>. QED
  BY <1>1, <1>2, <1>5, <1>8, <1>9, <1>10, <1>11, <1>12, <1>13, Onward DEF x

\* What is known of the stack of the running fiber.
LEMMA Running ==
  ASSUME Good(heap, next, fiber)
  PROVE  /\ fiber \in Allocated /\ heap[fiber].kind = "fiber" /\ fiber # 1
         /\ heap[fiber] \in ObjFiber(Value(heap)) /\ heap[fiber].frames # <<>>
         /\ Stack \in Seq(Value(heap)) /\ Stack # <<>>
         /\ \A u \in heap[fiber].openUpvalues :
              Has(heap, u, "upvalue") /\ heap[u].fiber = fiber /\ heap[u].slot \in DOMAIN Stack
<1>1. fiber \in DOMAIN heap /\ heap[fiber].kind = "fiber" /\ heap[fiber].frames # <<>>
  BY DEF Good, Chained, Waits, Has
<1>2. Has(heap, 1, "module")
  BY DEF Good, Sound
<1>3. heap[fiber] \in ObjFiber(Value(heap)) /\ Stack \in Seq(Value(heap))
  BY <1>1, Made DEF Good, Sound, Stack
<1>4. Stack # <<>>
  BY <1>1 DEF Good, Sound, Stacked, Stack
<1>5. ASSUME NEW u \in heap[fiber].openUpvalues
      PROVE  Has(heap, u, "upvalue") /\ heap[u].fiber = fiber /\ heap[u].slot \in DOMAIN Stack
  <2>1. Has(heap, u, "upvalue") /\ heap[u].fiber = fiber
    BY <1>1 DEF Good, Sound, Opened
  <2>. QED  BY <1>1, <2>1 DEF Good, Sound, Opened, Has, Stack
<1>. QED
  BY <1>1, <1>2, <1>3, <1>4, <1>5 DEF Has, Allocated

\* The stack of the running fiber is written.
LEMMA StackGood ==
  ASSUME Good(heap, next, fiber), NEW s \in Seq(Value(heap)), s # <<>>,
         \A u \in heap[fiber].openUpvalues : heap[u].slot \in DOMAIN s,
         heap' = [heap EXCEPT ![fiber].stack = s]
  PROVE  /\ Good(heap', next, fiber) /\ DOMAIN heap' = Allocated
         /\ heap'[fiber] = [heap[fiber] EXCEPT !.stack = s] /\ heap'[fiber].stack = s
         /\ \A o \in Allocated : o # fiber => heap'[o] = heap[o]
         /\ \A o \in Allocated : /\ heap'[o].kind = heap[o].kind
                                 /\ heap[o].kind = "fiber" =>
                                      /\ heap'[o].frames = heap[o].frames
                                      /\ heap'[o].caller = heap[o].caller
                                      /\ heap'[o].root = heap[o].root
<1> DEFINE rec == [heap[fiber] EXCEPT !.stack = s]
<1>1. heap' = Put(heap, fiber, rec)
  BY DEF Put
<1>2. /\ rec \in ObjFiber(Value(heap)) /\ rec.kind = "fiber" /\ rec.stack = s
      /\ rec.frames = heap[fiber].frames /\ rec.openUpvalues = heap[fiber].openUpvalues
      /\ rec.caller = heap[fiber].caller /\ rec.root = heap[fiber].root
  BY Running DEF ObjFiber
<1>3. rec \in Obj(Value(heap), Past(next)) /\ fiber \in Allocated /\ heap[fiber].kind = "fiber"
  BY <1>2, Running DEF Obj
<1> HIDE DEF rec
<1>4. LET g == Put(heap, fiber, rec)
      IN /\ Good(g, next, fiber) /\ DOMAIN g = Allocated
         /\ \A o \in Allocated : g[o] = IF o = fiber THEN rec ELSE heap[o]
         /\ \A o \in Allocated : /\ g[o].kind = heap[o].kind
                                 /\ heap[o].kind = "fiber" =>
                                      /\ g[o].frames = heap[o].frames
                                      /\ g[o].caller = heap[o].caller
                                      /\ g[o].root = heap[o].root
  BY <1>2, <1>3, PutGood
<1>. QED
  BY <1>1, <1>2, <1>3, <1>4 DEF rec

\* A value is pushed, or put in the place of the one on top.
LEMMA PushLives == FInv /\ Lives /\ Push => Lives'
<1> SUFFICES ASSUME FInv, Lives, Push PROVE Lives'
  OBVIOUS
<1> DEFINE v == Local(Now.x)
           V == Value(heap)
<1>1. /\ native.code # <<>> /\ Proceed(Now.x, v)
      /\ next' = next /\ fiber' = fiber /\ modules' = modules /\ methodNames' = methodNames
      /\ handles' = handles /\ tempRoots' = tempRoots /\ compiler' = compiler /\ dark' = dark
  BY DEF Push, Continue, roots
<1>2. PICK s : /\ heap' = [heap EXCEPT ![fiber].stack = s]
               /\ \/ Now.do = "push" /\ s = Append(Stack, v)
                  \/ Now.do = "top" /\ s = Append(Front(Stack), v)
  BY DEF Push, Doing, Stack
<1>3. PICK p \in States, r \in States : At(p, r)
  BY <1>1, AtStep
<1>4. v \in V
  <2>1. Now.x \notin Unrooted
    BY <1>2, <1>3 DEF At, Follows, Employs
  <2>. QED  BY <1>3, <2>1, Named
<1>5. /\ Stack \in Seq(V) /\ Stack # <<>> /\ fiber # 1 /\ fiber \in Allocated
      /\ heap[fiber].kind = "fiber"
      /\ \A u \in heap[fiber].openUpvalues : heap[u].slot \in DOMAIN Stack
  BY Running DEF Lives
<1> HIDE DEF v
<1>6. /\ s \in Seq(V) /\ s # <<>> /\ DOMAIN Stack \subseteq DOMAIN s /\ v \in ToSet(s)
      /\ Now.do = "push" => ToSet(Stack) \subseteq ToSet(s)
  <2>1. CASE s = Append(Stack, v)
    BY <1>4, <1>5, <2>1, InAppended
  <2>2. CASE Now.do = "top" /\ s = Append(Front(Stack), v)
    <3>1. Front(Stack) \in Seq(V) /\ Len(Front(Stack)) = Len(Stack) - 1
      BY <1>5, InFront
    <3>2. /\ s \in Seq(V) /\ s # <<>> /\ v \in ToSet(s)
          /\ Len(s) = Len(Front(Stack)) + 1
      BY <1>4, <2>2, <3>1, InAppended
    <3>3. Len(s) = Len(Stack) /\ DOMAIN s = 1..Len(s) /\ DOMAIN Stack = 1..Len(Stack)
      BY <1>5, <3>1, <3>2
    <3>. QED  BY <2>2, <3>2, <3>3
  <2>. QED  BY <1>2, <2>1, <2>2
<1>7. /\ Good(heap', next, fiber) /\ DOMAIN heap' = Allocated /\ heap'[fiber].stack = s
      /\ \A o \in Allocated : o # fiber => heap'[o] = heap[o]
      /\ \A o \in Allocated : /\ heap'[o].kind = heap[o].kind
                              /\ heap[o].kind = "fiber" =>
                                   /\ heap'[o].frames = heap[o].frames
                                   /\ heap'[o].caller = heap[o].caller
                                   /\ heap'[o].root = heap[o].root
  BY <1>2, <1>5, <1>6, StackGood DEF Lives
<1>8. Grows
  BY <1>1, <1>7, GrowsStill
<1>9. Now.do \notin Makers \cup {"compiler", "endCompiler", "enter", "handle", "rehandle"}
  BY <1>2 DEF Makers
<1>10. RootsMove
  BY <1>1, <1>2 DEF RootsMove
<1>11. compiler' # {} => r.source
  BY <1>1, <1>3, <1>9, Compiles
<1>12. v \in Anchors' /\ (Now.do = "push" => Anchors \subseteq Anchors')
  <2>1. heap'[1] = heap[1]
    BY <1>5, <1>7 DEF Lives, Good, Sound, Has, Allocated
  <2>. QED  BY <1>1, <1>6, <1>7, <2>1 DEF Anchors, Stack
<1>13. ASSUME NEW n \in r.kept
       PROVE  \/ n \in p.kept /\ (Local(n) \in Anchors => Local(n) \in Anchors')
              \/ n = Now.x /\ Local(n) \in Anchors'
  <2>1. n \in p.kept \/ (n = Now.x /\ Now.do \in {"compiler", "handle", "push", "rehandle", "top"})
    BY <1>3, KeptWell
  <2>2. Now.do = "top" => n = Now.x
    BY <1>3, KeptWell
  <2>. QED  BY <1>2, <1>12, <2>1, <2>2 DEF v
<1>14. /\ Good(heap', next', fiber') /\ dark' = {} /\ handles' \in Seq(Value(heap'))
       /\ modules' \cup methodNames' \cup compiler' \subseteq Value(heap') /\ 1 \in modules'
  <2>1. Value(heap') = V
    BY <1>7 DEF Value, Allocated
  <2>. QED  BY <1>1, <1>7, <2>1 DEF Lives
<1>15. Now.do # "upvalue" /\ Now.do # "fiber"
  BY <1>2
<1>16. Shapes(v)
  BY <1>2, <1>5, <1>7 DEF Shapes
<1>. QED
  BY <1>1, <1>3, <1>8, <1>9, <1>10, <1>11, <1>13, <1>14, <1>15, <1>16, Onward DEF v

\* An upvalue is found among the open ones, or it is allocated.
LEMMA CaptureUpvalueLives == FInv /\ Lives /\ CaptureUpvalue => Lives'
<1> SUFFICES ASSUME FInv, Lives, CaptureUpvalue PROVE Lives'
  OBVIOUS
<1>1. /\ native.code # <<>> /\ Now.do = "upvalue"
      /\ fiber' = fiber /\ modules' = modules /\ methodNames' = methodNames
      /\ handles' = handles /\ tempRoots' = tempRoots /\ compiler' = compiler /\ dark' = dark
  BY DEF CaptureUpvalue, Doing, roots
<1>2. PICK p \in States, r \in States : At(p, r)
  BY <1>1, AtStep
<1>3. PICK i \in 1..Len(Stack) - 1 :
        \/ /\ \E u \in Opens(i) : Proceed(Now.x, u)
           /\ heap' = heap /\ next' = next
        \/ /\ next <= MaxObjects
           /\ heap' = [With(NewUpvalue(fiber, i)) EXCEPT ![fiber].openUpvalues = @ \cup {next}]
           /\ next' = next + 1
           /\ Proceed(Now.x, next)
  BY DEF CaptureUpvalue
<1>4. /\ Good(heap, next, fiber) /\ fiber \in Allocated /\ fiber # 1 /\ i \in DOMAIN Stack
      /\ heap[fiber].kind = "fiber" /\ heap[fiber] \in ObjFiber(Value(heap))
  <2>1. Stack \in Seq(Value(heap)) /\ Good(heap, next, fiber)
    BY Running DEF Lives
  <2>2. i \in DOMAIN Stack
    BY <2>1
  <2>. QED  BY <2>1, <2>2, Running
<1>5. /\ RootsMove /\ Now.do \in Makers
      /\ \A n \in r.kept : n \in p.kept /\ n # Now.x
      /\ compiler' # {} => r.source
  <2>1. Now.do \in Makers /\ RootsMove
    BY <1>1 DEF RootsMove, Makers
  <2>2. compiler' # {} => r.source
    BY <1>1, <1>2, Compiles
  <2>. QED  BY <1>2, <2>1, <2>2, KeptWell
<1>6. CASE /\ \E u \in Opens(i) : Proceed(Now.x, u)
           /\ heap' = heap /\ next' = next
  <2>1. PICK u \in Opens(i) : Proceed(Now.x, u)
    BY <1>6
  <2>2. Has(heap', u, "upvalue") /\ u \in Value(heap')
    BY <1>4, <1>6, Running DEF Opens, Has, Value
  <2>3. Grows
    BY <1>6, GrowsStill DEF Allocated
  <2>4. Anchors' = Anchors
    BY <1>1, <1>6 DEF Anchors
  <2>5. /\ Good(heap', next', fiber') /\ dark' = {} /\ handles' \in Seq(Value(heap'))
        /\ modules' \cup methodNames' \cup compiler' \subseteq Value(heap') /\ 1 \in modules'
    BY <1>1, <1>6 DEF Lives
  <2>6. Shapes(u)
    BY <1>1, <1>6 DEF Shapes
  <2>. QED  BY <1>1, <1>2, <1>5, <2>1, <2>2, <2>3, <2>4, <2>5, <2>6, Onward
<1>7. CASE /\ next <= MaxObjects
           /\ heap' = [With(NewUpvalue(fiber, i)) EXCEPT ![fiber].openUpvalues = @ \cup {next}]
           /\ next' = next + 1
           /\ Proceed(Now.x, next)
  <2> DEFINE w == Plus(heap, next, NewUpvalue(fiber, i))
             rec == [w[fiber] EXCEPT !.openUpvalues = @ \cup {next}]
             g == Put(w, fiber, rec)
  <2>1. next # None /\ next \notin Allocated
    BY <1>4, <1>7, NextNew
  <2>2. heap' = g
    <3>1. With(NewUpvalue(fiber, i)) = w
      BY DEF With, Plus, Allocated
    <3> HIDE DEF w
    <3>. QED  BY <1>7, <3>1 DEF Put
  <2>3. /\ Good(g, next + 1, fiber) /\ Value(g) = Value(heap) \cup {next}
        /\ Has(g, next, "upvalue")
        /\ \A o \in DOMAIN heap : o # fiber => g[o] = heap[o]
        /\ g[fiber].stack = heap[fiber].stack /\ g[fiber].kind = "fiber"
    <3>1. Good(heap, next, fiber) /\ next # None /\ i \in DOMAIN heap[fiber].stack
      BY <1>4, <2>1 DEF Stack
    <3>2. g = OpenedIn(heap, next, fiber, i)
      BY DEF OpenedIn
    <3> HIDE DEF w, rec, g
    <3>. QED  BY <3>1, <3>2, OpenedUp
  <2>4. w[fiber] = heap[fiber] /\ DOMAIN w = Allocated \cup {next}
    BY <1>4, <2>1 DEF Plus, Allocated
  <2>5. DOMAIN g = Allocated \cup {next} /\ g[fiber] = rec
    <3> HIDE DEF w, rec
    <3>. QED  BY <1>4, <2>4 DEF Put
  <2>6. /\ rec.frames = heap[fiber].frames /\ rec.caller = heap[fiber].caller
        /\ rec.root = heap[fiber].root
    <3> HIDE DEF w
    <3>. QED  BY <1>4, <2>4 DEF ObjFiber
  <2> HIDE DEF g, rec
  <2>7. Grows
    <3>1. \A o \in Allocated : heap'[o].kind = heap[o].kind
      BY <1>4, <2>2, <2>3 DEF Allocated
    <3>2. \A o \in Allocated : heap[o].kind = "fiber" =>
            /\ heap'[o].frames = heap[o].frames /\ heap'[o].caller = heap[o].caller
            /\ heap'[o].root = heap[o].root
      BY <2>2, <2>3, <2>5, <2>6 DEF Allocated
    <3>. QED  BY <1>7, <2>2, <2>5, <3>1, <3>2, GrowsWith
  <2>8. Anchors' = Anchors
    <3>1. heap'[1] = heap[1] /\ heap'[fiber].stack = heap[fiber].stack
      BY <1>4, <2>2, <2>3 DEF Good, Sound, Has
    <3>. QED  BY <1>1, <3>1 DEF Anchors
  <2>9. Has(heap', next, "upvalue") /\ next \in Value(heap')
    BY <2>2, <2>3
  <2>10. /\ Good(heap', next', fiber') /\ dark' = {} /\ handles' \in Seq(Value(heap'))
         /\ modules' \cup methodNames' \cup compiler' \subseteq Value(heap') /\ 1 \in modules'
    <3>1. Good(heap', next', fiber')
      BY <1>1, <1>7, <2>2, <2>3
    <3>2. modules \cup methodNames \cup compiler \subseteq Value(heap) /\ 1 \in modules
          /\ handles \in Seq(Value(heap)) /\ dark = {}
      BY DEF Lives
    <3>3. Value(heap) \subseteq Value(heap')
      BY <2>2, <2>3
    <3> HIDE DEF w
    <3>4. handles \in Seq(Value(heap'))
      BY <3>2, <3>3
    <3>. QED  BY <1>1, <3>1, <3>2, <3>3, <3>4
  <2>11. Shapes(next)
    BY <1>1, <1>4, <2>2, <2>3 DEF Shapes, Allocated
  <2>. QED  BY <1>1, <1>2, <1>5, <1>7, <2>7, <2>8, <2>9, <2>10, <2>11, Onward
<1>. QED
  BY <1>3, <1>6, <1>7

\* Every step of a C function keeps the invariant.
LEMMA NativeLives == FInv /\ Lives /\ NativeStep => Lives'
  BY AllocateLives, QuietLives, WriteLives, ToldLives, EnterLives, PushLives, CaptureUpvalueLives
     DEF NativeStep

-----------------------------------------------------------------------------
(* When no C function is in progress.                                       *)

\* Nothing is named, rooted or compiled then.
LEMMA Calm ==
  ASSUME Lives, native.code = <<>>
  PROVE  Len(tempRoots) = 0 /\ compiler = {} /\ DOMAIN native.locals = {} /\ Names(<<>>) = {}
<1>1. PICK p \in States, q \in States :
        Path(native.code, p, q) /\ Ended(q) /\ Stands(p)
  BY DEF Lives, Leads
<1>2. Len(native.code) = 0 /\ DOMAIN native.code = {}
  OBVIOUS
<1>3. p = q
  BY <1>1, <1>2 DEF Path
<1>4. Names(native.code) = {}
  BY <1>2 DEF Names
<1>. QED
  BY <1>1, <1>3, <1>4 DEF Stands, Lives, Ended

\* No C function is called.
LEMMA RestLives ==
  ASSUME Lives, native.code = <<>>, native' = native, tempRoots' = tempRoots,
         compiler' = compiler, dark' = dark, Good(heap', next', fiber'),
         modules' \cup methodNames' \subseteq Value(heap'), handles' \in Seq(Value(heap')),
         1 \in modules'
  PROVE  Lives'
<1> DEFINE p == State(<<>>, {}, {}, {}, FALSE)
<1>1. /\ p \in States /\ p.roots = <<>> /\ p.kept = {} /\ p.bare = {} /\ p.dead = {}
      /\ ~p.source /\ p.live = {} /\ p.stage = "none"
  BY DEF States, State, Stages
<1> HIDE DEF p
<1>2. Len(tempRoots') = 0 /\ compiler' = {} /\ DOMAIN native'.locals = {} /\ Names(<<>>) = {}
  BY Calm
<1>3. Leads(native'.code, p)
  BY <1>1, PathNone DEF Leads, Ended
<1>4. \A n : Local(n)' = None
  BY <1>2 DEF Local
<1>5. None \notin DOMAIN heap' /\ None \in Value(heap') /\ None \in Past(next')
  BY DEF Good, Sound, Ranged, Value, Past
<1>6. Stands(p)'
  <2>1. Len(tempRoots') = Len(p.roots) /\ 1..Len(p.roots) = {}
    BY <1>1, <1>2
  <2>2. \A n \in LocalNames \ p.dead :
          /\ Local(n)' \in IF n \in Unrooted THEN Past(next') ELSE Value(heap')
          /\ n \notin Set(p) => Local(n)' = None
          /\ n \in p.kept => Local(n)' \in Anchors'
    BY <1>1, <1>4, <1>5
  <2>3. \A n \in NeverMade : Local(n)' \in DOMAIN heap' => heap'[Local(n)'].kind = "class"
    BY <1>4, <1>5
  <2>. QED  BY <1>1, <1>2, <2>1, <2>2, <2>3 DEF Stands, Allocated
<1>7. Serves(p)'
  <2>1. \A n \in StringNames : Local(n)' = None
    BY <1>4
  <2>2. Len(p.roots) = 0 /\ ~(None \in DOMAIN heap')
    BY <1>1, <1>5
  <2>. QED  BY <1>1, <2>1, <2>2 DEF Serves, Allocated
<1>8. dark' = {} /\ DOMAIN native'.locals \subseteq Names(native'.code)
  BY <1>2 DEF Lives
<1>. QED
  BY <1>1, <1>2, <1>3, <1>6, <1>7, <1>8 DEF Lives

\* The locals that a C function begins with, kept or bare.
Given(locals, k, b) ==
  \A n \in DOMAIN locals :
    /\ locals[n] \in IF n \in Unrooted THEN Past(next') ELSE Value(heap')
    /\ locals[n] = None \/ n \in k \cup b \cup Unrooted
    /\ n \in k => locals[n] \in Anchors'
    /\ n \in NeverMade /\ locals[n] \in DOMAIN heap' => heap'[locals[n]].kind = "class"
    /\ n \in StringNames => locals[n] = None

\* A C function is called, and its locals are what its program says they are.
LEMMA BeginLives ==
  ASSUME Lives, NEW code, NEW locals, Begin(code, locals),
         tempRoots' = tempRoots, compiler' = compiler, dark' = dark,
         Good(heap', next', fiber'),
         modules' \cup methodNames' \subseteq Value(heap'), handles' \in Seq(Value(heap')),
         1 \in modules',
         NEW k \in SUBSET LocalNames, NEW b \in SUBSET LocalNames,
         b \cap {"upvalue", "fiber"} = {},
         NEW q \in States, Path(code, State(<<>>, k, b, {}, FALSE), q), Ended(q),
         DOMAIN locals \subseteq Names(code),
         Given(locals, k, b)
  PROVE  Lives'
<1> DEFINE p == State(<<>>, k, b, {}, FALSE)
<1>1. /\ p \in States /\ p.roots = <<>> /\ p.kept = k /\ p.bare = b /\ p.dead = {}
      /\ ~p.source /\ p.live = {} /\ p.stage = "none"
  BY DEF States, State, Stages
<1>2. Path(code, p, q)
  OBVIOUS
<1> HIDE DEF p
<1>3. native.code = <<>> /\ native'.code = code /\ native'.locals = locals
  BY DEF Begin
<1>4. Len(tempRoots') = 0 /\ compiler' = {}
  BY <1>3, Calm
<1>5. Leads(native'.code, p)
  BY <1>2, <1>3 DEF Leads
<1>6. \A n : Local(n)' = IF n \in DOMAIN locals THEN locals[n] ELSE None
  BY <1>3 DEF Local
<1>7. None \notin DOMAIN heap' /\ None \in Value(heap') /\ None \in Past(next') /\ None \in Anchors'
  BY DEF Good, Sound, Ranged, Value, Past, Anchors
<1>8. k \cup b \cup Unrooted \subseteq Set(p)
  BY <1>1 DEF Set
<1>9. Stands(p)'
  <2>1. Len(tempRoots') = Len(p.roots) /\ 1..Len(p.roots) = {}
    BY <1>1, <1>4
  <2>2. \A n \in LocalNames \ p.dead :
          /\ Local(n)' \in IF n \in Unrooted THEN Past(next') ELSE Value(heap')
          /\ n \notin Set(p) => Local(n)' = None
          /\ n \in p.kept => Local(n)' \in Anchors'
    BY <1>1, <1>6, <1>7, <1>8 DEF Given
  <2>3. \A n \in NeverMade : Local(n)' \in DOMAIN heap' => heap'[Local(n)'].kind = "class"
    BY <1>6, <1>7 DEF Given
  <2>. QED  BY <1>1, <1>4, <2>1, <2>2, <2>3 DEF Stands, Allocated
<1>10. Serves(p)'
  <2>1. \A n \in StringNames : Local(n)' = None
    BY <1>6 DEF Given
  <2>2. Len(p.roots) = 0 /\ ~(None \in DOMAIN heap')
    BY <1>1, <1>7
  <2>. QED  BY <1>1, <2>1, <2>2 DEF Serves, Allocated
<1>11. dark' = {} /\ DOMAIN native'.locals \subseteq Names(native'.code)
  BY <1>3 DEF Lives
<1>. QED
  BY <1>1, <1>4, <1>5, <1>9, <1>10, <1>11 DEF Lives

\* An instruction writes the heap, and calls no C function.
LEMMA HeapLives ==
  ASSUME Lives, native.code = <<>>, native' = native, UNCHANGED roots, dark' = dark,
         Good(heap', next', fiber), Value(heap) \subseteq Value(heap')
  PROVE  Lives'
<1>1. /\ modules' = modules /\ methodNames' = methodNames /\ handles' = handles
      /\ tempRoots' = tempRoots /\ compiler' = compiler /\ fiber' = fiber
  BY DEF roots
<1>2. /\ modules \cup methodNames \cup compiler \subseteq Value(heap)
      /\ handles \in Seq(Value(heap)) /\ 1 \in modules
  BY DEF Lives
<1>3. handles' \in Seq(Value(heap'))
  BY <1>1, <1>2
<1>. QED
  BY <1>1, <1>2, <1>3, RestLives

\* The stack of the running fiber is written.
LEMMA StackLives ==
  ASSUME Lives, Starts, native' = native, NEW s \in Seq(Value(heap)), SetStack(s),
         s # <<>>, DOMAIN Stack \subseteq DOMAIN s
  PROVE  Lives'
<1>1. /\ native.code = <<>> /\ next' = next /\ UNCHANGED roots /\ dark' = dark
      /\ heap' = [heap EXCEPT ![fiber].stack = s]
  BY DEF Starts, Ready, SetStack
<1>2. Good(heap', next, fiber) /\ DOMAIN heap' = Allocated
  <2>1. \A u \in heap[fiber].openUpvalues : heap[u].slot \in DOMAIN s
    BY Running DEF Lives
  <2>. QED  BY <1>1, <2>1, StackGood DEF Lives
<1>3. Value(heap') = Value(heap)
  BY <1>2 DEF Value, Allocated
<1>. QED
  BY <1>1, <1>2, <1>3, HeapLives

\* An object is allocated, and the stack of the running fiber is written.
LEMMA MakesLives ==
  ASSUME FInv, Lives, NEW rec \in Obj(Value(heap), Past(next)), rec.kind # "upvalue",
         rec.kind = "closure" => rec.upvalues = <<>>,
         rec.kind = "fiber" => rec.openUpvalues = {} /\ rec.stack # <<>> /\ rec.caller = None,
         NEW s \in Seq(Value(heap) \cup {next}), s # <<>>, DOMAIN Stack \subseteq DOMAIN s,
         Makes(rec, s)
  PROVE  Lives'
<1> DEFINE w == With(rec)
           r == [w[fiber] EXCEPT !.stack = s]
<1>1. /\ native.code = <<>> /\ native' = native /\ next' = next + 1 /\ UNCHANGED roots
      /\ dark' = dark /\ heap' = [w EXCEPT ![fiber].stack = s] /\ next <= MaxObjects
  BY DEF Makes, Ready
<1>2. /\ Good(w, next + 1, fiber) /\ Value(w) = Value(heap) \cup {next}
      /\ \A o \in Allocated : w[o] = heap[o]
      /\ DOMAIN w = Allocated \cup {next}
  BY <1>1, MadeGood DEF Lives
<1>3. /\ fiber \in Allocated /\ w[fiber] = heap[fiber] /\ heap[fiber].kind = "fiber"
      /\ \A u \in heap[fiber].openUpvalues :
           u \in Allocated /\ heap[u].slot \in DOMAIN s
  BY <1>2, Running DEF Lives, Has, Allocated
<1> HIDE DEF w
<1>4. w[fiber] \in ObjFiber(Value(w))
  BY <1>2, <1>3, Made DEF Good, Sound
<1>5. /\ r \in ObjFiber(Value(w)) /\ r.kind = "fiber" /\ r.stack = s
      /\ r.frames = w[fiber].frames /\ r.openUpvalues = w[fiber].openUpvalues
      /\ r.caller = w[fiber].caller /\ r.root = w[fiber].root
  BY <1>2, <1>4 DEF ObjFiber
<1>6. r \in Obj(Value(w), Past(next + 1)) /\ heap' = Put(w, fiber, r)
  BY <1>1, <1>5 DEF Obj, Put
<1> HIDE DEF r
<1>7. \A u \in r.openUpvalues : w[u].slot \in DOMAIN r.stack
  BY <1>2, <1>3, <1>5
<1>8. Good(Put(w, fiber, r), next + 1, fiber)
  BY <1>2, <1>3, <1>5, <1>6, <1>7, WrittenGood
<1>9. Value(heap') = Value(w)
  BY <1>6 DEF Put, Value
<1>. QED
  BY <1>1, <1>2, <1>6, <1>8, <1>9, HeapLives

-----------------------------------------------------------------------------
(* Instructions.                                                            *)

\* What is on the stack, and the stacks that instructions make of it.
LEMMA Stacks ==
  ASSUME Good(heap, next, fiber)
  PROVE  /\ \A i \in DOMAIN Stack : Stack[i] \in Value(heap)
         /\ Top \in Value(heap) /\ Top = Stack[Len(Stack)] /\ Len(Stack) \in DOMAIN Stack
         /\ Front(Stack) \in Seq(Value(heap))
         /\ \A W, v : Value(heap) \subseteq W /\ v \in W =>
              /\ Append(Stack, v) \in Seq(W) /\ Append(Stack, v) # <<>>
              /\ DOMAIN Stack \subseteq DOMAIN Append(Stack, v)
              /\ Append(Front(Stack), v) \in Seq(W) /\ Append(Front(Stack), v) # <<>>
              /\ DOMAIN Stack \subseteq DOMAIN Append(Front(Stack), v)
              /\ \A i \in DOMAIN Stack : /\ Slot(i, v) \in Seq(W) /\ Slot(i, v) # <<>>
                                         /\ DOMAIN Stack \subseteq DOMAIN Slot(i, v)
<1> DEFINE V == Value(heap)
<1>1. Stack \in Seq(V) /\ Stack # <<>>
  BY Running
<1> DEFINE s == Stack
<1> HIDE DEF V, s
<1>2. s \in Seq(V) /\ s # <<>> /\ Len(s) \in Nat /\ DOMAIN s = 1..Len(s) /\ Len(s) > 0
  BY <1>1 DEF s
<1>3. \A i \in DOMAIN s : s[i] \in V
  BY <1>2
<1>4. /\ Last(s) = s[Len(s)] /\ Len(s) \in DOMAIN s
      /\ Front(s) \in Seq(V) /\ Len(Front(s)) = Len(s) - 1
  <2>1. Len(s) \in DOMAIN s
    BY <1>2
  <2>2. Last(s) = s[Len(s)] /\ Front(s) \in Seq(V) /\ Len(Front(s)) = Len(s) - 1
    BY <1>2, InFront
  <2>. QED  BY <2>1, <2>2
<1>5. ASSUME NEW W, NEW v, V \subseteq W, v \in W
      PROVE  /\ Append(s, v) \in Seq(W) /\ Append(s, v) # <<>>
             /\ DOMAIN s \subseteq DOMAIN Append(s, v)
             /\ Append(Front(s), v) \in Seq(W) /\ Append(Front(s), v) # <<>>
             /\ DOMAIN s \subseteq DOMAIN Append(Front(s), v)
             /\ \A i \in DOMAIN s : /\ [s EXCEPT ![i] = v] \in Seq(W) /\ [s EXCEPT ![i] = v] # <<>>
                                    /\ DOMAIN s \subseteq DOMAIN [s EXCEPT ![i] = v]
  <2>1. s \in Seq(W) /\ Front(s) \in Seq(W)
    BY <1>2, <1>4, <1>5
  <2>2. /\ Append(s, v) \in Seq(W) /\ Append(s, v) # <<>>
        /\ DOMAIN s \subseteq DOMAIN Append(s, v)
    BY <1>5, <2>1, InAppended
  <2>3. /\ Append(Front(s), v) \in Seq(W) /\ Append(Front(s), v) # <<>>
        /\ Len(Append(Front(s), v)) = Len(Front(s)) + 1
    BY <1>5, <2>1, InAppended
  <2>4. DOMAIN Append(Front(s), v) = 1..Len(s)
    <3>1. Len(Append(Front(s), v)) = Len(s)
      BY <1>2, <1>4, <2>3
    <3>2. DOMAIN Append(Front(s), v) = 1..Len(Append(Front(s), v))
      BY <2>3
    <3>. QED  BY <3>1, <3>2
  <2>5. ASSUME NEW i \in DOMAIN s
        PROVE  /\ [s EXCEPT ![i] = v] \in Seq(W) /\ [s EXCEPT ![i] = v] # <<>>
               /\ DOMAIN s \subseteq DOMAIN [s EXCEPT ![i] = v]
    BY <1>2, <1>5, <2>1, <2>5
  <2>. QED  BY <1>2, <2>2, <2>3, <2>4, <2>5
<1>. QED
  BY <1>3, <1>4, <1>5 DEF V, s, Top, Slot

\* The values of an object are values.
LEMMA ValuesOf ==
  ASSUME Good(heap, next, fiber), NEW o \in Allocated
  PROVE  /\ heap[o] \in Obj(Value(heap), Past(next))
         /\ heap[o].kind = "module" => heap[o] \in ObjModule(Value(heap))
         /\ heap[o].kind = "instance" => heap[o] \in ObjInstance(Value(heap))
         /\ heap[o].kind = "class" => heap[o] \in ObjClass(Value(heap))
         /\ heap[o].kind = "list" => heap[o] \in ObjList(Value(heap))
         /\ heap[o].kind = "map" => heap[o] \in ObjMap(Value(heap))
         /\ heap[o].kind = "upvalue" => heap[o] \in ObjUpvalue(Value(heap), Past(next))
         /\ heap[o].kind = "fiber" => heap[o] \in ObjFiber(Value(heap))
         /\ heap[o].kind = "closure" => heap[o] \in ObjClosure(Value(heap))
<1>1. heap[o] \in Obj(Value(heap), Past(next))
  BY DEF Good, Sound, Typed, Allocated
<1>. QED
  BY <1>1, KindsApart

\* The variable of the module.
LEMMA Variable ==
  ASSUME Good(heap, next, fiber)
  PROVE  /\ 1 \in Allocated /\ heap[1].kind = "module" /\ heap[1] \in ObjModule(Value(heap))
         /\ heap[1].variables[1] \in Value(heap)
         /\ heap[1].variables[1] \in ToSet(heap[1].variables)
<1>1. 1 \in Allocated /\ heap[1].kind = "module"
  BY DEF Good, Sound, Has, Allocated
<1>2. heap[1] \in ObjModule(Value(heap))
  BY <1>1, ValuesOf
<1>3. heap[1].variables \in [{1} -> Value(heap)]
  BY <1>2 DEF ObjModule
<1>. QED
  BY <1>1, <1>2, <1>3 DEF ToSet

\* A value is loaded on the stack.
LEMMA LoadLives == Lives /\ Load => Lives'
<1> SUFFICES ASSUME Lives, Load PROVE Lives'
  OBVIOUS
<1>1. PICK v \in Value(heap) : SetStack(Append(Stack, v))
  BY Stacks, Variable DEF Load, Lives
<1>2. /\ Append(Stack, v) \in Seq(Value(heap)) /\ Append(Stack, v) # <<>>
      /\ DOMAIN Stack \subseteq DOMAIN Append(Stack, v)
  BY Stacks DEF Lives
<1>3. Starts /\ native' = native
  BY DEF Load
<1>. QED
  BY <1>1, <1>2, <1>3, StackLives

\* An object that is no fiber is written by an instruction.
LEMMA ObjectLives ==
  ASSUME Lives, Starts, native' = native, NEW x \in Allocated,
         NEW rec \in Obj(Value(heap), Past(next)), rec.kind = heap[x].kind,
         rec.kind \notin {"upvalue", "closure", "fiber"},
         heap' = Put(heap, x, rec)
  PROVE  Lives'
<1>1. native.code = <<>> /\ next' = next /\ UNCHANGED roots /\ dark' = dark
  BY DEF Starts, Ready
<1>2. Good(heap', next, fiber) /\ DOMAIN heap' = Allocated
  BY PutGood DEF Lives
<1>3. Value(heap') = Value(heap)
  BY <1>2 DEF Value, Allocated
<1>. QED
  BY <1>1, <1>2, <1>3, HeapLives

\* The variable of the module is written, or the field of an instance.
LEMMA StoreLives == Lives /\ (StoreModuleVar \/ \E i \in DOMAIN Stack : StoreField(i)) => Lives'
<1> SUFFICES ASSUME Lives, StoreModuleVar \/ \E i \in DOMAIN Stack : StoreField(i) PROVE Lives'
  OBVIOUS
<1>1. Top \in Value(heap) /\ Good(heap, next, fiber)
  BY Stacks DEF Lives
<1> DEFINE v == Top
           V == Value(heap)
<1> HIDE DEF v, V
<1>2. CASE StoreModuleVar
  <2> DEFINE rec == [heap[1] EXCEPT !.variables = [@ EXCEPT ![1] = v]]
  <2>1. heap' = Put(heap, 1, rec)
    BY <1>2 DEF StoreModuleVar, Put, v
  <2>2. 1 \in Allocated /\ heap[1].kind = "module" /\ heap[1] \in ObjModule(V)
    BY <1>1, Variable DEF V
  <2>3. rec \in ObjModule(V) /\ rec.kind = "module"
    BY <1>1, <2>2 DEF ObjModule, v, V
  <2> HIDE DEF rec
  <2>4. rec \in Obj(V, Past(next))
    BY <2>3 DEF Obj
  <2>5. Starts /\ native' = native
    BY <1>2 DEF StoreModuleVar
  <2>. QED  BY <2>1, <2>2, <2>3, <2>4, <2>5, ObjectLives DEF V
<1>3. ASSUME NEW i \in DOMAIN Stack, StoreField(i) PROVE Lives'
  <2> DEFINE x == Stack[i]
             rec == [heap[x] EXCEPT !.fields = [@ EXCEPT ![1] = v]]
  <2>1. heap' = Put(heap, x, rec) /\ x \in Allocated /\ heap[x].kind = "instance"
    BY <1>3 DEF StoreField, Put, Is, v
  <2> HIDE DEF x
  <2>2. heap[x] \in ObjInstance(V)
    BY <1>1, <2>1, ValuesOf DEF V
  <2>3. rec \in ObjInstance(V) /\ rec.kind = "instance"
    BY <1>1, <2>2 DEF ObjInstance, v, V
  <2> HIDE DEF rec
  <2>4. rec \in Obj(V, Past(next))
    BY <2>3 DEF Obj
  <2>5. Starts /\ native' = native
    BY <1>3 DEF StoreField
  <2>. QED  BY <2>1, <2>3, <2>4, <2>5, ObjectLives DEF V
<1>. QED
  BY <1>2, <1>3

\* The slot on top is popped, and the upvalue that is open on it is closed.
LEMMA PopLives == Lives /\ Pop => Lives'
<1> SUFFICES ASSUME Lives, Pop PROVE Lives'
  OBVIOUS
<1> DEFINE closing == Opens(Len(Stack))
           g == ShutIn(heap, fiber, closing)
           f == Front(Stack)
           r == [g[fiber] EXCEPT !.stack = f]
<1>1. /\ native.code = <<>> /\ native' = native /\ next' = next /\ UNCHANGED roots /\ dark' = dark
      /\ Len(Stack) > 1
      /\ heap' = [Closed(closing, fiber, 0) EXCEPT ![fiber].stack = Front(@),
                                                   ![fiber].openUpvalues = @ \ closing]
  BY DEF Pop, Starts, Ready
<1>2. /\ fiber \in Allocated /\ heap[fiber].kind = "fiber" /\ heap[fiber] \in ObjFiber(Value(heap))
      /\ Stack \in Seq(Value(heap)) /\ Stack # <<>>
      /\ \A u \in heap[fiber].openUpvalues :
           Has(heap, u, "upvalue") /\ heap[u].fiber = fiber /\ heap[u].slot \in DOMAIN Stack
      /\ Good(heap, next, fiber)
  BY Running DEF Lives
<1>3. /\ f \in Seq(Value(heap)) /\ f # <<>>
      /\ \A i \in DOMAIN Stack : i \in DOMAIN f \/ i = Len(Stack)
  <2>1. f \in Seq(Value(heap)) /\ Len(f) = Len(Stack) - 1
        /\ \A i \in DOMAIN Stack : i \in DOMAIN f \/ i = Len(Stack)
    BY <1>2, InFront
  <2>. QED  BY <1>1, <1>2, <2>1
<1>4. closing \subseteq heap[fiber].openUpvalues
  BY DEF Opens
<1>5. /\ Good(g, next, fiber) /\ DOMAIN g = DOMAIN heap
      /\ \A o \in DOMAIN heap : o \notin closing /\ o # fiber => g[o] = heap[o]
      /\ g[fiber] = [heap[fiber] EXCEPT !.openUpvalues = @ \ closing]
      /\ \A o \in DOMAIN heap : g[o].kind = heap[o].kind
  <2> HIDE DEF closing
  <2>1. Has(heap, fiber, "fiber") /\ closing \in SUBSET heap[fiber].openUpvalues
    BY <1>2, <1>4 DEF Has, Allocated
  <2>. QED  BY <1>2, <2>1, ClosedUp
<1>6. heap' = Put(g, fiber, r)
  <2> DEFINE c == Closed(closing, fiber, 0)
  <2>1. c = ClosedIn(heap, fiber, closing)
    BY DEF Closed, ClosedIn, Allocated
  <2>2. c[fiber] = heap[fiber] /\ fiber \in DOMAIN c
    BY <1>2, <1>4 DEF Closed, Has
  <2>3. g = Put(c, fiber, [heap[fiber] EXCEPT !.openUpvalues = @ \ closing])
    BY <2>1 DEF ShutIn
  <2> HIDE DEF c, closing, g
  <2>4. heap' = [c EXCEPT ![fiber] = [heap[fiber] EXCEPT !.stack = f, !.openUpvalues = @ \ closing]]
    BY <1>1, <2>2 DEF c, Stack
  <2>5. r = [heap[fiber] EXCEPT !.stack = f, !.openUpvalues = @ \ closing]
    BY <1>2, <1>5 DEF ObjFiber
  <2> HIDE DEF r
  <2>. QED  BY <2>2, <2>3, <2>4, <2>5 DEF Put
<1>7. Value(g) = Value(heap) /\ g[fiber].openUpvalues = heap[fiber].openUpvalues \ closing
      /\ g[fiber] \in ObjFiber(Value(heap))
  BY <1>2, <1>5 DEF Value, ObjFiber
<1>8. \A u \in g[fiber].openUpvalues : g[u].slot \in DOMAIN f
  <2> SUFFICES ASSUME NEW u \in g[fiber].openUpvalues PROVE g[u].slot \in DOMAIN f
    OBVIOUS
  <2>1. u \in heap[fiber].openUpvalues /\ u \notin closing
    BY <1>7
  <2>2. Has(heap, u, "upvalue") /\ heap[u].slot \in DOMAIN Stack /\ heap[u].slot # Len(Stack)
    BY <1>2, <2>1 DEF Opens
  <2>3. g[u] = heap[u]
    BY <1>2, <1>5, <2>1, <2>2 DEF Has
  <2>. QED  BY <1>3, <2>2, <2>3
<1> HIDE DEF g, closing, f
<1>9. /\ r \in ObjFiber(Value(g)) /\ r.kind = "fiber" /\ r.stack = f
      /\ r.frames = g[fiber].frames /\ r.openUpvalues = g[fiber].openUpvalues
      /\ r.caller = g[fiber].caller /\ r.root = g[fiber].root
  BY <1>3, <1>7 DEF ObjFiber
<1>10. r \in Obj(Value(g), Past(next))
  BY <1>9 DEF Obj
<1> HIDE DEF r
<1>11. Good(Put(g, fiber, r), next, fiber)
  BY <1>2, <1>3, <1>5, <1>8, <1>9, <1>10, WrittenGood DEF Allocated
<1>12. Value(heap') = Value(heap)
  BY <1>5, <1>6 DEF Put, Value
<1>. QED
  BY <1>1, <1>6, <1>11, <1>12, HeapLives

\* A C function is called, and the objects are as they were.
LEMMA CallLives ==
  ASSUME Lives, Starts, NEW code, NEW locals, Begin(code, locals), heap' = heap,
         NEW k \in SUBSET LocalNames, NEW b \in SUBSET LocalNames,
         b \cap {"upvalue", "fiber"} = {},
         NEW q \in States, Path(code, State(<<>>, k, b, {}, FALSE), q), Ended(q),
         DOMAIN locals \subseteq Names(code), DOMAIN locals \cap NeverMade = {},
         \A n \in DOMAIN locals :
           /\ locals[n] \in Value(heap)
           /\ locals[n] = None \/ n \in k \cup b
           /\ n \in k => locals[n] \in Anchors
           /\ n \in StringNames => locals[n] = None
  PROVE  Lives'
<1>1. /\ next' = next /\ fiber' = fiber /\ modules' = modules /\ methodNames' = methodNames
      /\ handles' = handles /\ tempRoots' = tempRoots /\ compiler' = compiler /\ dark' = dark
  BY DEF Starts, roots
<1>2. /\ Good(heap', next', fiber') /\ modules' \cup methodNames' \subseteq Value(heap')
      /\ handles' \in Seq(Value(heap')) /\ 1 \in modules' /\ Value(heap') \subseteq Past(next')
  BY <1>1 DEF Lives, Good, Sound, Ranged, Value, Past
<1>3. Anchors' = Anchors
  BY <1>1 DEF Anchors
<1>4. ASSUME NEW n \in DOMAIN locals
      PROVE  /\ locals[n] \in IF n \in Unrooted THEN Past(next') ELSE Value(heap')
             /\ locals[n] = None \/ n \in k \cup b \cup Unrooted
             /\ n \in k => locals[n] \in Anchors'
             /\ n \in NeverMade /\ locals[n] \in DOMAIN heap' => heap'[locals[n]].kind = "class"
             /\ n \in StringNames => locals[n] = None
  <2>1. locals[n] \in Value(heap') /\ locals[n] \in Past(next')
    BY <1>2
  <2>2. n \notin NeverMade /\ (n \in StringNames => locals[n] = None)
    OBVIOUS
  <2>. QED  BY <1>3, <2>1, <2>2
<1>. QED
  <2>1. Given(locals, k, b)
    BY <1>4 DEF Given
  <2>. QED  BY <1>1, <1>2, <2>1, BeginLives

\* A closure is made of the code of the script, or its variable is loaded.
LEMMA ClosuresLive == Lives /\ Closures => Lives'
<1> SUFFICES ASSUME Lives, Closures PROVE Lives'
  OBVIOUS
<1>1. CASE CodeClosure
  <2> DEFINE locals == [fn |-> None]
             q == State(<<>>, {"closure"}, {"upvalue"}, {}, FALSE)
             no == {}
  <2>1. Starts /\ Begin(MakeClosure, locals) /\ heap' = heap
    BY <1>1 DEF CodeClosure
  <2>2. q \in States /\ Ended(q)
    BY DEF States, State, Stages, LocalNames, Ended
  <2>3. Path(MakeClosure, State(<<>>, no, no, {}, FALSE), q)
    BY RangePath
  <2>4. DOMAIN locals = {"fn"} /\ locals["fn"] = None
    OBVIOUS
  <2>5. "fn" \in Names(MakeClosure)
    BY SaidAtStart DEF Says
  <2>6. None \in Value(heap) /\ "fn" \notin NeverMade
    BY DEF Value, NeverMade
  <2>7. no \subseteq LocalNames /\ no \cap {"upvalue", "fiber"} = {} /\ \A n : n \notin no
    OBVIOUS
  <2> HIDE DEF locals, q, no
  <2>. QED  BY ZenonT(40), <2>1, <2>2, <2>3, <2>4, <2>5, <2>6, <2>7, CallLives
<1>2. CASE CallClosure
  <2> DEFINE u == heap[Top].upvalues[1]
  <2>1. /\ Top \in Allocated /\ heap[Top].kind = "closure" /\ Len(heap[Top].upvalues) = 1
        /\ Starts /\ native' = native
        /\ \/ heap[u].fiber = None /\ SetStack(Append(Front(Stack), heap[u].closed))
           \/ /\ Is(heap[u].fiber, "fiber")
              /\ SetStack(Append(Front(Stack), heap[heap[u].fiber].stack[heap[u].slot]))
    BY <1>2 DEF CallClosure, Is
  <2>2. Good(heap, next, fiber)
    BY DEF Lives
  <2>3. u \in Allocated /\ heap[u].kind = "upvalue"
    <3>1. heap[Top] \in ObjClosure(Value(heap))
      BY <2>1, <2>2, ValuesOf
    <3>2. heap[Top].upvalues \in Seq(Value(heap))
      BY <3>1 DEF ObjClosure
    <3>3. u \in ToSet(heap[Top].upvalues)
      <4>1. 1 \in DOMAIN heap[Top].upvalues
        BY <2>1, <3>2
      <4>. QED  BY <4>1 DEF ToSet
    <3>. QED  BY <2>1, <2>2, <3>3 DEF Good, Sound, Captures, Has, Allocated
  <2> HIDE DEF u
  <2>4. heap[u].closed \in Value(heap)
    BY <2>2, <2>3, ValuesOf DEF ObjUpvalue
  <2>5. ASSUME Is(heap[u].fiber, "fiber")
        PROVE  heap[heap[u].fiber].stack[heap[u].slot] \in Value(heap)
    <3> DEFINE f == heap[u].fiber
    <3>1. f \in Allocated /\ heap[f].kind = "fiber"
      BY <2>5 DEF Is
    <3>2. heap[u].slot \in DOMAIN heap[f].stack
      BY <2>2, <2>3, <3>1 DEF Good, Sound, Opened, Allocated
    <3>3. heap[f].stack \in Seq(Value(heap))
      <4> HIDE DEF f
      <4>. QED  BY <2>2, <3>1, ValuesOf DEF ObjFiber
    <3>. QED  BY <3>2, <3>3
  <2>6. PICK v \in Value(heap) : SetStack(Append(Front(Stack), v))
    BY <2>1, <2>4, <2>5
  <2>7. /\ Append(Front(Stack), v) \in Seq(Value(heap)) /\ Append(Front(Stack), v) # <<>>
        /\ DOMAIN Stack \subseteq DOMAIN Append(Front(Stack), v)
    BY <2>2, Stacks
  <2>. QED  BY <2>1, <2>6, <2>7, StackLives
<1>. QED
  BY <1>1, <1>2 DEF Closures

\* A class is created: its superclass leaves the stack.
LEMMA CreateClassLives ==
  ASSUME Lives, NEW foreign \in BOOLEAN, CreateClass(foreign)
  PROVE  Lives'
<1> DEFINE more == IF foreign THEN BindForeignClass ELSE <<>>
           code == WrenNewClass \o <<Step("top", "classObj", "")>> \o more
           locals == [superclass |-> Top, classClass |-> None, name |-> None]
           q == State(<<>>, {"classObj"}, {}, {"metaclassName", "metaclass"}, FALSE)
           s == Append(Front(Stack), None)
           no == {}
<1>1. /\ native.code = <<>> /\ next' = next /\ fiber' = fiber /\ modules' = modules
      /\ methodNames' = methodNames
      /\ handles' = handles /\ tempRoots' = tempRoots /\ compiler' = compiler /\ dark' = dark
      /\ Top # None => Top \in Allocated /\ heap[Top].kind = "class"
      /\ heap' = [heap EXCEPT ![fiber].stack = s]
  BY DEF CreateClass, Starts, Ready, roots, SetStack, Is
<1>2. Begin(code, locals)
  BY DEF CreateClass
<1>3. Good(heap, next, fiber)
  BY DEF Lives
<1>4. s \in Seq(Value(heap)) /\ s # <<>> /\ DOMAIN Stack \subseteq DOMAIN s /\ Top \in Value(heap)
  <2>1. None \in Value(heap)
    BY DEF Value
  <2>. QED  BY <1>3, <2>1, Stacks
<1> HIDE DEF s
<1>5. /\ Good(heap', next, fiber) /\ DOMAIN heap' = Allocated
      /\ \A o \in Allocated : heap'[o].kind = heap[o].kind
  <2>1. \A u \in heap[fiber].openUpvalues : heap[u].slot \in DOMAIN s
    BY <1>3, <1>4, Running
  <2>. QED  BY <1>1, <1>3, <1>4, <2>1, StackGood
<1>6. /\ Value(heap') = Value(heap) /\ modules' \cup methodNames' \subseteq Value(heap')
      /\ handles' \in Seq(Value(heap')) /\ 1 \in modules' /\ Value(heap') \subseteq Past(next')
      /\ None \notin DOMAIN heap'
  <2>1. Value(heap') = Value(heap)
    BY <1>5 DEF Value, Allocated
  <2>2. Value(heap') \subseteq Past(next') /\ None \notin DOMAIN heap'
    BY <1>1, <1>5 DEF Good, Sound, Ranged, Value, Past
  <2>. QED  BY <1>1, <2>1, <2>2 DEF Lives
<1>7. q \in States /\ Ended(q)
  BY DEF States, State, Stages, LocalNames, Ended
<1>8. Path(code, State(<<>>, no, no, {}, FALSE), q)
  <2>1. more = <<>> \/ more = BindForeignClass
    OBVIOUS
  <2> HIDE DEF more
  <2>. QED  BY <2>1, NewClassPath, Zenon
<1>9. DOMAIN locals = {"superclass", "classClass", "name"}
      /\ locals["superclass"] = Top /\ locals["classClass"] = None /\ locals["name"] = None
  OBVIOUS
<1>10. DOMAIN locals \subseteq Names(code)
  <2>1. more \in {<<>>, BindForeignClass}
    OBVIOUS
  <2> HIDE DEF more
  <2>2. \A n \in {"superclass", "classClass", "name"} : n \in Names(code)
    BY <2>1, SaidAtStart DEF Says
  <2>. QED  BY <1>9, <2>2
<1> HIDE DEF code, locals, q
<1>11. no \subseteq LocalNames /\ no \cap {"upvalue", "fiber"} = {}
  OBVIOUS
<1>12. ASSUME NEW n \in DOMAIN locals
       PROVE  /\ locals[n] \in IF n \in Unrooted THEN Past(next') ELSE Value(heap')
              /\ locals[n] = None \/ n \in no \cup no \cup Unrooted
              /\ n \in no => locals[n] \in Anchors'
              /\ n \in NeverMade /\ locals[n] \in DOMAIN heap' => heap'[locals[n]].kind = "class"
              /\ n \in StringNames => locals[n] = None
  <2>1. CASE n = "superclass"
    BY <1>1, <1>4, <1>5, <1>6, <1>9, <2>1 DEF Unrooted, StringNames
  <2>2. CASE n # "superclass"
    <3>1. locals[n] = None
      BY <1>9, <2>2
    <3>2. None \in Value(heap') /\ None \in Past(next') /\ None \notin DOMAIN heap'
      BY <1>6 DEF Value, Past
    <3>. QED  BY <3>1, <3>2
  <2>. QED  BY <2>1, <2>2
<1>. QED
  <2>1. Given(locals, no, no)
    BY <1>12 DEF Given
  <2> HIDE DEF no
  <2>. QED  BY <1>1, <1>2, <1>5, <1>6, <1>7, <1>8, <1>10, <1>11, <2>1, BeginLives

\* What one object is made of stays on the stack until it is there.
LEMMA OneMadeLives ==
  ASSUME FInv, Lives, NEW y \in Value(heap),
         NEW rec \in {NewString, NewInstance(y), NewForeign(y), NewList, NewMap, NewFiber(y)},
         NEW s, Makes(rec, s),
         s = Append(Front(Stack), next) \/ \E i \in DOMAIN Stack : s = Slot(i, next)
  PROVE  Lives'
<1>1. Good(heap, next, fiber) /\ next <= MaxObjects
  BY DEF Lives, Makes
<1>2. Value(heap) \subseteq Past(next)
  BY <1>1, NextNew
<1>3. /\ rec \in Obj(Value(heap), Past(next)) /\ rec.kind # "upvalue"
      /\ rec.kind = "closure" => rec.upvalues = <<>>
      /\ rec.kind = "fiber" => rec.openUpvalues = {} /\ rec.stack # <<>> /\ rec.caller = None
  <2>1. rec \in {NewString, NewSingleClass(y), NewFunction, NewClosure(y), NewModule(y),
                 NewFiber(y), NewInstance(y), NewForeign(y), NewList, NewMap}
    OBVIOUS
  <2>. QED  BY <1>2, <2>1, NewObjects
<1> DEFINE W == Value(heap) \cup {next}
<1>4. s \in Seq(W) /\ s # <<>> /\ DOMAIN Stack \subseteq DOMAIN s
  <2>1. Value(heap) \subseteq W /\ next \in W
    OBVIOUS
  <2> HIDE DEF W
  <2>. QED  BY <1>1, <2>1, Stacks
<1>. QED
  BY <1>3, <1>4, MakesLives

\* A closure is bound as a method: it and the class leave the stack.
LEMMA BindMethodLives == Lives /\ BindMethod => Lives'
<1> SUFFICES ASSUME Lives, BindMethod PROVE Lives'
  OBVIOUS
<1> DEFINE m == Stack[Len(Stack) - 1]
           c == [heap[Top] EXCEPT !.methods = @ \cup {m}]
           w == Put(heap, Top, c)
           f == Front(Front(Stack))
           r == [w[fiber] EXCEPT !.stack = f]
           V == Value(heap)
<1>1. /\ native.code = <<>> /\ native' = native /\ next' = next /\ UNCHANGED roots /\ dark' = dark
      /\ Len(Stack) > 2 /\ Top \in Allocated /\ heap[Top].kind = "class"
      /\ Opens(Len(Stack)) = {} /\ Opens(Len(Stack) - 1) = {}
      /\ heap' = [heap EXCEPT ![Top].methods = @ \cup {m},
                              ![fiber].stack = Front(Front(@))]
  BY DEF BindMethod, Starts, Ready, Is
<1>2. /\ fiber \in Allocated /\ heap[fiber].kind = "fiber" /\ heap[fiber] \in ObjFiber(V)
      /\ Stack \in Seq(V) /\ Stack # <<>>
      /\ \A u \in heap[fiber].openUpvalues :
           Has(heap, u, "upvalue") /\ heap[u].slot \in DOMAIN Stack
      /\ Good(heap, next, fiber)
  BY Running DEF Lives
<1>3. /\ f \in Seq(V) /\ f # <<>> /\ m \in V
      /\ \A i \in DOMAIN Stack : i \in DOMAIN f \/ i = Len(Stack) \/ i = Len(Stack) - 1
  <2> DEFINE g == Front(Stack)
  <2>1. /\ g \in Seq(V) /\ Len(g) = Len(Stack) - 1
        /\ \A i \in DOMAIN Stack : i \in DOMAIN g \/ i = Len(Stack)
    BY <1>2, InFront
  <2>2. Len(Stack) \in Nat /\ Len(Stack) - 1 \in DOMAIN Stack
    BY <1>1, <1>2
  <2> HIDE DEF g
  <2>3. g # <<>>
    BY <1>1, <2>1, <2>2
  <2>4. /\ Front(g) \in Seq(V) /\ Len(Front(g)) = Len(g) - 1
        /\ \A i \in DOMAIN g : i \in DOMAIN Front(g) \/ i = Len(g)
    BY <2>1, <2>3, InFront
  <2>5. Front(g) # <<>>
    BY <1>1, <2>1, <2>2, <2>4
  <2>6. m \in V
    BY <1>2, <2>2
  <2>. QED  BY <2>1, <2>4, <2>5, <2>6 DEF g
<1>4. c \in ObjClass(V) /\ c.kind = "class"
  <2>1. heap[Top] \in ObjClass(V)
    BY <1>1, <1>2, ValuesOf
  <2>. QED  BY <1>3, <2>1 DEF ObjClass
<1>5. c \in Obj(V, Past(next))
  BY <1>4 DEF Obj
<1> HIDE DEF c, f, m
<1>6. Good(w, next, fiber)
  BY <1>1, <1>2, <1>4, <1>5, WrittenGood DEF Allocated
<1>7. /\ DOMAIN w = Allocated /\ w[fiber] = heap[fiber] /\ Value(w) = V
      /\ \A o \in Allocated : heap[o].kind = "upvalue" => w[o] = heap[o]
  BY <1>1, <1>2 DEF Put, Allocated, Value
<1>8. /\ r \in ObjFiber(Value(w)) /\ r.kind = "fiber" /\ r.stack = f
      /\ r.frames = w[fiber].frames /\ r.openUpvalues = w[fiber].openUpvalues
      /\ r.caller = w[fiber].caller /\ r.root = w[fiber].root
  <2> HIDE DEF w
  <2>. QED  BY <1>2, <1>3, <1>7 DEF ObjFiber
<1>9. heap' = Put(w, fiber, r)
  <2>1. heap' = [w EXCEPT ![fiber].stack = Front(Front(@))]
    BY <1>1 DEF Put, c
  <2>2. Front(Front(w[fiber].stack)) = f
    BY <1>7 DEF f, Stack
  <2> HIDE DEF w
  <2>. QED  BY <2>1, <2>2 DEF Put
<1> HIDE DEF w
<1>10. \A u \in r.openUpvalues : w[u].slot \in DOMAIN f
  <2> SUFFICES ASSUME NEW u \in r.openUpvalues PROVE w[u].slot \in DOMAIN f
    OBVIOUS
  <2>1. u \in heap[fiber].openUpvalues
    BY <1>7, <1>8
  <2>2. Has(heap, u, "upvalue") /\ heap[u].slot \in DOMAIN Stack
        /\ heap[u].slot # Len(Stack) /\ heap[u].slot # Len(Stack) - 1
    BY <1>1, <1>2, <2>1 DEF Opens
  <2>3. w[u] = heap[u]
    BY <1>7, <2>2 DEF Has, Allocated
  <2>. QED  BY <1>3, <2>2, <2>3
<1> HIDE DEF r
<1>11. r \in Obj(Value(w), Past(next))
  BY <1>8 DEF Obj
<1>12. Good(Put(w, fiber, r), next, fiber)
  BY <1>2, <1>3, <1>6, <1>7, <1>8, <1>10, <1>11, WrittenGood
<1>13. Value(heap') = V
  BY <1>7, <1>9 DEF Put, Value
<1>. QED
  BY <1>1, <1>9, <1>12, <1>13, HeapLives

\* What scripts do with classes.
LEMMA ClassesLive == FInv /\ Lives /\ Classes => Lives'
<1> SUFFICES ASSUME FInv, Lives, Classes PROVE Lives'
  OBVIOUS
<1>1. \A i \in DOMAIN Stack : Stack[i] \in Value(heap)
  BY Stacks DEF Lives
<1>2. Top \in Value(heap)
  BY Stacks DEF Lives
<1>3. CASE Construct
  BY <1>2, <1>3, OneMadeLives DEF Construct
<1>4. ASSUME NEW i \in DOMAIN Stack, SetSlotNewForeign(i) PROVE Lives'
  BY <1>1, <1>4, OneMadeLives DEF SetSlotNewForeign
<1>. QED
  BY <1>3, <1>4, BindMethodLives, CreateClassLives, StoreLives DEF Classes

-----------------------------------------------------------------------------
(* Fibers call, yield and return.                                           *)

\* The caller of the running fiber is given a value.
LEMMA GivesGood ==
  ASSUME Good(heap, next, fiber), heap[fiber].caller # None, NEW v \in Value(heap)
  PROVE  LET c == heap[fiber].caller
             g == Gives(c, v)
         IN /\ Good(g, next, fiber) /\ DOMAIN g = Allocated
            /\ c # fiber /\ c \in Allocated /\ heap[c].kind = "fiber"
            /\ \A o \in Allocated : o # c => g[o] = heap[o]
<1> DEFINE c == heap[fiber].caller
           s == Append(Front(heap[c].stack), v)
           r == [heap[c] EXCEPT !.stack = s]
           V == Value(heap)
<1>1. fiber \in Allocated /\ heap[fiber].kind = "fiber"
  BY Running
<1>2. c # fiber /\ Has(heap, c, "fiber") /\ heap[c].frames # <<>>
  BY <1>1 DEF Good, Chained, Waits, Allocated
<1>3. /\ c \in Allocated /\ heap[c].kind = "fiber" /\ heap[c] \in ObjFiber(V)
      /\ heap[c].stack \in Seq(V) /\ heap[c].stack # <<>>
      /\ \A u \in heap[c].openUpvalues :
           Has(heap, u, "upvalue") /\ heap[u].fiber = c
  <2>1. c \in DOMAIN heap /\ heap[c].kind = "fiber"
    BY <1>2 DEF Has
  <2>2. heap[c] \in ObjFiber(V) /\ heap[c].stack \in Seq(V)
    BY <2>1, Made DEF Good, Sound
  <2>. QED  BY <1>2, <2>1, <2>2 DEF Good, Sound, Stacked, Opened, Allocated
<1> HIDE DEF c
<1>4. \A u \in heap[c].openUpvalues : heap[u].slot \in DOMAIN heap[c].stack
  <2> TAKE u \in heap[c].openUpvalues
  <2>1. u \in DOMAIN heap /\ heap[u].kind = "upvalue" /\ heap[u].fiber = c /\ c \in DOMAIN heap
    BY <1>3 DEF Has, Allocated
  <2>. QED  BY <2>1 DEF Good, Sound, Opened
<1>5. s \in Seq(V) /\ s # <<>> /\ DOMAIN heap[c].stack \subseteq DOMAIN s
  <2> DEFINE q == heap[c].stack
  <2>1. q \in Seq(V) /\ q # <<>>
    BY <1>3
  <2> HIDE DEF q, V
  <2>2. Front(q) \in Seq(V) /\ Len(Front(q)) = Len(q) - 1
    BY <2>1, InFront
  <2> DEFINE t == Front(q)
  <2> HIDE DEF t
  <2>3. t \in Seq(V) /\ Len(t) = Len(q) - 1 /\ Len(q) \in Nat /\ Len(t) \in Nat
    BY <2>1, <2>2 DEF t
  <2>4. Append(t, v) \in Seq(V) /\ Append(t, v) # <<>> /\ Len(Append(t, v)) = Len(t) + 1
    BY <2>3, InAppended DEF V
  <2>5. DOMAIN q = 1..Len(q) /\ DOMAIN Append(t, v) = 1..Len(q)
    BY <2>1, <2>3, <2>4
  <2>. QED  BY <2>4, <2>5 DEF q, t
<1> HIDE DEF s
<1>6. /\ r \in ObjFiber(V) /\ r.kind = "fiber" /\ r.stack = s /\ r.frames = heap[c].frames
      /\ r.openUpvalues = heap[c].openUpvalues /\ r.caller = heap[c].caller
      /\ r.root = heap[c].root
  BY <1>3, <1>5 DEF ObjFiber
<1>7. r \in Obj(V, Past(next))
  BY <1>6 DEF Obj
<1>8. Gives(c, v) = Put(heap, c, r)
  BY <1>3 DEF Gives, Put, s
<1> HIDE DEF r, V
<1>9. \A u \in r.openUpvalues : heap[u].slot \in DOMAIN r.stack
  BY <1>4, <1>5, <1>6
<1>10. Good(Put(heap, c, r), next, fiber)
  BY <1>3, <1>5, <1>6, <1>7, <1>9, WrittenGood DEF V, Allocated
<1>11. DOMAIN Put(heap, c, r) = Allocated /\ \A o \in Allocated : o # c
         => Put(heap, c, r)[o] = heap[o]
  BY DEF Put, Allocated
<1>. QED
  BY <1>2, <1>3, <1>8, <1>10, <1>11 DEF c

\* Another fiber runs, and nothing else changes.
LEMMA SwitchLives ==
  ASSUME Lives, Switches, DOMAIN heap' = Allocated, Good(heap', next, fiber')
  PROVE  Lives'
<1>1. /\ native.code = <<>> /\ native' = native /\ next' = next /\ modules' = modules
      /\ methodNames' = methodNames /\ handles' = handles /\ tempRoots' = tempRoots
      /\ compiler' = compiler /\ dark' = dark
  BY DEF Switches, Ready
<1>2. Value(heap') = Value(heap)
  BY DEF Value, Allocated
<1>3. modules \cup methodNames \subseteq Value(heap) /\ handles \in Seq(Value(heap))
        /\ 1 \in modules
  BY DEF Lives
<1>. QED
  BY <1>1, <1>2, <1>3, RestLives

\* What scripts do with fibers.
LEMMA FibersLive == FInv /\ Lives /\ Fibers => Lives'
<1> SUFFICES ASSUME FInv, Lives, Fibers PROVE Lives'
  OBVIOUS
<1> DEFINE caller == heap[fiber].caller
           V == Value(heap)
<1>1. Good(heap, next, fiber)
  BY DEF Lives
<1>2. Top \in V
  BY <1>1, Stacks
<1>3. fiber \in Allocated /\ heap[fiber].kind = "fiber" /\ heap[fiber] \in ObjFiber(V)
      /\ heap[fiber].openUpvalues \subseteq DOMAIN heap
      /\ \A u \in heap[fiber].openUpvalues : Has(heap, u, "upvalue")
  BY <1>1, Running DEF Has
<1>4. CASE FiberNew
  BY <1>2, <1>4, OneMadeLives DEF FiberNew
<1>5. CASE FiberCall
  <2> DEFINE g == Put(heap, Top, [heap[Top] EXCEPT !.caller = fiber])
  <2>1. /\ Switches /\ Has(heap, Top, "fiber") /\ Top # fiber /\ heap[Top].caller = None
        /\ ~heap[Top].root /\ heap[Top].frames # <<>>
        /\ heap' = [heap EXCEPT ![Top].caller = fiber] /\ fiber' = Top
    BY <1>5 DEF FiberCall, Is, Has, Allocated
  <2>2. Good(g, next, Top)
    BY <1>1, <2>1, Called
  <2>3. heap' = g
    BY <2>1 DEF Put
  <2>4. DOMAIN g = Allocated
    BY DEF Put, Allocated
  <2> HIDE DEF g
  <2>. QED  BY <2>1, <2>2, <2>3, <2>4, SwitchLives
<1>6. CASE FiberYield
  <2> DEFINE g == Gives(caller, Top)
             r == [g[fiber] EXCEPT !.caller = None]
  <2>1. /\ Switches /\ caller # None /\ fiber' = caller
        /\ heap' = [Gives(caller, Top) EXCEPT ![fiber].caller = None]
    BY <1>6 DEF FiberYield
  <2>2. /\ Good(g, next, fiber) /\ DOMAIN g = Allocated /\ caller # fiber
        /\ \A o \in Allocated : o # caller => g[o] = heap[o]
    BY <1>1, <1>2, <2>1, GivesGood
  <2>3. heap' = Put(g, fiber, r)
    BY <2>1 DEF Put
  <2>4. g[fiber] = heap[fiber] /\ Value(g) = V
    BY <1>3, <2>2 DEF Value, Allocated
  <2>5. /\ r \in ObjFiber(Value(g)) /\ r.caller = None /\ r.root = g[fiber].root
        /\ r.openUpvalues = g[fiber].openUpvalues /\ r.frames = g[fiber].frames
        /\ r.stack = g[fiber].stack /\ g[fiber].caller # None
    <3> HIDE DEF g
    <3>1. None \in V
      BY DEF Value
    <3>. QED  BY <1>3, <2>1, <2>4, <3>1 DEF ObjFiber
  <2> HIDE DEF r
  <2>6. /\ r.frames # <<>> => r.stack # <<>>
        /\ \A u \in r.openUpvalues : g[u].slot \in DOMAIN r.stack
    <3> HIDE DEF g
    <3>1. fiber \in DOMAIN g /\ g[fiber].kind = "fiber"
      BY <1>3, <2>2, <2>4
    <3>2. g[fiber].frames # <<>> => g[fiber].stack # <<>>
      BY <2>2, <3>1 DEF Good, Sound, Stacked
    <3>3. \A u \in g[fiber].openUpvalues : Has(g, u, "upvalue") /\ g[u].fiber = fiber
      BY <2>2, <3>1 DEF Good, Sound, Opened
    <3>4. \A u \in g[fiber].openUpvalues : g[u].slot \in DOMAIN g[fiber].stack
      <4> TAKE u \in g[fiber].openUpvalues
      <4>1. u \in DOMAIN g /\ g[u].kind = "upvalue" /\ g[u].fiber = fiber
        BY <3>3 DEF Has
      <4>. QED  BY <2>2, <3>1, <4>1 DEF Good, Sound, Opened
    <3>. QED  BY <2>5, <3>2, <3>4
  <2> HIDE DEF g
  <2>7. Good(Put(g, fiber, r), next, g[fiber].caller)
    BY <2>2, <2>5, <2>6, BackTo
  <2>8. DOMAIN heap' = Allocated
    BY <2>2, <2>3 DEF Put
  <2>. QED  BY <2>1, <2>3, <2>4, <2>7, <2>8, SwitchLives
<1>7. CASE FiberReturn
  <2> DEFINE open == heap[fiber].openUpvalues
             g == Gives(caller, Top)
             h == ShutIn(g, fiber, open)
             r == [heap[fiber] EXCEPT !.stack = <<>>, !.frames = <<>>, !.openUpvalues = {},
                                      !.caller = None]
  <2>1. /\ Switches /\ caller # None /\ fiber' = caller
        /\ heap' = [o \in Allocated |->
                      CASE o \in open -> Closed(open, fiber, 0)[o]
                        [] o = fiber -> [heap[o] EXCEPT !.stack = <<>>, !.frames = <<>>,
                                           !.openUpvalues = {}, !.caller = None]
                        [] o = caller -> Gives(caller, Top)[o]
                        [] OTHER -> heap[o]]
    BY <1>7 DEF FiberReturn
  <2>2. /\ Good(g, next, fiber) /\ DOMAIN g = Allocated /\ caller # fiber
        /\ caller \in Allocated /\ heap[caller].kind = "fiber"
        /\ \A o \in Allocated : o # caller => g[o] = heap[o]
    BY <1>1, <1>2, <2>1, GivesGood
  <2>3. g[fiber] = heap[fiber] /\ Value(g) = V
    BY <1>3, <2>2 DEF Value, Allocated
  <2>4. fiber \notin open /\ caller \notin open /\ open \subseteq Allocated
    BY <1>3, <2>2 DEF Has, Allocated
  <2> HIDE DEF g
  <2>5. /\ Good(h, next, fiber) /\ DOMAIN h = Allocated
        /\ h[fiber] = [heap[fiber] EXCEPT !.openUpvalues = @ \ open]
    <3>1. Has(g, fiber, "fiber") /\ open \in SUBSET g[fiber].openUpvalues
      BY <1>3, <2>2, <2>3 DEF Has
    <3> HIDE DEF open
    <3>. QED  BY <2>2, <2>3, <3>1, ClosedUp
  <2>6. heap' = Put(h, fiber, r)
    <3> HIDE DEF r, open
    <3>1. DOMAIN Put(h, fiber, r) = Allocated /\ DOMAIN heap' = Allocated
      BY <2>1, <2>5 DEF Put
    <3>2. ASSUME NEW o \in Allocated PROVE heap'[o] = Put(h, fiber, r)[o]
      <4>1. heap'[o] = IF o \in open THEN Closed(open, fiber, 0)[o]
                       ELSE IF o = fiber THEN r
                       ELSE IF o = caller THEN g[o] ELSE heap[o]
        BY <2>1, <2>2, <2>4 DEF g, r
      <4>2. o # fiber => Put(h, fiber, r)[o] = ClosedIn(g, fiber, open)[o]
        BY <2>2, <2>5 DEF Put, ShutIn, ClosedIn
      <4>3. o = fiber => Put(h, fiber, r)[o] = r
        BY <2>5 DEF Put
      <4>4. o \in open => Closed(open, fiber, 0)[o] = ClosedIn(g, fiber, open)[o]
        BY <2>2, <2>3, <2>4 DEF Closed, ClosedIn
      <4>5. o \notin open => ClosedIn(g, fiber, open)[o] = g[o]
        BY <2>2 DEF ClosedIn
      <4>6. o # caller => g[o] = heap[o]
        BY <2>2
      <4> HIDE DEF h
      <4>. QED  BY <2>4, <4>1, <4>2, <4>3, <4>4, <4>5, <4>6
    <3>3. heap' = [o \in Allocated |-> heap'[o]]
      <4> DEFINE e(o) == CASE o \in open -> Closed(open, fiber, 0)[o]
                           [] o = fiber -> [heap[o] EXCEPT !.stack = <<>>, !.frames = <<>>,
                                              !.openUpvalues = {}, !.caller = None]
                           [] o = caller -> Gives(caller, Top)[o]
                           [] OTHER -> heap[o]
      <4>1. heap' = [o \in Allocated |-> e(o)]
        BY <2>1
      <4> HIDE DEF e
      <4>. QED  BY <4>1
    <3>4. Put(h, fiber, r) = [o \in Allocated |-> Put(h, fiber, r)[o]]
      BY <2>5 DEF Put
    <3> HIDE DEF h
    <3>. QED  BY <3>2, <3>3, <3>4
  <2> HIDE DEF h
  <2>7. h[fiber].caller = caller /\ h[fiber].openUpvalues = {} /\ h[fiber].root = heap[fiber].root
        /\ Value(h) = V
    BY <1>3, <2>5 DEF ObjFiber, Value, Allocated
  <2>8. /\ r \in ObjFiber(Value(h)) /\ r.caller = None /\ r.root = h[fiber].root
        /\ r.openUpvalues = h[fiber].openUpvalues /\ r.frames = <<>>
    <3>1. None \in V /\ <<>> \in Seq(V)
      BY DEF Value
    <3> HIDE DEF V
    <3>. QED  BY <1>3, <2>7, <3>1 DEF ObjFiber
  <2> HIDE DEF r
  <2>9. Good(Put(h, fiber, r), next, caller)
    <3>1. \A u \in r.openUpvalues : h[u].slot \in DOMAIN r.stack
      BY <2>7, <2>8
    <3>2. Good(Put(h, fiber, r), next, h[fiber].caller)
      BY <2>1, <2>5, <2>7, <2>8, <3>1, BackTo
    <3>. QED  BY <2>7, <3>2
  <2>10. DOMAIN heap' = Allocated
    BY <2>1
  <2>. QED  BY <2>1, <2>6, <2>9, <2>10, SwitchLives
<1>. QED
  BY <1>4, <1>5, <1>6, <1>7 DEF Fibers

-----------------------------------------------------------------------------
(* Lists and maps.                                                          *)

\* An element or an entry is removed, and the C function goes on to push it.
LEMMA RemoveLives ==
  ASSUME Lives, Starts, NEW x \in Allocated, NEW rec \in Obj(Value(heap), Past(next)),
         rec.kind = heap[x].kind, rec.kind \in {"list", "map"}, heap' = Put(heap, x, rec),
         NEW n \in Holders, NEW v \in Value(heap),
         NEW code, NEW locals, Begin(code, locals), DOMAIN locals = {n}, locals[n] = v,
         NEW q \in States, Path(code, State(<<>>, {}, {n}, {}, FALSE), q), Ended(q),
         Says(code, n), n \notin Unrooted
  PROVE  Lives'
<1> DEFINE no == {}
           b == {n}
<1>1. /\ next' = next /\ fiber' = fiber /\ modules' = modules
      /\ methodNames' = methodNames /\ handles' = handles /\ tempRoots' = tempRoots
      /\ compiler' = compiler /\ dark' = dark
  BY DEF Starts, roots
<1>2. Good(heap', next, fiber) /\ DOMAIN heap' = Allocated
  BY PutGood DEF Lives
<1>3. Value(heap') = Value(heap)
  BY <1>2 DEF Value, Allocated
<1>4. /\ modules' \cup methodNames' \subseteq Value(heap') /\ handles' \in Seq(Value(heap'))
      /\ 1 \in modules' /\ Good(heap', next', fiber')
  BY <1>1, <1>2, <1>3 DEF Lives
<1>5. Path(code, State(<<>>, no, b, {}, FALSE), q)
  OBVIOUS
<1>6. no \subseteq LocalNames /\ b \subseteq LocalNames /\ b \cap {"upvalue", "fiber"} = {}
      /\ DOMAIN locals \subseteq Names(code)
  BY DEF Says, Holders
<1> HIDE DEF no, b
<1>7. ASSUME NEW m \in DOMAIN locals
      PROVE  /\ locals[m] \in IF m \in Unrooted THEN Past(next') ELSE Value(heap')
             /\ locals[m] = None \/ m \in no \cup b \cup Unrooted
             /\ m \in no => locals[m] \in Anchors'
             /\ m \in NeverMade /\ locals[m] \in DOMAIN heap' => heap'[locals[m]].kind = "class"
             /\ m \in StringNames => locals[m] = None
  BY <1>3 DEF no, b, Holders
<1>. QED
  <2>1. Given(locals, no, b)
    BY <1>7 DEF Given
  <2>. QED  BY <1>1, <1>4, <1>5, <1>6, <2>1, BeginLives

\* What is in a list or a map.
LEMMA Contents ==
  ASSUME Good(heap, next, fiber), NEW o \in Allocated
  PROVE  /\ heap[o].kind = "list" =>
              /\ heap[o].elements # <<>> => heap[o].elements[1] \in Value(heap)
              /\ \A v \in Value(heap) :
                   /\ [heap[o] EXCEPT !.elements = <<v>>] \in Obj(Value(heap), Past(next))
                   /\ [heap[o] EXCEPT !.elements = <<v>>].kind = "list"
                   /\ heap[o].elements # <<>> =>
                        LET r == [heap[o] EXCEPT !.elements = [@ EXCEPT ![1] = v]]
                        IN r \in Obj(Value(heap), Past(next)) /\ r.kind = "list"
              /\ [heap[o] EXCEPT !.elements = <<>>] \in Obj(Value(heap), Past(next))
              /\ [heap[o] EXCEPT !.elements = <<>>].kind = "list"
         /\ heap[o].kind = "map" =>
              /\ heap[o].entries # <<>> => heap[o].entries[1].value \in Value(heap)
              /\ \A v, w \in Value(heap) :
                   LET r == [heap[o] EXCEPT !.entries = <<[key |-> v, value |-> w]>>]
                   IN r \in Obj(Value(heap), Past(next)) /\ r.kind = "map"
              /\ [heap[o] EXCEPT !.entries = <<>>] \in Obj(Value(heap), Past(next))
              /\ [heap[o] EXCEPT !.entries = <<>>].kind = "map"
<1> DEFINE V == Value(heap)
           E == [key : V, value : V]
<1>1. heap[o].kind = "list" => heap[o] \in ObjList(V)
  BY ValuesOf
<1>2. heap[o].kind = "map" => heap[o] \in ObjMap(V)
  BY ValuesOf
<1>3. \A v, w \in V : [key |-> v, value |-> w] \in E
  OBVIOUS
<1>4. \A e \in E : e.value \in V
  OBVIOUS
<1>5. ObjMap(V) = [kind : {"map"}, entries : Seq(E)]
  BY DEF ObjMap
<1>6. ObjList(V) \subseteq Obj(V, Past(next)) /\ ObjMap(V) \subseteq Obj(V, Past(next))
  BY DEF Obj
<1> HIDE DEF V, E
<1>7. CASE heap[o].kind = "list"
  <2> DEFINE s == heap[o].elements
             r(t) == [heap[o] EXCEPT !.elements = t]
  <2>1. s \in Seq(V) /\ \A t \in Seq(V) : r(t) \in ObjList(V) /\ r(t).kind = "list"
    BY <1>1, <1>7 DEF ObjList
  <2>2. s # <<>> => s[1] \in V
    <3> HIDE DEF s
    <3>. QED  BY <2>1
  <2>3. \A v \in V : <<v>> \in Seq(V) /\ (s # <<>> => [s EXCEPT ![1] = v] \in Seq(V))
    <3> HIDE DEF s
    <3>. QED  BY <2>1
  <2>4. <<>> \in Seq(V)
    OBVIOUS
  <2> HIDE DEF r
  <2>5. \A v \in V : /\ r(<<v>>) \in Obj(V, Past(next)) /\ r(<<v>>).kind = "list"
                     /\ s # <<>> => /\ r([s EXCEPT ![1] = v]) \in Obj(V, Past(next))
                                    /\ r([s EXCEPT ![1] = v]).kind = "list"
    BY <1>6, <2>1, <2>3
  <2>6. r(<<>>) \in Obj(V, Past(next)) /\ r(<<>>).kind = "list"
    BY <1>6, <2>1, <2>4
  <2>. QED  BY <1>7, <2>2, <2>5, <2>6 DEF r, V
<1>8. CASE heap[o].kind = "map"
  <2> DEFINE s == heap[o].entries
             r(t) == [heap[o] EXCEPT !.entries = t]
  <2>1. s \in Seq(E) /\ \A t \in Seq(E) : r(t) \in ObjMap(V) /\ r(t).kind = "map"
    BY <1>2, <1>5, <1>8
  <2>2. s # <<>> => s[1].value \in V
    <3> HIDE DEF s
    <3>1. s # <<>> => s[1] \in E
      BY <2>1
    <3>. QED  BY <1>4, <3>1
  <2>3. \A v, w \in V : <<[key |-> v, value |-> w]>> \in Seq(E)
    <3> SUFFICES ASSUME NEW v \in V, NEW w \in V
                 PROVE  <<[key |-> v, value |-> w]>> \in Seq(E)
      OBVIOUS
    <3> DEFINE e == [key |-> v, value |-> w]
    <3>1. e \in E
      BY <1>3
    <3> HIDE DEF e
    <3>2. <<e>> \in Seq(E)
      BY <3>1
    <3>. QED  BY <3>2 DEF e
  <2>4. <<>> \in Seq(E)
    OBVIOUS
  <2> HIDE DEF r
  <2>5. \A v, w \in V : /\ r(<<[key |-> v, value |-> w]>>) \in Obj(V, Past(next))
                        /\ r(<<[key |-> v, value |-> w]>>).kind = "map"
    BY <1>6, <2>1, <2>3
  <2>6. r(<<>>) \in Obj(V, Past(next)) /\ r(<<>>).kind = "map"
    BY <1>6, <2>1, <2>4
  <2>. QED  BY <1>8, <2>2, <2>5, <2>6 DEF r, V
<1>. QED
  BY <1>7, <1>8

\* What scripts and hosts do with lists and maps.
LEMMA ContainersLive == FInv /\ Lives /\ Containers => Lives'
<1> SUFFICES ASSUME FInv, Lives, Containers PROVE Lives'
  OBVIOUS
<1> DEFINE V == Value(heap)
           no == {}
<1>1. Good(heap, next, fiber)
  BY DEF Lives
<1>2. None \in V /\ \A i \in DOMAIN Stack : Stack[i] \in V
  BY <1>1, Stacks DEF Value
<1>3. \A i \in DOMAIN Stack, v \in V :
        /\ Slot(i, v) \in Seq(V) /\ Slot(i, v) # <<>> /\ DOMAIN Stack \subseteq DOMAIN Slot(i, v)
  BY <1>1, Stacks
<1>4. ASSUME NEW i \in DOMAIN Stack, NEW v \in V, Starts, native' = native, SetStack(Slot(i, v))
      PROVE  Lives'
  <2> DEFINE s == Slot(i, v)
  <2>1. s \in Seq(V) /\ s # <<>> /\ DOMAIN Stack \subseteq DOMAIN s /\ SetStack(s)
    BY <1>3, <1>4
  <2> HIDE DEF s
  <2>. QED  BY <1>4, <2>1, StackLives
<1>5. \A i : Is(Stack[i], "list") => Stack[i] \in Allocated /\ heap[Stack[i]].kind = "list"
  BY DEF Is
<1>6. \A i : Is(Stack[i], "map") => Stack[i] \in Allocated /\ heap[Stack[i]].kind = "map"
  BY DEF Is
<1>7. ASSUME NEW i \in DOMAIN Stack, SetSlot(i) PROVE Lives'
  BY <1>2, <1>4, <1>7, OneMadeLives DEF SetSlot
<1>8. ASSUME NEW i \in DOMAIN Stack, NEW j \in DOMAIN Stack, GetListElement(i, j) PROVE Lives'
  <2>1. /\ Stack[i] \in Allocated /\ heap[Stack[i]].kind = "list"
        /\ heap[Stack[i]].elements # <<>>
    BY <1>5, <1>8 DEF GetListElement
  <2>2. heap[Stack[i]].elements[1] \in V
    BY <1>1, <2>1, Contents
  <2>. QED  BY <1>4, <1>8, <2>2 DEF GetListElement
<1>9. ASSUME NEW i \in DOMAIN Stack, NEW j \in DOMAIN Stack, GetMapValue(i, j) PROVE Lives'
  <2>1. Stack[i] \in Allocated /\ heap[Stack[i]].kind = "map" /\ heap[Stack[i]].entries # <<>>
    BY <1>6, <1>9 DEF GetMapValue
  <2>2. heap[Stack[i]].entries[1].value \in V
    BY <1>1, <2>1, Contents
  <2>. QED  BY <1>4, <1>9, <2>2 DEF GetMapValue
<1>10. ASSUME NEW i \in DOMAIN Stack, NEW j \in DOMAIN Stack, InsertInList(i, j) PROVE Lives'
  <2> DEFINE x == Stack[i]
             v == Stack[j]
             rec == [heap[x] EXCEPT !.elements = <<v>>]
  <2>1. /\ x \in Allocated /\ heap[x].kind = "list" /\ Starts /\ native' = native
        /\ heap' = Put(heap, x, rec)
    BY <1>5, <1>10 DEF InsertInList, Put
  <2>2. v \in V
    BY <1>2
  <2> HIDE DEF x, v
  <2>3. rec \in Obj(V, Past(next)) /\ rec.kind = "list"
    BY <1>1, <2>1, <2>2, Contents
  <2> HIDE DEF rec
  <2>. QED  BY <2>1, <2>3, ObjectLives
<1>11. ASSUME NEW i \in DOMAIN Stack, NEW j \in DOMAIN Stack, SetListElement(i, j) PROVE Lives'
  <2> DEFINE x == Stack[i]
             v == Stack[j]
             rec == [heap[x] EXCEPT !.elements = [@ EXCEPT ![1] = v]]
  <2>1. /\ x \in Allocated /\ heap[x].kind = "list" /\ Starts /\ native' = native
        /\ heap[x].elements # <<>> /\ heap' = Put(heap, x, rec)
    BY <1>5, <1>11 DEF SetListElement, Put
  <2>2. v \in V
    BY <1>2
  <2> HIDE DEF x, v
  <2>3. rec \in Obj(V, Past(next)) /\ rec.kind = "list"
    BY <1>1, <2>1, <2>2, Contents
  <2> HIDE DEF rec
  <2>. QED  BY <2>1, <2>3, ObjectLives
<1>12. ASSUME NEW i \in DOMAIN Stack, NEW j \in DOMAIN Stack, NEW k \in DOMAIN Stack,
              SetMapValue(i, j, k)
       PROVE  Lives'
  <2> DEFINE x == Stack[i]
             v == Stack[j]
             w == Stack[k]
             rec == [heap[x] EXCEPT !.entries = <<[key |-> v, value |-> w]>>]
  <2>1. /\ x \in Allocated /\ heap[x].kind = "map" /\ Starts /\ native' = native
        /\ heap' = Put(heap, x, rec)
    BY <1>6, <1>12 DEF SetMapValue, Put
  <2>2. v \in V /\ w \in V
    BY <1>2
  <2> HIDE DEF x, v, w
  <2>3. rec \in Obj(V, Past(next)) /\ rec.kind = "map"
    BY <1>1, <2>1, <2>2, Contents
  <2> HIDE DEF rec
  <2>. QED  BY <2>1, <2>3, ObjectLives
<1>13. ASSUME NEW i \in DOMAIN Stack, RemoveFromList(i) PROVE Lives'
  <2> DEFINE x == Stack[i]
             v == heap[x].elements[1]
             rec == [heap[x] EXCEPT !.elements = <<>>]
             locals == [removed |-> v]
             q == State(<<>>, {"removed"}, {}, {}, FALSE)
  <2>1. /\ x \in Allocated /\ heap[x].kind = "list" /\ Starts
        /\ heap[x].elements # <<>> /\ heap' = Put(heap, x, rec) /\ Begin(ListRemoveAt, locals)
    BY <1>5, <1>13 DEF RemoveFromList, Put
  <2> HIDE DEF x
  <2>2. v \in V /\ rec \in Obj(V, Past(next)) /\ rec.kind = "list"
    BY <1>1, <2>1, Contents
  <2> HIDE DEF v, rec
  <2>3. DOMAIN locals = {"removed"} /\ locals["removed"] = v
    OBVIOUS
  <2>4. q \in States /\ Ended(q)
    BY DEF States, State, Stages, LocalNames, Ended
  <2>5. Path(ListRemoveAt, State(<<>>, {}, {"removed"}, {}, FALSE), q)
        /\ Says(ListRemoveAt, "removed")
    BY RemovalPaths, SaidAtStart
  <2>6. "removed" \in Holders
          /\ "removed" \notin Unrooted
    BY DEF Holders, LocalNames, NeverMade, StringNames, Unrooted
  <2> HIDE DEF locals, q
  <2>. QED  BY <2>1, <2>2, <2>3, <2>4, <2>5, <2>6, RemoveLives
<1>14. ASSUME NEW i \in DOMAIN Stack, RemoveMapValue(i) PROVE Lives'
  <2> DEFINE x == Stack[i]
             v == heap[x].entries[1].value
             rec == [heap[x] EXCEPT !.entries = <<>>]
             locals == [value |-> v]
             q == State(<<>>, {"value"}, {}, {}, FALSE)
  <2>1. /\ x \in Allocated /\ heap[x].kind = "map" /\ Starts
        /\ heap[x].entries # <<>> /\ heap' = Put(heap, x, rec) /\ Begin(MapRemoveKey, locals)
    BY <1>6, <1>14 DEF RemoveMapValue, Put
  <2> HIDE DEF x
  <2>2. v \in V /\ rec \in Obj(V, Past(next)) /\ rec.kind = "map"
    BY <1>1, <2>1, Contents
  <2> HIDE DEF v, rec
  <2>3. DOMAIN locals = {"value"} /\ locals["value"] = v
    OBVIOUS
  <2>4. q \in States /\ Ended(q)
    BY DEF States, State, Stages, LocalNames, Ended
  <2>5. Path(MapRemoveKey, State(<<>>, {}, {"value"}, {}, FALSE), q)
        /\ Says(MapRemoveKey, "value")
    BY RemovalPaths, SaidAtStart
  <2>6. "value" \in Holders /\ "value" \notin Unrooted
    BY DEF Holders, LocalNames, NeverMade, StringNames, Unrooted
  <2> HIDE DEF locals, q
  <2>. QED  BY <2>1, <2>2, <2>3, <2>4, <2>5, <2>6, RemoveLives
<1>. QED
  BY <1>7, <1>8, <1>9, <1>10, <1>11, <1>12, <1>13, <1>14 DEF Containers

-----------------------------------------------------------------------------
(* Handles, ranges and sources.                                             *)

\* A handle is released.
LEMMA ReleaseLives ==
  ASSUME Lives, NEW k \in DOMAIN handles, ReleaseHandle(k)
  PROVE  Lives'
<1> DEFINE V == Value(heap)
           a == SubSeq(handles, 1, k - 1)
           b == SubSeq(handles, k + 1, Len(handles))
<1>1. handles \in Seq(V)
  BY DEF Lives
<1> HIDE DEF V
<1>2. k \in Nat /\ k >= 1 /\ k <= Len(handles) /\ Len(handles) \in Nat
  BY <1>1
<1>3. \A i \in 1..k - 1 : handles[i] \in V
  BY <1>1, <1>2
<1>4. \A i \in k + 1..Len(handles) : handles[i] \in V
  BY <1>1, <1>2
<1>5. a \in Seq(V)
  BY <1>2, <1>3, SubSeqProperties
<1>6. b \in Seq(V)
  BY <1>2, <1>4, SubSeqProperties
<1> HIDE DEF a, b
<1>7. a \o b \in Seq(V)
  BY <1>5, <1>6, ConcatProperties
<1>8. RemoveAt(handles, k) = a \o b
  BY DEF RemoveAt, a, b
<1>9. /\ native.code = <<>> /\ native' = native /\ heap' = heap /\ next' = next /\ fiber' = fiber
      /\ modules' = modules /\ methodNames' = methodNames /\ tempRoots' = tempRoots
      /\ compiler' = compiler /\ dark' = dark /\ handles' = RemoveAt(handles, k)
  BY DEF ReleaseHandle, Ready
<1>10. Good(heap', next', fiber') /\ modules' \cup methodNames' \subseteq Value(heap')
         /\ 1 \in modules'
  BY <1>9 DEF Lives
<1>. QED
  BY <1>7, <1>8, <1>9, <1>10, RestLives DEF V

\* A C function that begins without locals is called.
LEMMA BareCallLives ==
  ASSUME Lives, Starts, NEW code, Begin(code, <<>>), heap' = heap,
         NEW q \in States, Path(code, State(<<>>, {}, {}, {}, FALSE), q), Ended(q)
  PROVE  Lives'
<1> DEFINE no == {}
           locals == <<>>
<1>1. DOMAIN locals = {}
  OBVIOUS
<1>2. Begin(code, locals) /\ Path(code, State(<<>>, no, no, {}, FALSE), q)
  OBVIOUS
<1>3. no \subseteq LocalNames /\ no \cap {"upvalue", "fiber"} = {}
  OBVIOUS
<1> HIDE DEF no, locals
<1>. QED
  BY <1>1, <1>2, <1>3, CallLives

\* A C function that begins with one local is called.
LEMMA OneCallLives ==
  ASSUME Lives, Starts, heap' = heap, NEW n \in Holders,
         NEW v \in Value(heap), NEW code, NEW locals, Begin(code, locals),
         DOMAIN locals = {n}, locals[n] = v, Says(code, n),
         NEW k \in SUBSET {n}, NEW b \in SUBSET {n}, n \in k \cup b, n \in k => v \in Anchors,
         NEW q \in States, Path(code, State(<<>>, k, b, {}, FALSE), q), Ended(q)
  PROVE  Lives'
<1>1. k \in SUBSET LocalNames /\ b \in SUBSET LocalNames /\ b \cap {"upvalue", "fiber"} = {}
  BY DEF Holders
<1>2. DOMAIN locals \subseteq Names(code) /\ DOMAIN locals \cap NeverMade = {}
  BY DEF Says, Holders
<1>3. \A m \in DOMAIN locals :
        /\ locals[m] \in Value(heap)
        /\ locals[m] = None \/ m \in k \cup b
        /\ m \in k => locals[m] \in Anchors
        /\ m \in StringNames => locals[m] = None
  BY DEF Holders
<1>. QED
  BY <1>1, <1>2, <1>3, CallLives

\* What a host does with handles, and a script with ranges.
LEMMA HandlesLive == Lives /\ (Handles \/ Ranges) => Lives'
<1> SUFFICES ASSUME Lives, Handles \/ Ranges PROVE Lives'
  OBVIOUS
<1> DEFINE V == Value(heap)
<1>1. Good(heap, next, fiber) /\ handles \in Seq(V)
  BY DEF Lives
<1>2. CASE MakeCallHandle
  <2> DEFINE q == State(<<>>, {"closure"}, {}, {"method", "fn"}, FALSE)
  <2>1. Starts /\ Begin(WrenMakeCallHandle, <<>>) /\ heap' = heap
    BY <1>2 DEF MakeCallHandle
  <2>2. q \in States /\ Ended(q)
    BY DEF States, State, Stages, LocalNames, Ended
  <2>3. Path(WrenMakeCallHandle, State(<<>>, {}, {}, {}, FALSE), q)
    BY HandlePaths
  <2> HIDE DEF q
  <2>. QED  BY <2>1, <2>2, <2>3, BareCallLives
<1>3. ASSUME NEW k \in DOMAIN handles, ReleaseHandle(k) PROVE Lives'
  BY <1>3, ReleaseLives
<1>4. ASSUME NEW i \in DOMAIN Stack, GetSlotHandle(i) PROVE Lives'
  <2> DEFINE v == Stack[i]
             no == {}
             locals == [value |-> v]
             q == State(<<>>, {"value"}, {}, {}, FALSE)
  <2>1. Starts /\ Begin(WrenMakeHandle("value"), locals) /\ heap' = heap
    BY <1>4 DEF GetSlotHandle
  <2>2. v \in V
    BY <1>1, Stacks
  <2> HIDE DEF v
  <2>3. DOMAIN locals = {"value"} /\ locals["value"] = v
    OBVIOUS
  <2>4. q \in States /\ Ended(q)
    BY DEF States, State, Stages, LocalNames, Ended
  <2>5. Path(WrenMakeHandle("value"), State(<<>>, no, {"value"}, {}, FALSE), q)
        /\ Says(WrenMakeHandle("value"), "value")
    BY HandlePaths, SaidAtStart
  <2>6. "value" \in Holders
        /\ no \subseteq {"value"} /\ "value" \notin no
    BY DEF Holders, LocalNames, NeverMade, StringNames
  <2> HIDE DEF locals, q, no
  <2>. QED  BY <2>1, <2>2, <2>3, <2>4, <2>5, <2>6, OneCallLives
<1>5. ASSUME NEW i \in DOMAIN Stack, SetSlotHandle(i) PROVE Lives'
  <2>1. PICK v \in ToSet(handles) : SetStack(Slot(i, v))
    BY <1>5 DEF SetSlotHandle
  <2>2. v \in V
    <3> HIDE DEF V
    <3>. QED  BY <1>1, <2>1 DEF ToSet
  <2> DEFINE s == Slot(i, v)
  <2>3. s \in Seq(V) /\ s # <<>> /\ DOMAIN Stack \subseteq DOMAIN s /\ SetStack(s)
    BY <1>1, <2>1, <2>2, Stacks
  <2>4. Starts /\ native' = native
    BY <1>5 DEF SetSlotHandle
  <2> HIDE DEF s
  <2>. QED  BY <2>3, <2>4, StackLives
<1>6. CASE Ranges
  <2> DEFINE q == State(<<>>, {}, {"from", "to", "result"}, {}, FALSE)
  <2>1. Starts /\ Begin(RangeToString, <<>>) /\ heap' = heap
    BY <1>6 DEF Ranges, RangeString
  <2>2. q \in States /\ Ended(q)
    BY DEF States, State, Stages, LocalNames, Ended
  <2>3. Path(RangeToString, State(<<>>, {}, {}, {}, FALSE), q)
    BY RangePath
  <2> HIDE DEF q
  <2>. QED  BY <2>1, <2>2, <2>3, BareCallLives
<1>. QED
  BY <1>2, <1>3, <1>4, <1>5, <1>6 DEF Handles

\* Modules are imported, their variables read and sources interpreted.
LEMMA SourcesLive == Lives /\ Sources => Lives'
<1> SUFFICES ASSUME Lives, Sources PROVE Lives'
  OBVIOUS
<1> DEFINE V == Value(heap)
<1>1. CASE GetVariable
  <2> DEFINE v == heap[1].variables[1]
             no == {}
             code == <<Step("string", "moduleName", "")>> \o PushRoot("moduleName") \o PopRoot
                       \o <<Step("push", "value", "")>>
             locals == [value |-> v]
             q == State(<<>>, {"value"}, {"moduleName"}, {}, FALSE)
  <2>1. Starts /\ Begin(code, locals) /\ heap' = heap
    BY <1>1 DEF GetVariable
  <2>2. v \in V /\ v \in Anchors
    <3>1. Good(heap, next, fiber)
      BY DEF Lives
    <3>. QED  BY <3>1, Variable DEF Anchors
  <2>3. DOMAIN locals = {"value"} /\ locals["value"] = v
    OBVIOUS
  <2>4. q \in States /\ Ended(q)
    BY DEF States, State, Stages, LocalNames, Ended
  <2>5. Path(code, State(<<>>, {"value"}, no, {}, FALSE), q)
    BY RemovalPaths
  <2>6. Says(code, "value")
    BY SaidAtStart
  <2>7. "value" \in Holders
        /\ no \subseteq {"value"}
    BY DEF Holders, LocalNames, NeverMade, StringNames
  <2> HIDE DEF locals, q, no, code, v
  <2>. QED  BY <2>1, <2>2, <2>3, <2>4, <2>5, <2>6, <2>7, OneCallLives
<1>2. ASSUME NEW strings \in 0..2, Import(strings) PROVE Lives'
  <2> DEFINE q == State(<<>>, {}, {"closure"}, {"module", "token2", "fn", "name"}, FALSE)
  <2>1. Starts /\ Begin(ImportModule(strings), <<>>) /\ heap' = heap
    BY <1>2 DEF Import
  <2>2. q \in States /\ Ended(q)
    BY DEF States, State, Stages, LocalNames, Ended
  <2>3. Path(ImportModule(strings), State(<<>>, {}, {}, {}, FALSE), q)
    BY ImportPath
  <2> HIDE DEF q
  <2>. QED  BY <2>1, <2>2, <2>3, BareCallLives
<1>3. ASSUME NEW strings \in 0..2, Interpret(strings) PROVE Lives'
  <2> DEFINE q == State(<<>>, {}, {}, {"token2", "fn", "name", "closure", "fiber"}, FALSE)
             code == <<Step("string", "name", "")>> \o PushRoot("name") \o WrenCompile(strings)
                       \o PushRoot("fn") \o <<Step("closure", "closure", "fn")>> \o PopRoot
                       \o PopRoot \o PushRoot("closure") \o Grow("closure")
                       \o <<Step("fiber", "fiber", "closure")>> \o PopRoot
                       \o <<Step("enter", "fiber", "")>>
  <2>1. Starts /\ Begin(code, <<>>) /\ heap' = heap
    BY <1>3 DEF Interpret
  <2>2. q \in States /\ Ended(q)
    BY DEF States, State, Stages, LocalNames, Ended
  <2>3. Path(code, State(<<>>, {}, {}, {}, FALSE), q)
    BY InterpretPath
  <2> HIDE DEF q, code
  <2>. QED  BY <2>1, <2>2, <2>3, BareCallLives
<1>. QED
  BY <1>1, <1>2, <1>3 DEF Sources

-----------------------------------------------------------------------------
(* A collection.                                                            *)

\* What a collection leaves: a good heap, with all that the collector begins with
\* and all that the stack, the handles, the compilers and the module have.
LEMMA CollectLeaves ==
  ASSUME FInv, Lives, CollectGarbage
  PROVE  /\ Good(heap', next, fiber) /\ Value(heap') \subseteq Value(heap)
         /\ \A o \in DOMAIN heap' : heap'[o] = heap[o]
         /\ (modules \cup methodNames \cup compiler \cup ToSet(handles) \cup ToSet(tempRoots))
              \cap Value(heap) \subseteq Value(heap')
         /\ handles \in Seq(Value(heap'))
         /\ Anchors \subseteq Value(heap') /\ Anchors' = Anchors
<1> DEFINE s == GrayRoots
           m == BlackenObjects(s)
           V == Value(heap)
<1>1. /\ Good(heap, next, fiber) /\ dark = {} /\ 1 \in modules
      /\ modules \cup methodNames \cup compiler \subseteq V /\ handles \in Seq(V)
  BY DEF Lives
<1>2. /\ heap' = Without(Allocated \ m) /\ fiber' = fiber /\ handles' = handles
      /\ compiler' = compiler
  BY DEF CollectGarbage, roots
<1>3. None \notin Allocated /\ None \in V
  BY <1>1 DEF Good, Sound, Ranged, Allocated, Value
<1>4. /\ s \subseteq Allocated /\ fiber \in s /\ 1 \in s
      /\ (modules \cup methodNames \cup compiler \cup ToSet(handles) \cup ToSet(tempRoots)) \cap V
           \subseteq s \cup {None}
  <2>1. fiber \in Allocated /\ 1 \in Allocated
    BY <1>1, Running, Variable
  <2>2. s = ((modules \cup ToSet(tempRoots) \cup {fiber} \cup ToSet(handles)
                \cup compiler \cup methodNames) \ {None}) \cap Allocated
    BY <1>1 DEF GrayRoots, GrayObj, MarkCompiler, Objects
  <2>3. V = Allocated \cup {None}
    BY DEF Value, Allocated
  <2> HIDE DEF s, V
  <2>. QED  BY <1>1, <1>3, <2>1, <2>2, <2>3
<1>5. /\ s \subseteq m /\ m \subseteq Allocated
      /\ \A o \in m : Objects(BlackenObject(o)) \cap Allocated \subseteq m
  <2>1. MaxObjects \in Nat /\ Allocated \subseteq 1..MaxObjects
    <3>1. /\ script \in Scripts /\ next \in Nat \ {0} /\ next <= MaxObjects + 1
          /\ Allocated \subseteq 1..next - 1
      BY DEF FInv, Numbered
    <3>2. MaxObjects \in Nat
      BY <3>1, HeapAssumption DEF MaxObjects
    <3>3. 1..next - 1 \subseteq 1..MaxObjects
      BY <3>1, <3>2
    <3>. QED  BY <3>1, <3>2, <3>3
  <2> HIDE DEF s
  <2>. QED  BY <1>1, <1>4, <2>1, Marks
<1> HIDE DEF m, s
<1>6. heap' = [o \in m |-> heap[o]]
  BY <1>2, <1>5 DEF Without
<1>7. Good(heap', next, fiber)
  <2>1. fiber \in m /\ 1 \in m
    BY <1>4, <1>5
  <2>. QED  BY <1>1, <1>5, <1>6, <2>1, Freed
<1>8. DOMAIN heap' = m /\ \A o \in m : heap'[o] = heap[o]
  BY <1>6
<1>9. Value(heap') = m \cup {None}
  BY <1>8 DEF Value
<1>10. (modules \cup methodNames \cup compiler \cup ToSet(handles) \cup ToSet(tempRoots)) \cap V
         \subseteq Value(heap')
  BY <1>4, <1>5, <1>9
<1>11. handles \in Seq(Value(heap'))
  <2> DEFINE W == Value(heap')
  <2>1. \A i \in 1..Len(handles) : handles[i] \in W
    <3> TAKE i \in 1..Len(handles)
    <3> HIDE DEF V
    <3>1. handles[i] \in ToSet(handles) /\ handles[i] \in V
      BY <1>1 DEF ToSet
    <3>. QED  BY <1>10, <3>1
  <2> HIDE DEF W, V
  <2>2. handles = [i \in 1..Len(handles) |-> handles[i]] /\ Len(handles) \in Nat
    BY <1>1
  <2>3. handles \in [1..Len(handles) -> W]
    BY <2>1, <2>2
  <2>4. handles \in Seq(W)
    BY <2>2, <2>3
  <2>. QED  BY <2>4 DEF W
<1>12. Anchors \subseteq Value(heap')
  <2>1. compiler \cup ToSet(handles) \subseteq Value(heap')
    <3> HIDE DEF V
    <3>1. ToSet(handles) \subseteq V
      BY <1>1 DEF ToSet
    <3>. QED  BY <1>1, <1>10, <3>1
  <2>2. ToSet(heap[fiber].stack) \subseteq Value(heap')
    <3>1. fiber \in m /\ heap[fiber].kind = "fiber"
      BY <1>1, <1>4, <1>5, Running
    <3>2. ToSet(heap[fiber].stack) \subseteq BlackenObject(fiber)
      BY <3>1 DEF BlackenObject, BlackenFiber
    <3>3. ToSet(heap[fiber].stack) \subseteq V
      <4>1. Stack \in Seq(V)
        BY <1>1, Running
      <4> HIDE DEF V
      <4>. QED  BY <4>1 DEF Stack, ToSet
    <3>. QED  BY <1>5, <1>9, <3>1, <3>2, <3>3 DEF Objects, Value, Allocated
  <2>3. ToSet(heap[1].variables) \subseteq Value(heap')
    <3>1. 1 \in m /\ heap[1].kind = "module" /\ heap[1] \in ObjModule(V)
      BY <1>1, <1>4, <1>5, Variable
    <3>2. ToSet(heap[1].variables) \subseteq BlackenObject(1)
      BY <3>1 DEF BlackenObject, BlackenModule
    <3>3. ToSet(heap[1].variables) \subseteq V
      <4> HIDE DEF V
      <4>. QED  BY <3>1 DEF ObjModule, ToSet
    <3>. QED  BY <1>5, <1>9, <3>1, <3>2, <3>3 DEF Objects, Value, Allocated
  <2>. QED  BY <1>9, <2>1, <2>2, <2>3 DEF Anchors
<1>13. Anchors' = Anchors
  <2>1. heap'[fiber] = heap[fiber] /\ heap'[1] = heap[1]
    BY <1>4, <1>5, <1>8
  <2>. QED  BY <1>2, <2>1 DEF Anchors
<1>14. Value(heap') \subseteq V
  BY <1>5, <1>9 DEF Value, Allocated
<1>. QED
  BY <1>7, <1>8, <1>10, <1>11, <1>12, <1>13, <1>14

\* A collection frees nothing that is still used.
LEMMA CollectLives == FInv /\ Lives /\ CollectGarbage => Lives'
<1> SUFFICES ASSUME FInv, Lives, CollectGarbage PROVE Lives'
  OBVIOUS
<1> DEFINE V == Value(heap)
           W == Value(heap')
<1>1. /\ MayCollect /\ dark' = {} /\ native' = native /\ next' = next /\ fiber' = fiber
      /\ modules' = modules /\ methodNames' = methodNames /\ handles' = handles
      /\ tempRoots' = tempRoots /\ compiler' = compiler
  BY DEF CollectGarbage, Unmarked, roots
<1>2. /\ Good(heap', next, fiber) /\ W \subseteq V
      /\ \A o \in DOMAIN heap' : heap'[o] = heap[o]
      /\ (modules \cup methodNames \cup compiler \cup ToSet(handles) \cup ToSet(tempRoots)) \cap V
           \subseteq W
      /\ handles \in Seq(W)
      /\ Anchors \subseteq W /\ Anchors' = Anchors
  BY CollectLeaves
<1>3. /\ modules \cup methodNames \cup compiler \subseteq V /\ 1 \in modules /\ dark = {}
      /\ DOMAIN native.locals \subseteq Names(native.code)
  BY DEF Lives
<1>4. modules \cup methodNames \cup compiler \subseteq W
  BY <1>2, <1>3
<1>5. CASE native.code = <<>>
  <2>1. dark' = dark
    BY <1>1, <1>3
  <2>. QED  BY <1>1, <1>2, <1>3, <1>4, <1>5, <2>1, RestLives
<1>6. CASE native.code # <<>>
  <2>1. PICK p \in States, q \in States :
          Path(native.code, p, q) /\ Ended(q) /\ Stands(p) /\ Serves(p)
    BY DEF Lives, Leads
  <2>2. p.bare = {}
    <3>1. \E r \in States : Follows(Head(native.code), p, r)
      BY <1>6, <2>1, PathNow
    <3>2. Head(native.code).do \in Allocating
      BY <1>1, <1>6 DEF MayCollect
    <3>. QED  BY <3>1, <3>2 DEF Follows, Allots
  <2>3. None \notin DOMAIN heap' /\ None \in W /\ None \in Past(next)
    BY <1>2 DEF Good, Sound, Ranged, Value, Past
  <2>4. \A n : Local(n)' = Local(n)
    BY <1>1 DEF Local
  <2>5. Names(native.code)' = Names(native.code)
    BY <1>1
  <2>6. ASSUME NEW n \in LocalNames \ p.dead, n \notin Unrooted
        PROVE  Local(n) \in W
    <3>1. Local(n) \in V
      BY <2>1, <2>6 DEF Stands
    <3>2. CASE n \notin Set(p)
      BY <2>1, <2>3, <3>2 DEF Stands
    <3>3. CASE n \in p.kept
      BY <1>2, <2>1, <3>3 DEF Stands
    <3>4. CASE n \in ToSet(p.roots)
      <4>1. p.roots \in Seq(LocalNames)
        BY DEF States
      <4>2. PICK i \in 1..Len(p.roots) : p.roots[i] = n
        BY <3>4, <4>1 DEF ToSet
      <4>3. CASE n \in Names(native.code)
        <5>1. tempRoots[i] = Local(n) /\ Len(tempRoots) = Len(p.roots)
          BY <2>1, <4>2, <4>3 DEF Stands
        <5>2. PICK T : tempRoots \in Seq(T)
          BY DEF FInv, Rooted
        <5>3. Local(n) \in ToSet(tempRoots)
          BY <4>2, <5>1, <5>2 DEF ToSet
        <5>. QED  BY <1>2, <3>1, <5>3
      <4>4. CASE n \notin Names(native.code)
        <5>1. Local(n) = None
          BY <1>3, <4>4 DEF Local
        <5>. QED  BY <2>3, <5>1
      <4>. QED  BY <4>3, <4>4
    <3>. QED  BY <2>2, <2>6, <3>2, <3>3, <3>4 DEF Set
  <2>7. Stands(p)'
    <3>1. /\ Len(tempRoots') = Len(p.roots)
          /\ \A i \in 1..Len(p.roots) :
               p.roots[i] \in Names(native'.code) => tempRoots'[i] = Local(p.roots[i])'
      BY <1>1, <2>1, <2>4 DEF Stands
    <3>2. \A n \in LocalNames \ p.dead :
            /\ Local(n)' \in IF n \in Unrooted THEN Past(next') ELSE W
            /\ n \notin Set(p) => Local(n)' = None
            /\ n \in p.kept => Local(n)' \in Anchors'
      BY <1>1, <1>2, <2>1, <2>4, <2>6 DEF Stands
    <3>3. \A n \in NeverMade : Local(n)' \in DOMAIN heap' => heap'[Local(n)'].kind = "class"
      <4> TAKE n \in NeverMade
      <4>1. DOMAIN heap' \subseteq Allocated
        BY <1>2, <2>3 DEF Value, Allocated
      <4>. QED  BY <1>2, <2>1, <2>4, <4>1 DEF Stands
    <3>4. compiler' # {} => p.source
      BY <1>1, <2>1 DEF Stands
    <3>. QED  BY <2>2, <3>1, <3>2, <3>3, <3>4 DEF Stands, Allocated
  <2>8. DOMAIN heap' \subseteq Allocated
    BY <1>2, <2>3 DEF Value, Allocated
  <2>9. Serves(p)'
    <3>1. \A o, kind : Has(heap, o, kind) => (o \in DOMAIN heap' => Has(heap', o, kind))
      BY <1>2 DEF Has
    <3>2. ASSUME NEW i \in 1..Len(p.roots)
          PROVE  /\ tempRoots'[i] \in Past(next')
                 /\ p.roots[i] \in StringNames =>
                      (tempRoots'[i] \in DOMAIN heap' => Has(heap', tempRoots'[i], "string"))
      <4>1. /\ tempRoots[i] \in Past(next)
            /\ p.roots[i] \in StringNames =>
                 (tempRoots[i] \in Allocated => Has(heap, tempRoots[i], "string"))
        BY <2>1 DEF Serves
      <4>. QED  BY <1>1, <2>8, <3>1, <4>1
    <3>3. \A n \in StringNames : Local(n)' \in DOMAIN heap' => Has(heap', Local(n)', "string")
      <4> TAKE n \in StringNames
      <4>1. Local(n) \in Allocated => Has(heap, Local(n), "string")
        BY <2>1 DEF Serves
      <4>. QED  BY <2>4, <2>8, <3>1, <4>1
    <3>4. ASSUME "classObj" \in Names(native.code), p.stage # "none"
          PROVE  /\ Has(heap', ClassObj, "class")
                 /\ p.stage = "linked" =>
                      \A i \in 1..Len(p.roots) :
                        p.roots[i] = "metaclass" => tempRoots'[i] = heap'[ClassObj].class
      <4>1. /\ Has(heap, ClassObj, "class")
            /\ p.stage = "linked" =>
                 \A i \in 1..Len(p.roots) :
                   p.roots[i] = "metaclass" => tempRoots[i] = heap[ClassObj].class
        BY <2>1, <3>4 DEF Serves
      <4>2. "classObj" \in LocalNames \ p.dead /\ "classObj" \notin Unrooted
        BY <2>1, <3>4, DeadUnnamed DEF Unrooted
      <4>3. ClassObj \in W /\ ClassObj # None
        BY <2>6, <4>1, <4>2 DEF Lives, Good, Sound, Ranged, ClassObj, Has
      <4>4. ClassObj \in DOMAIN heap' /\ heap'[ClassObj] = heap[ClassObj]
        BY <1>2, <4>3 DEF Value
      <4>. QED  BY <1>1, <4>1, <4>4 DEF Has
    <3>5. ClassObj' = ClassObj
      BY <2>4 DEF ClassObj
    <3>. QED  BY <2>5, <3>2, <3>3, <3>4, <3>5 DEF Serves, Allocated
  <2>10. Leads(native'.code, p)
    BY <1>1, <2>1 DEF Leads
  <2>. QED  BY <1>1, <1>2, <1>3, <1>4, <2>7, <2>9, <2>10 DEF Lives
<1>. QED
  BY <1>5, <1>6

\* When the machine is freed nothing is left.
LEMMA FreeLeaves ==
  ASSUME Lives, FreeVM
  PROVE  LInv'
<1>1. /\ native.code = <<>> /\ native' = native /\ handles' = <<>> /\ compiler' = compiler
      /\ heap' = Without(Allocated) /\ fiber' = None /\ modules' = {} /\ methodNames' = {}
  BY DEF FreeVM, Ready
<1>2. compiler = {} /\ DOMAIN native.locals = {}
  BY <1>1, Calm
<1>3. DOMAIN heap' = {}
  BY <1>1 DEF Without
<1>. QED
  BY <1>1, <1>2, <1>3 DEF LInv, Over, Allocated

-----------------------------------------------------------------------------
(* The invariant holds.                                                     *)

\* Any step keeps it while the machine runs.
LEMMA StepLives == FInv /\ Lives /\ fiber # None /\ Next => LInv'
<1> SUFFICES ASSUME FInv, Lives, fiber # None, Next PROVE LInv'
  OBVIOUS
<1>1. ASSUME Lives' PROVE LInv'
  <2>1. fiber' # None
    BY <1>1 DEF Lives, Good, Sound, Ranged, Chained, Waits, Has
  <2>. QED  BY <1>1, <2>1 DEF LInv
<1>2. CASE CollectGarbage
  BY <1>1, <1>2, CollectLives
<1>3. CASE NativeStep
  BY <1>1, <1>3, NativeLives
<1>4. CASE Load \/ StoreModuleVar \/ Pop
  BY <1>1, <1>4, LoadLives, StoreLives, PopLives
<1>5. CASE Classes \/ Closures \/ Fibers \/ Containers
  BY <1>1, <1>5, ClassesLive, ClosuresLive, FibersLive, ContainersLive
<1>6. CASE Ranges \/ Handles \/ Sources
  BY <1>1, <1>6, HandlesLive, SourcesLive
<1>7. CASE FreeVM
  BY <1>7, FreeLeaves
<1>. QED
  BY <1>2, <1>3, <1>4, <1>5, <1>6, <1>7 DEF Next

\* When it was freed it takes no step.
LEMMA NoStepLeft == FInv /\ Over /\ fiber = None => ~Next
<1> SUFFICES ASSUME FInv, Over, fiber = None, Next PROVE FALSE
  OBVIOUS
<1>1. native.code = <<>>
  BY DEF Over
<1>2. ~CollectGarbage /\ ~Ready
  BY DEF CollectGarbage, Ready
<1>3. NativeStep
  BY <1>2 DEF Next
<1>. QED
  BY <1>1, <1>3 DEF NativeStep, Allocate, Reallocate, Root, Write, Publish, Push, CaptureUpvalue,
     Doing

\* Every step keeps the invariant.
LEMMA StepKeepsLife == FInv /\ LInv /\ [Next]_vars => LInv'
<1> SUFFICES ASSUME FInv, LInv, [Next]_vars PROVE LInv'
  OBVIOUS
<1>1. CASE Next
  BY <1>1, StepLives, NoStepLeft DEF LInv
<1>2. CASE UNCHANGED vars
  <2>1. /\ heap' = heap /\ next' = next /\ fiber' = fiber /\ modules' = modules
        /\ methodNames' = methodNames /\ handles' = handles /\ tempRoots' = tempRoots
        /\ compiler' = compiler /\ dark' = dark /\ native' = native
    BY <1>2 DEF vars, roots
  <2>2. Over' = Over
    BY <2>1 DEF Over, Allocated
  <2>3. ASSUME NEW p PROVE Stands(p)' = Stands(p) /\ Serves(p)' = Serves(p)
    <3>1. Anchors' = Anchors /\ \A n : Local(n)' = Local(n)
      BY <2>1 DEF Anchors, Local
    <3>2. ClassObj' = ClassObj
      BY <3>1 DEF ClassObj
    <3>3. Stands(p)' = Stands(p)
      BY <2>1, <3>1 DEF Stands, Allocated
    <3>4. Serves(p)' = Serves(p)
      BY <2>1, <3>1, <3>2 DEF Serves, Allocated
    <3>. QED  BY <3>3, <3>4
  <2>4. Lives' = Lives
    BY <2>1, <2>3 DEF Lives
  <2>. QED  BY <2>1, <2>2, <2>4 DEF LInv
<1>. QED
  BY <1>1, <1>2

\* It holds at first.
LEMMA LivesAtFirst == Init => LInv
<1> SUFFICES ASSUME Init PROVE LInv
  OBVIOUS
<1>1. PICK foreign \in BOOLEAN :
        heap = <<NewModule(None), [NewFiber(None) EXCEPT !.stack = <<None, 4>>, !.root = TRUE],
                 NewSingleClass(None),
                 [NewSingleClass(None) EXCEPT !.class = 3, !.foreign = foreign]>>
  BY DEF Init
<1> DEFINE V == Value(heap)
<1>2. DOMAIN heap = 1..4
  BY <1>1
<1>3. /\ next = 5 /\ fiber = 2 /\ modules = {1} /\ methodNames = {} /\ handles = <<>>
      /\ tempRoots = <<>> /\ compiler = {} /\ dark = {}
      /\ native.code = <<>> /\ native.locals = <<>>
  BY DEF Init, Idle
<1>4. Ranged(heap, next) /\ fiber # None
  <2>1. script.objects \in Nat /\ script.objects >= 4 /\ None \notin 1..script.objects
    BY HeapAssumption DEF Init
  <2>2. None \notin 1..4 /\ 1..4 = 1..5 - 1 /\ 2 \in 1..4
    BY <2>1
  <2>. QED  BY <1>2, <1>3, <2>2 DEF Ranged
<1>5. /\ heap[1] = [kind |-> "module", name |-> None, variables |-> <<None>>]
      /\ heap[2] = [kind |-> "fiber", stack |-> <<None, 4>>, frames |-> <<None>>,
                    openUpvalues |-> {}, caller |-> None, root |-> TRUE]
      /\ heap[3] = [kind |-> "class", class |-> None, superclass |-> None, name |-> None,
                    methods |-> {}, foreign |-> FALSE]
      /\ heap[4] = [kind |-> "class", class |-> 3, superclass |-> None, name |-> None,
                    methods |-> {}, foreign |-> foreign]
  BY <1>1 DEF NewModule, NewFiber, NewSingleClass
<1>6. None \in V /\ 3 \in V /\ 4 \in V
  BY <1>2 DEF Value
<1>7. \A o \in DOMAIN heap : o = 1 \/ o = 2 \/ o = 3 \/ o = 4
  BY <1>2
<1> HIDE DEF V
<1>8. /\ heap[1] \in ObjModule(V) /\ heap[2] \in ObjFiber(V)
      /\ heap[3] \in ObjClass(V) /\ heap[4] \in ObjClass(V)
  <2>1. heap[1] \in ObjModule(V)
    <3>1. <<None>> \in [{1} -> V]
      BY <1>6
    <3>. QED  BY <1>5, <1>6, <3>1 DEF ObjModule
  <2>2. heap[2] \in ObjFiber(V)
    <3>1. <<None, 4>> \in Seq(V) /\ <<None>> \in Seq(V)
      BY <1>6
    <3>. QED  BY <1>5, <1>6, <3>1 DEF ObjFiber
  <2>3. heap[3] \in ObjClass(V) /\ heap[4] \in ObjClass(V)
    BY <1>5, <1>6 DEF ObjClass
  <2>. QED  BY <2>1, <2>2, <2>3
<1>9. Typed(heap, next)
  BY <1>7, <1>8 DEF Typed, Obj, V
<1>10. \A o \in DOMAIN heap : heap[o].kind \notin {"closure", "upvalue"}
  BY <1>5, <1>7
<1>11. \A o \in DOMAIN heap : heap[o].kind = "fiber" => o = 2
  BY <1>5, <1>7
<1>12. Captures(heap)
  BY <1>10 DEF Captures
<1>13. Opened(heap)
  BY <1>5, <1>10, <1>11 DEF Opened
<1>14. Stacked(heap)
  BY <1>5, <1>11 DEF Stacked
<1>15. Has(heap, 1, "module") /\ Has(heap, 2, "fiber")
  BY <1>2, <1>5 DEF Has
<1>16. Chained(heap, fiber)
  BY <1>3, <1>5, <1>11, <1>15 DEF Chained, Waits
<1>17. Good(heap, next, fiber)
  BY <1>4, <1>9, <1>12, <1>13, <1>14, <1>15, <1>16 DEF Good, Sound
<1>18. /\ modules \cup methodNames \cup compiler \subseteq Value(heap)
       /\ handles \in Seq(Value(heap)) /\ 1 \in modules
  BY <1>2, <1>3 DEF Value
<1> DEFINE p == State(<<>>, {}, {}, {}, FALSE)
<1>19. /\ p \in States /\ p.roots = <<>> /\ p.kept = {} /\ p.bare = {} /\ ~p.source
       /\ p.live = {} /\ p.stage = "none"
  BY DEF States, State, Stages
<1> HIDE DEF p
<1>20. DOMAIN native.locals = {} /\ Len(tempRoots) = 0 /\ Len(p.roots) = 0 /\ 1..Len(p.roots) = {}
  BY <1>3, <1>19
<1>21. Leads(native.code, p)
  BY <1>3, <1>19, PathNone DEF Leads, Ended
<1>22. \A n : Local(n) = None
  BY <1>20 DEF Local
<1>23. None \in Value(heap) /\ None \in Past(next) /\ None \notin Allocated
  BY <1>4 DEF Value, Past, Ranged, Allocated
<1>24. Stands(p)
  <2>1. \A n \in LocalNames \ p.dead :
          /\ Local(n) \in IF n \in Unrooted THEN Past(next) ELSE Value(heap)
          /\ n \notin Set(p) => Local(n) = None
          /\ n \in p.kept => Local(n) \in Anchors
    BY <1>19, <1>22, <1>23
  <2>2. \A n \in NeverMade : Local(n) \in Allocated => heap[Local(n)].kind = "class"
    BY <1>22, <1>23
  <2>. QED  BY <1>3, <1>19, <1>20, <2>1, <2>2 DEF Stands
<1>25. Serves(p)
  BY <1>19, <1>20, <1>22, <1>23 DEF Serves
<1>26. Lives
  BY <1>3, <1>17, <1>18, <1>19, <1>20, <1>21, <1>24, <1>25 DEF Lives
<1>. QED
  BY <1>4, <1>26 DEF LInv

\* Whatever is collected and whenever, an object that the script, the host or a C
\* function still uses is there, but for the four pointers that the collector is
\* known to miss.
THEOREM NothingElseDangles == Spec => []OnlyKnownDangling
<1>1. Init => FInv /\ LInv
  BY Started, LivesAtFirst
<1>2. (FInv /\ LInv) /\ [Next]_vars => (FInv /\ LInv)'
  BY StepKeeps, StepKeepsLife
<1>3. FInv /\ LInv => OnlyKnownDangling
  BY LivesIsSafe
<1>. QED
  BY <1>1, <1>2, <1>3, PTL DEF Spec

-----------------------------------------------------------------------------
(* What a collection frees.                                                *)

\* A local that is live is named.
LEMMA LiveNamed ==
  ASSUME NEW code, NEW p, NEW q, Path(code, p, q), q.live = {}
  PROVE  p.live \subseteq Names(code)
<1> SUFFICES ASSUME NEW x \in p.live, x \notin Names(code) PROVE FALSE
  OBVIOUS
<1>1. PICK S \in [1..Len(code) + 1 -> States] :
        /\ S[1] = p /\ S[Len(code) + 1] = q
        /\ \A k \in 1..Len(code) : Follows(code[k], S[k], S[k + 1])
  BY DEF Path
<1>2. Len(code) \in Nat /\ DOMAIN code = 1..Len(code)
  BY DEF Path
<1>3. ASSUME NEW k \in 1..Len(code), x \in S[k].live
      PROVE  x \in S[k + 1].live
  <2>1. x # code[k].x /\ x # code[k].y
    BY <1>2 DEF Names
  <2>2. S[k].live \subseteq {code[k].x, code[k].y} \cup S[k + 1].live
    BY <1>1 DEF Follows, Lasts
  <2>. QED  BY <1>3, <2>1, <2>2
<1> DEFINE n == Len(code) + 1
           Lacking == {k \in 1..n : x \notin S[k].live}
<1>4. n \in Lacking
  BY <1>1, <1>2
<1>5. PICK k \in Lacking : \A l \in Lacking : k <= l
  <2>1. Lacking \in SUBSET Nat
    BY <1>2
  <2> HIDE DEF Lacking, n
  <2>. QED  BY <1>4, <2>1, LeastExists
<1>6. k # 1 /\ k \in 1..n /\ x \notin S[k].live
  BY <1>1, <1>5
<1>7. k - 1 \in 1..Len(code) /\ k - 1 \in 1..n /\ (k - 1) + 1 = k /\ ~(k <= k - 1)
  BY <1>2, <1>6
<1>8. k - 1 \notin Lacking
  BY <1>5, <1>7
<1>. QED
  BY <1>3, <1>6, <1>7, <1>8

\* What is one pointer further.
Farther(x) == x \cup UNION {Pointers(o) : o \in x \cap Allocated}

Ways(g) ==
  g = [n \in 0..MaxObjects |->
         IF n = 0 THEN Held
         ELSE LET nearer == g[n - 1]
              IN nearer \cup UNION {Pointers(o) : o \in nearer \cap Allocated}]

\* The last round is all that can be got to.
LEMMA LastWay == Reachable = (CHOOSE g : Ways(g))[MaxObjects]
  BY DEF Reachable, Ways

\* No pointer is to an object that is yet to be made.
LEMMA PointersPast ==
  ASSUME Good(heap, next, fiber), NEW o \in Allocated
  PROVE  Pointers(o) \subseteq 1..next - 1
<1>1. Allocated \subseteq 1..next - 1 /\ heap[o] \in Obj(Value(heap), Past(next))
  BY DEF Good, Sound, Ranged, Typed, Allocated
<1>2. ASSUME NEW x \in Pointers(o), Unfollowed(o, x)
      PROVE  x \in 1..next - 1
  <2>1. x # None
    BY DEF Pointers, Objects
  <2>2. x \in Past(next)
    BY <1>1, <1>2, KindsApart DEF Unfollowed, ObjForeign, ObjUpvalue
  <2>. QED  BY <2>1, <2>2 DEF Past
<1>. QED
  BY <1>1, <1>2, KnownPointers

\* What is held is there, or was.
LEMMA HeldPast ==
  ASSUME Lives
  PROVE  Held \subseteq 1..next - 1
<1>1. Value(heap) \subseteq Past(next)
  BY DEF Lives, Good, Sound, Ranged, Value, Past
<1>2. fiber \in Past(next) /\ modules \cup methodNames \cup compiler \subseteq Past(next)
  <2>1. fiber \in Value(heap)
    BY DEF Lives, Good, Chained, Waits, Has, Value
  <2>. QED  BY <1>1, <2>1 DEF Lives
<1>3. ToSet(handles) \subseteq Past(next)
  <2>1. ToSet(handles) \subseteq Value(heap)
    BY DEF Lives, ToSet
  <2>. QED  BY <1>1, <2>1
<1>4. ASSUME NEW x \in DOMAIN native.locals
      PROVE  native.locals[x] \in Past(next)
  <2>1. PICK p \in States : Leads(native.code, p) /\ Stands(p)
    BY DEF Lives
  <2>2. x \in LocalNames \ p.dead
    BY <2>1, DeadUnnamed DEF Lives, Leads
  <2>. QED  BY <1>1, <2>1, <2>2 DEF Stands, Local
<1>. QED
  BY <1>2, <1>3, <1>4 DEF Held, Locals, Objects, Past

\* Whatever an object that can be got to points at can be got to.
LEMMA Reaches ==
  ASSUME FInv, Lives
  PROVE  /\ Held \subseteq Reachable
         /\ \A o \in Reachable \cap Allocated : Pointers(o) \subseteq Reachable
<1> DEFINE U == 1..MaxObjects
           N == [x \in SUBSET U |-> Farther(x)]
           s == Held
           g == CHOOSE f : Ways(f)
<1>1. MaxObjects \in Nat /\ 1..next - 1 \subseteq U
  <2>1. script \in Scripts /\ next \in Nat \ {0} /\ next <= MaxObjects + 1
    BY DEF FInv, Numbered
  <2>2. MaxObjects \in Nat
    BY <2>1, HeapAssumption DEF MaxObjects
  <2>. QED  BY <2>1, <2>2
<1>2. /\ N \in [SUBSET U -> SUBSET U]
      /\ \A x \in SUBSET U : x \subseteq N[x] /\ N[x] = Farther(x)
  <2>1. \A o \in Allocated : Pointers(o) \subseteq U
    BY <1>1, PointersPast DEF Lives
  <2> HIDE DEF U
  <2>2. \A x \in SUBSET U : x \subseteq Farther(x) /\ Farther(x) \in SUBSET U
    BY <2>1 DEF Farther
  <2>. QED  BY <2>2
<1>3. s \in SUBSET U
  BY <1>1, HeldPast
<1>4. Ways(g)
  <2>1. PICK f : Rounded(f, U, N, s, MaxObjects)
    <3> HIDE DEF N, U, s
    <3>. QED  BY <1>1, <1>2, <1>3, Iterated
  <2>2. /\ f \in [0..MaxObjects -> SUBSET U]
        /\ \A n \in 0..MaxObjects : f[n] = IF n = 0 THEN s ELSE N[f[n - 1]]
    BY <2>1 DEF Rounded
  <2> HIDE DEF N, s
  <2>3. \A n \in 0..MaxObjects : f[n] = IF n = 0 THEN s ELSE Farther(f[n - 1])
    <3> TAKE n \in 0..MaxObjects
    <3>1. n # 0 => n - 1 \in 0..MaxObjects
      BY <1>1
    <3>2. n # 0 => f[n - 1] \in SUBSET U
      BY <2>2, <3>1
    <3>. QED  BY <1>2, <2>2, <3>2
  <2>4. f = [n \in 0..MaxObjects |-> f[n]]
    BY <2>2
  <2>5. f = [n \in 0..MaxObjects |-> IF n = 0 THEN s ELSE Farther(f[n - 1])]
    BY <2>3, <2>4
  <2>6. Ways(f)
    BY <2>5 DEF Ways, Farther, s
  <2>. QED  BY <2>6
<1> HIDE DEF g
<1>5. Growing(g, U, N, s, MaxObjects)
  <2>1. g = [n \in 0..MaxObjects |-> IF n = 0 THEN s ELSE Farther(g[n - 1])]
    BY <1>4 DEF Ways, Farther
  <2> HIDE DEF N, s
  <2>2. \A n \in 0..MaxObjects : g[n] = IF n = 0 THEN s ELSE Farther(g[n - 1])
    BY <2>1
  <2>3. 0 \in 0..MaxObjects
    BY <1>1
  <2>4. ASSUME NEW n \in 1..MaxObjects PROVE g[n] = Farther(g[n - 1])
    BY <1>1, <2>2
  <2>. QED  BY <1>2, <2>2, <2>3, <2>4 DEF Growing
<1>6. IsFiniteSet(U) /\ Cardinality(U) <= MaxObjects
  <2>1. IsFiniteSet(U) /\ Cardinality(U) = MaxObjects
    BY <1>1, FS_Interval
  <2>. QED  BY <1>1, <2>1
<1> DEFINE x == g[MaxObjects]
<1>7. x \in SUBSET U /\ s \subseteq x /\ N[x] = x
  <2>1. \A y \in SUBSET U : y \subseteq N[y]
    BY <1>2
  <2> HIDE DEF N, U, s
  <2>. QED  BY <1>1, <1>2, <1>3, <1>5, <1>6, <2>1, Settled
<1>8. Reachable = x
  BY LastWay DEF g
<1>9. Farther(x) = x
  <2> HIDE DEF N, x
  <2>. QED  BY <1>2, <1>7
<1>10. \A o \in x \cap Allocated : Pointers(o) \subseteq x
  <2> HIDE DEF x
  <2>. QED  BY <1>9 DEF Farther
<1>. QED
  BY <1>7, <1>8, <1>10

\* What is marked in an object it points at.
LEMMA MarkedPointers ==
  ASSUME Good(heap, next, fiber), NEW o \in Allocated
  PROVE  Objects(BlackenObject(o)) \subseteq Pointers(o)
<1> DEFINE r == heap[o]
<1>1. r \in Obj(Value(heap), Past(next))
  BY DEF Good, Sound, Typed, Allocated
<1>2. r.kind \in {"string", "class", "instance", "foreign", "list", "map", "module", "fn",
                  "closure", "upvalue", "fiber"}
  BY <1>1, KindsApart
<1>3. CASE r.kind = "instance"
  <2>1. ToSet(r.fields) = {r.fields[1]}
    BY <1>1, <1>3, KindsApart DEF ObjInstance, ToSet
  <2>. QED  BY <1>3, <2>1 DEF BlackenObject, BlackenInstance, Pointers, Objects
<1>4. CASE r.kind = "class"
  BY <1>4 DEF BlackenObject, BlackenClass, Pointers, Objects
<1>5. CASE r.kind \in {"string", "foreign"}
  BY <1>5 DEF BlackenObject, BlackenForeign, Objects
<1>6. CASE r.kind = "list"
  BY <1>6 DEF BlackenObject, BlackenList, Pointers, Objects
<1>7. CASE r.kind = "map"
  BY <1>7 DEF BlackenObject, BlackenMap, Pointers, Objects
<1>8. CASE r.kind = "module"
  BY <1>8 DEF BlackenObject, BlackenModule, Pointers, Objects
<1>9. CASE r.kind = "fn"
  BY <1>9 DEF BlackenObject, BlackenFn, Pointers, Objects
<1>10. CASE r.kind = "closure"
  BY <1>10 DEF BlackenObject, BlackenClosure, Pointers, Objects
<1>11. CASE r.kind = "upvalue"
  BY <1>11 DEF BlackenObject, BlackenUpvalue, Pointers, Objects
<1>12. CASE r.kind = "fiber"
  BY <1>12 DEF BlackenObject, BlackenFiber, Pointers, Objects
<1>. QED
  BY <1>2, <1>3, <1>4, <1>5, <1>6, <1>7, <1>8, <1>9, <1>10, <1>11, <1>12

\* A temporary root is a string when something is allocated, or can be got to.
LEMMA RootsHeld ==
  ASSUME FInv, Lives, MayCollect, NEW v \in ToSet(tempRoots), v \in Allocated
  PROVE  v \in Reachable \/ Has(heap, v, "string")
<1>1. native.code # <<>>
  <2>1. ASSUME native.code = <<>> PROVE FALSE
    <3>1. Len(tempRoots) = 0
      BY <2>1, Calm
    <3>2. ToSet(tempRoots) = {}
      <4>1. PICK T : tempRoots \in Seq(T)
        BY DEF FInv, Rooted
      <4>. QED  BY <3>1, <4>1 DEF ToSet
    <3>. QED  BY <3>2
  <2>. QED  BY <2>1
<1>2. PICK p \in States, q \in States :
        Path(native.code, p, q) /\ Ended(q) /\ Stands(p) /\ Serves(p)
  BY DEF Lives, Leads
<1>3. PICK r \in States : Follows(Now, p, r) /\ Path(Tail(native.code), r, q)
  BY <1>1, <1>2, PathNow DEF Now
<1> DEFINE Later == {Now.x, Now.y} \cup r.live
<1>4. Later \subseteq Names(native.code)
  <2>1. native.code \in Seq(Steps)
    BY <1>2 DEF Path
  <2>2. r.live \subseteq Names(Tail(native.code))
    BY <1>2, <1>3, LiveNamed DEF Ended
  <2>3. {Now.x, Now.y} \cup Names(Tail(native.code)) \subseteq Names(native.code)
    BY <1>1, <2>1, NamesFollow DEF Now
  <2>. QED  BY <2>2, <2>3
<1>5. /\ ToSet(p.roots) \subseteq
           Later \cup StringNames \cup IF p.stage = "linked" THEN {"metaclass"} ELSE {}
      /\ p.stage = "linked" => "classObj" \in Later
  <2>1. Now.do \in Allocating
    BY <1>1 DEF MayCollect, Now
  <2>. QED  BY <1>3, <2>1 DEF Follows, Lasts
<1>6. None \notin Allocated
  BY DEF Lives, Good, Sound, Ranged, Allocated
<1>7. ASSUME NEW n, Local(n) \in Allocated
      PROVE  Local(n) \in Reachable
  <2>1. Local(n) \in Locals
    BY <1>6, <1>7 DEF Local, Locals
  <2>2. Local(n) \in Held
    BY <1>6, <1>7, <2>1 DEF Held, Objects
  <2>. QED  BY <2>2, Reaches
<1>8. PICK i \in 1..Len(p.roots) : tempRoots[i] = v
  <2>1. PICK T : tempRoots \in Seq(T)
    BY DEF FInv, Rooted
  <2>2. Len(tempRoots) = Len(p.roots)
    BY <1>2 DEF Stands
  <2>. QED  BY <2>1, <2>2 DEF ToSet
<1> DEFINE n == p.roots[i]
<1>9. n \in ToSet(p.roots)
  <2>1. p.roots \in Seq(LocalNames)
    BY DEF States
  <2>. QED  BY <2>1 DEF ToSet
<1>10. CASE n \in Later
  <2>1. tempRoots[i] = Local(n)
    BY <1>2, <1>4, <1>10 DEF Stands
  <2>. QED  BY <1>7, <1>8, <2>1
<1>11. CASE n \in StringNames
  BY <1>2, <1>8, <1>11 DEF Serves
<1>12. CASE p.stage = "linked" /\ n = "metaclass"
  <2>1. "classObj" \in Names(native.code)
    BY <1>4, <1>5, <1>12
  <2>2. Has(heap, ClassObj, "class") /\ v = heap[ClassObj].class
    BY <1>2, <1>8, <1>12, <2>1 DEF Serves
  <2>3. ClassObj \in Reachable \cap Allocated
    BY <1>7, <2>2 DEF ClassObj, Has, Allocated
  <2>4. v \in Pointers(ClassObj)
    BY <1>6, <2>2 DEF Pointers, Objects, Has
  <2>. QED  BY <2>3, <2>4, Reaches
<1>. QED
  BY <1>5, <1>9, <1>10, <1>11, <1>12

\* What a collection keeps can be got to, or is a string that is a temporary root.
LEMMA CollectsUnheld ==
  ASSUME FInv, Lives, CollectGarbage
  PROVE  DOMAIN heap' \subseteq Reachable \cup ToSet(tempRoots)
<1> DEFINE s == GrayRoots
           m == BlackenObjects(s)
           T == {v \in ToSet(tempRoots) : Has(heap, v, "string")}
           X == Reachable \cup T
<1>1. DOMAIN heap' = Allocated \ (Allocated \ m)
  BY DEF CollectGarbage, Without
<1>2. MayCollect /\ Good(heap, next, fiber) /\ dark = {}
  BY DEF CollectGarbage, Lives
<1>3. MaxObjects \in Nat /\ Allocated \subseteq 1..MaxObjects
  <2>1. /\ script \in Scripts /\ next \in Nat \ {0} /\ next <= MaxObjects + 1
        /\ Allocated \subseteq 1..next - 1
    BY DEF FInv, Numbered
  <2>2. MaxObjects \in Nat
    BY <2>1, HeapAssumption DEF MaxObjects
  <2>3. 1..next - 1 \subseteq 1..MaxObjects
    BY <2>1, <2>2
  <2>. QED  BY <2>1, <2>2, <2>3
<1>4. s \subseteq Allocated /\ s \subseteq X
  <2>1. s \subseteq Allocated
    BY DEF GrayRoots, GrayObj
  <2>2. ASSUME NEW v \in s PROVE v \in X
    <3>1. /\ v \in modules \cup ToSet(tempRoots) \cup {fiber} \cup ToSet(handles)
                     \cup compiler \cup methodNames
          /\ v # None /\ v \in Allocated
      BY DEF GrayRoots, GrayObj, MarkCompiler, Objects
    <3>2. CASE v \in ToSet(tempRoots)
      BY <1>2, <3>1, <3>2, RootsHeld
    <3>3. CASE v \notin ToSet(tempRoots)
      <4>1. v \in Held
        BY <3>1, <3>3 DEF Held, Objects
      <4>. QED  BY <4>1, Reaches
    <3>. QED  BY <3>2, <3>3
  <2>. QED  BY <2>1, <2>2
<1>5. ASSUME NEW o \in X \cap Allocated
      PROVE  Objects(BlackenObject(o)) \cap Allocated \subseteq X
  <2>1. CASE o \in Reachable
    BY <1>2, <2>1, MarkedPointers, Reaches
  <2>2. CASE o \in T
    <3>1. BlackenObject(o) = {}
      BY <2>2 DEF BlackenObject, Has
    <3>. QED  BY <3>1 DEF Objects
  <2>. QED  BY <2>1, <2>2
<1>6. m \subseteq X
  <2> HIDE DEF s, X
  <2>. QED  BY <1>2, <1>3, <1>4, <1>5, Marks
<1>. QED
  BY <1>1, <1>6

\* Nothing is freed.
KeepsAll == Allocated \subseteq DOMAIN heap'

\* An object that is added leaves the others.
LEMMA WithAll ==
  ASSUME NEW r
  PROVE  Allocated \subseteq DOMAIN With(r) /\ DOMAIN With(r) = Allocated \cup {next}
  BY DEF With

\* A C function frees nothing.
LEMMA NativeFreesNothing == NativeStep => KeepsAll
<1> SUFFICES ASSUME NativeStep PROVE KeepsAll
  OBVIOUS
<1>1. CASE Allocate
  <2>1. \E r : heap' = With(r)
    BY <1>1 DEF Allocate
  <2>. QED  BY <2>1, WithAll DEF KeepsAll
<1>2. CASE Reallocate \/ Root
  BY <1>2 DEF Reallocate, Root, KeepsAll, Allocated
<1>3. CASE Write
  BY <1>3 DEF Write, KeepsAll, Allocated
<1>4. CASE Publish
  BY <1>4 DEF Publish, KeepsAll, Allocated
<1>5. CASE Push
  BY <1>5 DEF Push, KeepsAll, Allocated
<1>6. CASE CaptureUpvalue
  <2>1. CASE heap' = heap
    BY <2>1 DEF KeepsAll, Allocated
  <2>2. ASSUME NEW i, heap' = [With(NewUpvalue(fiber, i)) EXCEPT
                                  ![fiber].openUpvalues = @ \cup {next}]
        PROVE  KeepsAll
    <3>1. DOMAIN heap' = DOMAIN With(NewUpvalue(fiber, i))
      BY <2>2
    <3>. QED  BY <3>1, WithAll DEF KeepsAll
  <2>. QED  BY <1>6, <2>1, <2>2 DEF CaptureUpvalue
<1>. QED
  BY <1>1, <1>2, <1>3, <1>4, <1>5, <1>6 DEF NativeStep

\* So does one whose number is put on the stack.
LEMMA MakesAll ==
  ASSUME NEW r, NEW s, Makes(r, s)
  PROVE  KeepsAll
<1>1. DOMAIN heap' = DOMAIN With(r)
  BY DEF Makes
<1>. QED
  BY <1>1, WithAll DEF KeepsAll

\* And so does what is put on the stack.
LEMMA StackAll ==
  ASSUME NEW s, SetStack(s)
  PROVE  KeepsAll
  BY DEF SetStack, KeepsAll, Allocated

\* Nor does an instruction or a function of the host, but for wrenFreeVM().
LEMMA InstructionFreesNothing ==
  Load \/ StoreModuleVar \/ Pop \/ Classes \/ Closures => KeepsAll
<1>1. CASE Load
  BY <1>1, StackAll DEF Load
<1>2. CASE StoreModuleVar
  BY <1>2 DEF StoreModuleVar, KeepsAll, Allocated
<1>3. CASE Pop
  <2>1. DOMAIN heap' = DOMAIN Closed(Opens(Len(Stack)), fiber, 0)
    BY <1>3 DEF Pop
  <2>. QED  BY <2>1 DEF Closed, KeepsAll
<1>4. CASE Classes
  <2>1. CASE Construct
    BY <2>1, MakesAll DEF Construct
  <2>2. CASE BindMethod
    BY <2>2 DEF BindMethod, KeepsAll, Allocated
  <2>3. CASE \E foreign \in BOOLEAN : CreateClass(foreign)
    BY <2>3, StackAll DEF CreateClass
  <2>4. ASSUME NEW i \in DOMAIN Stack, StoreField(i) PROVE KeepsAll
    BY <2>4 DEF StoreField, KeepsAll, Allocated
  <2>5. ASSUME NEW i \in DOMAIN Stack, SetSlotNewForeign(i) PROVE KeepsAll
    BY <2>5, MakesAll DEF SetSlotNewForeign
  <2>. QED  BY <1>4, <2>1, <2>2, <2>3, <2>4, <2>5 DEF Classes
<1>5. CASE Closures
  <2>1. CASE CodeClosure
    BY <2>1 DEF CodeClosure, KeepsAll, Allocated
  <2>2. CASE CallClosure
    BY <2>2, StackAll DEF CallClosure
  <2>. QED  BY <1>5, <2>1, <2>2 DEF Closures
<1>. QED
  BY <1>1, <1>2, <1>3, <1>4, <1>5

\* Fibers that wait are not freed, nor are those that have returned.
LEMMA FibersFreeNothing == Fibers => KeepsAll
<1>1. CASE FiberNew
  BY <1>1, MakesAll DEF FiberNew
<1>2. CASE FiberCall
  BY <1>2 DEF FiberCall, KeepsAll, Allocated
<1>3. CASE FiberYield
  <2>1. DOMAIN heap' = DOMAIN Gives(heap[fiber].caller, Top)
    BY <1>3 DEF FiberYield
  <2>. QED  BY <2>1 DEF Gives, KeepsAll, Allocated
<1>4. CASE FiberReturn
  BY <1>4 DEF FiberReturn, KeepsAll
<1>. QED
  BY <1>1, <1>2, <1>3, <1>4 DEF Fibers

\* The host and the primitives of containers free nothing.
LEMMA HostFreesNothing == Containers \/ Ranges \/ Handles \/ Sources => KeepsAll
<1>0. heap' = heap => KeepsAll
  BY DEF KeepsAll, Allocated
<1>1. CASE Containers
  <2>1. PICK i \in DOMAIN Stack :
          \/ SetSlot(i) \/ RemoveFromList(i) \/ RemoveMapValue(i)
          \/ \E j \in DOMAIN Stack :
               \/ InsertInList(i, j) \/ GetListElement(i, j)
               \/ SetListElement(i, j) \/ GetMapValue(i, j)
               \/ \E k \in DOMAIN Stack : SetMapValue(i, j, k)
    BY <1>1 DEF Containers
  <2>2. CASE SetSlot(i)
    BY <2>2, StackAll, MakesAll DEF SetSlot
  <2>3. CASE RemoveFromList(i) \/ RemoveMapValue(i)
    BY <2>3 DEF RemoveFromList, RemoveMapValue, KeepsAll, Allocated
  <2>4. ASSUME NEW j \in DOMAIN Stack, InsertInList(i, j) \/ SetListElement(i, j) PROVE KeepsAll
    BY <2>4 DEF InsertInList, SetListElement, KeepsAll, Allocated
  <2>5. ASSUME NEW j \in DOMAIN Stack, GetListElement(i, j) \/ GetMapValue(i, j) PROVE KeepsAll
    BY <2>5, StackAll DEF GetListElement, GetMapValue
  <2>6. ASSUME NEW j \in DOMAIN Stack, NEW k \in DOMAIN Stack, SetMapValue(i, j, k) PROVE KeepsAll
    BY <2>6 DEF SetMapValue, KeepsAll, Allocated
  <2>. QED  BY <2>1, <2>2, <2>3, <2>4, <2>5, <2>6
<1>2. CASE Ranges
  BY <1>0, <1>2 DEF Ranges, RangeString
<1>3. CASE Handles
  <2>1. CASE MakeCallHandle
    BY <1>0, <2>1 DEF MakeCallHandle
  <2>2. ASSUME NEW k, ReleaseHandle(k) PROVE KeepsAll
    BY <1>0, <2>2 DEF ReleaseHandle
  <2>3. ASSUME NEW i, GetSlotHandle(i) PROVE KeepsAll
    BY <1>0, <2>3 DEF GetSlotHandle
  <2>4. ASSUME NEW i, SetSlotHandle(i) PROVE KeepsAll
    BY <2>4, StackAll DEF SetSlotHandle
  <2>. QED  BY <1>3, <2>1, <2>2, <2>3, <2>4 DEF Handles
<1>4. CASE Sources
  BY <1>0, <1>4 DEF Sources, GetVariable, Import, Interpret
<1>. QED
  BY <1>1, <1>2, <1>3, <1>4

\* A step frees nothing, or it is a collection, or the machine is gone.
LEMMA OnlyCollects ==
  ASSUME FInv, LInv, [Next]_vars, fiber' # None, ~(Allocated \subseteq DOMAIN heap')
  PROVE  DOMAIN heap' \subseteq Reachable \cup ToSet(tempRoots)
<1>1. ~KeepsAll
  BY DEF KeepsAll
<1>2. Next
  <2>1. UNCHANGED vars => KeepsAll
    BY DEF vars, KeepsAll, Allocated
  <2>. QED  BY <1>1, <2>1
<1>3. Lives
  BY <1>2, NoStepLeft DEF LInv
<1>4. ~FreeVM
  BY DEF FreeVM
<1>5. CollectGarbage
  BY <1>1, <1>2, <1>4, NativeFreesNothing, InstructionFreesNothing, FibersFreeNothing,
     HostFreesNothing DEF Next
<1>. QED
  BY <1>3, <1>5, CollectsUnheld

\* A collection frees everything that the script, the host and the C function in
\* progress cannot get to, but for what is a temporary root.
THEOREM GarbageCollected == Spec => CollectsAll
<1>1. Init => FInv /\ LInv
  BY Started, LivesAtFirst
<1>2. (FInv /\ LInv) /\ [Next]_vars => (FInv /\ LInv)'
  BY StepKeeps, StepKeepsLife
<1>3. (FInv /\ LInv) /\ [Next]_vars
        => [fiber' # None /\ ~(Allocated \subseteq DOMAIN heap')
              => DOMAIN heap' \subseteq Reachable \cup ToSet(tempRoots)]_vars
  BY OnlyCollects
<1>. QED
  BY <1>1, <1>2, <1>3, PTL DEF Spec, CollectsAll

=============================================================================

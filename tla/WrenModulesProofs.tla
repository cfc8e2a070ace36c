------------------------- MODULE WrenModulesProofs -------------------------
(***************************************************************************)
(* Proofs about WrenModules, for any modules, names and depth of calls.     *)
(*                                                                         *)
(* Data is inductive on its own but for the place of the running code,      *)
(* which Calls supplies: the shape of a sequence of frames.  A frame that   *)
(* is in the middle of an import statement has the body of the module it    *)
(* names right above it; with that, and with bodies that do not return      *)
(* early, the top frame finds in lastModule the module it imports.          *)
(***************************************************************************)
EXTENDS WrenModules, SequenceTheorems, TLAPS

\* Frames that stand on each other as calls, imports and evaluated sources leave
\* them.
Stacked(s, registered) ==
  /\ s \in Seq(Frames)
  /\ \A k \in 1..Len(s) :
       /\ s[k].module \in registered
       /\ s[k].code = "source" <=> s[k].fiber \in {"root", "same"}
       /\ k = 1 => s[k].fiber # "same"
       /\ k > 1 => s[k].fiber # "root"
       /\ k < Len(s) /\ s[k].importing # None =>
            s[k + 1].fiber = "same" /\ s[k + 1].module = s[k].importing

\* The frames of a fiber that has yielded.
Waiting(s, registered) ==
  Stacked(s, registered) /\ s # <<>> /\ s[Len(s)].importing = None

Calls ==
  /\ Stacked(frames, loaded)
  /\ suspended \in Seq(Seq(Frames))
  /\ \A k \in 1..Len(suspended) : Waiting(suspended[k], loaded)

Data ==
  /\ loaded \subseteq Module
  /\ variables \in [Module -> [Name -> Values]]
  /\ lastModule \in Module \cup {Core}
  /\ bodies \in [Module -> Nat]
  /\ \A m \in Module : bodies[m] > 0 => m \in loaded
  /\ cut \subseteq loaded
  /\ BodyOnce

\* An import statement of the running code finds its module in lastModule.
ImportsRight ==
  frames # <<>> /\ frames[Len(frames)].importing # None
    => lastModule = frames[Len(frames)].importing

-----------------------------------------------------------------------------
(* Sequences of frames.                                                    *)

\* What a return or an error leaves is stacked, and is not in the middle of an
\* import statement if what it dropped started with a fiber.
LEMMA PrefixStacked ==
  ASSUME NEW R, NEW s, Stacked(s, R), NEW k \in 0..Len(s)
  PROVE  /\ Stacked(SubSeq(s, 1, k), R)
         /\ Len(SubSeq(s, 1, k)) = k
         /\ \A i \in 1..k : SubSeq(s, 1, k)[i] = s[i]
<1> DEFINE t == SubSeq(s, 1, k)
<1>0. s \in Seq(Frames) /\ Len(s) \in Nat
  BY DEF Stacked
<1>1. \A i \in 1..k : s[i] \in Frames
  BY <1>0, ElementOfSeq
<1>2. t \in Seq(Frames) /\ Len(t) = k /\ \A i \in 1..k : t[i] = s[i]
  BY <1>0, <1>1, SubSeqProperties, Z3
<1> HIDE DEF t
<1>3. Stacked(t, R)
  BY <1>0, <1>2 DEF Stacked
<1> QED
  BY <1>2, <1>3 DEF t

\* The frames from the start of a fiber on are stacked.
LEMMA SuffixStacked ==
  ASSUME NEW R, NEW s, Stacked(s, R), NEW k \in 1..Len(s), s[k].fiber # "same",
         \A j \in k + 1..Len(s) : s[j].fiber = "same"
  PROVE  /\ Stacked(SubSeq(s, k, Len(s)), R)
         /\ Len(SubSeq(s, k, Len(s))) = Len(s) - k + 1
         /\ \A i \in 1..Len(s) - k + 1 : SubSeq(s, k, Len(s))[i] = s[k + i - 1]
<1> DEFINE t == SubSeq(s, k, Len(s))
<1>0. s \in Seq(Frames) /\ Len(s) \in Nat
  BY DEF Stacked
<1>1. \A i \in k..Len(s) : s[i] \in Frames
  BY <1>0, ElementOfSeq
<1>2. /\ t \in Seq(Frames) /\ Len(t) = Len(s) - k + 1
      /\ \A i \in 1..Len(s) - k + 1 : t[i] = s[k + i - 1]
  BY <1>0, <1>1, SubSeqProperties, Z3
<1> HIDE DEF t
<1>3. ASSUME NEW i \in 1..Len(t)
      PROVE  /\ t[i].module \in R
             /\ t[i].code = "source" <=> t[i].fiber \in {"root", "same"}
             /\ i = 1 => t[i].fiber # "same"
             /\ i > 1 => t[i].fiber # "root"
             /\ i < Len(t) /\ t[i].importing # None =>
                  t[i + 1].fiber = "same" /\ t[i + 1].module = t[i].importing
  <2> DEFINE j == k + i - 1
  <2>1. j \in 1..Len(s) /\ t[i] = s[j]
    BY <1>0, <1>2
  <2>2. i < Len(t) => t[i + 1] = s[j + 1] /\ j < Len(s)
    BY <1>0, <1>2
  <2>3. i = 1 => j = k
    BY <1>0
  <2>4. i > 1 => j > 1
    BY <1>0, <1>2
  <2> HIDE DEF j
  <2> QED
    BY <2>1, <2>2, <2>3, <2>4 DEF Stacked
<1>4. Stacked(t, R)
  BY <1>2, <1>3 DEF Stacked
<1> QED
  BY <1>2, <1>4 DEF t

\* The frame that is pushed for an import statement is that of the module it names,
\* and any other one is pushed between statements.
LEMMA AppendStacked ==
  ASSUME NEW R, NEW s, Stacked(s, R), s # <<>>, NEW f \in Frames,
         f.module \in R, f.fiber # "root", f.code = "source" <=> f.fiber = "same",
         s[Len(s)].importing # None =>
           f.fiber = "same" /\ f.module = s[Len(s)].importing
  PROVE  /\ Stacked(Append(s, f), R)
         /\ Len(Append(s, f)) = Len(s) + 1
         /\ Append(s, f)[Len(s) + 1] = f
<1> DEFINE t == Append(s, f)
<1>0. s \in Seq(Frames) /\ Len(s) \in Nat /\ Len(s) > 0
  BY EmptySeq DEF Stacked
<1>1. /\ t \in Seq(Frames) /\ Len(t) = Len(s) + 1
      /\ \A i \in 1..Len(s) : t[i] = s[i]
      /\ t[Len(s) + 1] = f
  BY <1>0, AppendProperties
<1> HIDE DEF t
<1>2. Stacked(t, R)
  BY <1>0, <1>1 DEF Stacked
<1> QED
  BY <1>1, <1>2 DEF t

\* A fiber that did not start as a root may be invoked otherwise.
LEMMA InvokedWaits ==
  ASSUME NEW R, NEW t, Waiting(t, R), t[1].fiber # "root", NEW how \in {"call", "try"}
  PROVE  /\ Waiting([t EXCEPT ![1].fiber = how], R)
         /\ [t EXCEPT ![1].fiber = how][1].fiber = how
<1> DEFINE f == [t[1] EXCEPT !.fiber = how]
           u == [t EXCEPT ![1] = f]
<1>1. t \in Seq(Frames) /\ Len(t) \in Nat /\ Len(t) > 0
  BY EmptySeq DEF Stacked, Waiting
<1>2. t[1] \in Frames
  BY <1>1, ElementOfSeq
<1>3. /\ f \in Frames /\ f.fiber = how /\ f.module = t[1].module
      /\ f.importing = t[1].importing /\ f.code = t[1].code
  BY <1>2 DEF Frames
<1> HIDE DEF f
<1>4. /\ u \in Seq(Frames) /\ Len(u) = Len(t)
      /\ \A i \in 1..Len(t) : u[i] = IF i = 1 THEN f ELSE t[i]
  BY <1>1, <1>3, ExceptSeq
<1> HIDE DEF u
<1>5. t[1].code = "function"
  BY <1>1, <1>2 DEF Waiting, Stacked, Frames
<1>6. Stacked(u, R)
  BY <1>1, <1>3, <1>4, <1>5 DEF Waiting, Stacked
<1>7. u # <<>> /\ u[Len(u)].importing = None /\ u[1].fiber = how
  BY <1>1, <1>3, <1>4, EmptySeq DEF Waiting
<1>8. u = [t EXCEPT ![1].fiber = how]
  BY DEF u, f
<1> QED
  BY <1>6, <1>7, <1>8 DEF Waiting

\* A fiber is resumed between statements.
LEMMA ConcatStacked ==
  ASSUME NEW R, NEW s, Stacked(s, R), s # <<>>, s[Len(s)].importing = None,
         NEW u, Waiting(u, R), u[1].fiber \in {"call", "try"}
  PROVE  /\ Stacked(s \o u, R)
         /\ s \o u # <<>>
         /\ (s \o u)[Len(s \o u)].importing = None
<1> DEFINE v == s \o u
<1>1. /\ s \in Seq(Frames) /\ Len(s) \in Nat /\ Len(s) > 0
      /\ u \in Seq(Frames) /\ Len(u) \in Nat /\ Len(u) > 0
  BY EmptySeq DEF Stacked, Waiting
<1>2. /\ v \in Seq(Frames) /\ Len(v) = Len(s) + Len(u)
      /\ \A i \in 1..Len(s) + Len(u) : v[i] = IF i <= Len(s) THEN s[i] ELSE u[i - Len(s)]
  BY <1>1, ConcatProperties
<1> HIDE DEF v
<1>3. ASSUME NEW k \in 1..Len(s)
      PROVE  /\ v[k] = s[k]
             /\ k < Len(s) => v[k + 1] = s[k + 1]
             /\ k = Len(s) => v[k].importing = None
  BY <1>1, <1>2
<1>4. ASSUME NEW k \in Len(s) + 1..Len(v)
      PROVE  /\ v[k] = u[k - Len(s)]
             /\ k < Len(v) => v[k + 1] = u[(k - Len(s)) + 1]
             /\ k - Len(s) \in 1..Len(u)
             /\ k < Len(v) => k - Len(s) < Len(u)
  BY <1>1, <1>2
<1>5. \A k \in 1..Len(u) : u[k].fiber # "root"
  BY <1>1 DEF Waiting, Stacked
<1>6. ASSUME NEW k \in 1..Len(s)
      PROVE  /\ v[k].module \in R
             /\ v[k].code = "source" <=> v[k].fiber \in {"root", "same"}
             /\ k = 1 => v[k].fiber # "same"
             /\ k > 1 => v[k].fiber # "root"
             /\ k < Len(v) /\ v[k].importing # None =>
                  v[k + 1].fiber = "same" /\ v[k + 1].module = v[k].importing
  BY <1>1, <1>3 DEF Stacked
<1>7. ASSUME NEW k \in Len(s) + 1..Len(v)
      PROVE  /\ v[k].module \in R
             /\ v[k].code = "source" <=> v[k].fiber \in {"root", "same"}
             /\ v[k].fiber # "root"
             /\ k < Len(v) /\ v[k].importing # None =>
                  v[k + 1].fiber = "same" /\ v[k + 1].module = v[k].importing
  <2> DEFINE i == k - Len(s)
  <2>1. /\ i \in 1..Len(u) /\ v[k] = u[i]
        /\ k < Len(v) => v[k + 1] = u[i + 1] /\ i < Len(u)
    BY <1>4
  <2> HIDE DEF i
  <2> QED
    BY <2>1, <1>5 DEF Waiting, Stacked
<1>8. Stacked(v, R)
  BY <1>1, <1>2, <1>6, <1>7 DEF Stacked
<1>9. v # <<>>
  BY <1>1, <1>2, EmptySeq
<1>10. v[Len(v)] = u[Len(u)]
  BY <1>1, <1>2
<1> QED
  BY <1>8, <1>9, <1>10 DEF Waiting, v

\* Removing an element of a sequence adds none, and leaves the others.
LEMMA RemoveAtMembers ==
  ASSUME NEW S, NEW s \in Seq(S), NEW k \in 1..Len(s)
  PROVE  /\ RemoveAt(s, k) \in Seq(S)
         /\ \A i \in 1..Len(RemoveAt(s, k)) :
              \E j \in 1..Len(s) : RemoveAt(s, k)[i] = s[j]
         /\ \A j \in 1..Len(s) : j # k =>
              \E i \in 1..Len(RemoveAt(s, k)) : RemoveAt(s, k)[i] = s[j]
<1> DEFINE before == SubSeq(s, 1, k - 1)
           after == SubSeq(s, k + 1, Len(s))
           m == k - 1
           n == k + 1
           t == before \o after
<1>1. /\ Len(s) \in Nat /\ k \in Int /\ m \in Int /\ n \in Int
      /\ 0 <= m /\ m < Len(s) /\ n = m + 2 /\ Len(s) \in Int
  OBVIOUS
<1>2. \A i \in 1..Len(s) : s[i] \in S
  BY ElementOfSeq
<1> HIDE DEF m, n
<1>3. /\ before \in Seq(S) /\ Len(before) = m
      /\ \A i \in 1..m : before[i] = s[i]
  <2>1. \A i \in 1..m : s[i] \in S
    BY <1>1, <1>2
  <2>2. /\ SubSeq(s, 1, m) \in Seq(S)
        /\ Len(SubSeq(s, 1, m)) = IF 1 <= m THEN m - 1 + 1 ELSE 0
        /\ \A i \in 1..m - 1 + 1 : SubSeq(s, 1, m)[i] = s[1 + i - 1]
    BY <1>1, <2>1, SubSeqProperties
  <2>3. before = SubSeq(s, 1, m)
    BY DEF m
  <2> HIDE DEF before
  <2> QED
    BY <1>1, <2>2, <2>3
<1>4. /\ after \in Seq(S)
      /\ Len(after) = IF n <= Len(s) THEN Len(s) - n + 1 ELSE 0
      /\ \A i \in 1..Len(s) - n + 1 : after[i] = s[n + i - 1]
  <2>1. \A i \in n..Len(s) : s[i] \in S
    BY <1>1, <1>2
  <2>2. after = SubSeq(s, n, Len(s))
    BY DEF n
  <2> HIDE DEF after
  <2> QED
    BY <1>1, <2>1, <2>2, SubSeqProperties
<1> HIDE DEF before, after
<1>5. /\ t \in Seq(S) /\ Len(t) = Len(before) + Len(after)
      /\ \A i \in 1..Len(before) + Len(after) :
           t[i] = IF i <= Len(before) THEN before[i] ELSE after[i - Len(before)]
  BY <1>3, <1>4, ConcatProperties
<1> HIDE DEF t
<1>6. ASSUME NEW i \in 1..Len(t), i <= m
      PROVE  i \in 1..Len(s) /\ t[i] = s[i]
  BY <1>1, <1>3, <1>4, <1>5, <1>6
<1>7. ASSUME NEW i \in 1..Len(t), i > m
      PROVE  i + 1 \in 1..Len(s) /\ t[i] = s[i + 1]
  <2>1. i - m \in 1..Len(s) - n + 1 /\ n + (i - m) - 1 = i + 1 /\ i \in Int
    BY <1>1, <1>3, <1>4, <1>5, <1>7
  <2>2. t[i] = after[i - m]
    BY <1>3, <1>4, <1>5, <1>7, <2>1
  <2>3. after[i - m] = s[n + (i - m) - 1]
    BY <1>4, <2>1
  <2> QED
    BY <1>1, <2>1, <2>2, <2>3
<1>8. \A i \in 1..Len(t) : \E j \in 1..Len(s) : t[i] = s[j]
  <2> TAKE i \in 1..Len(t)
  <2>1. i <= m \/ i > m
    BY <1>1
  <2> QED
    BY <1>6, <1>7, <2>1
<1>9. ASSUME NEW j \in 1..Len(s), j # k
      PROVE  \E i \in 1..Len(t) : t[i] = s[j]
  <2>0. Len(t) = Len(s) - 1 /\ k = m + 1
    <3>1. k = m + 1
      BY <1>1 DEF m
    <3>2. Len(after) = Len(s) - n + 1
      BY <1>1, <1>4
    <3> QED
      BY <1>1, <1>3, <1>5, <3>1, <3>2
  <2>1. CASE j <= m
    <3>1. j \in 1..Len(t)
      BY <1>1, <2>0, <2>1
    <3> QED
      BY <1>6, <2>1, <3>1
  <2>2. CASE j > m
    <3> DEFINE i == j - 1
    <3>1. i \in 1..Len(t) /\ i > m /\ i + 1 = j
      BY <1>1, <1>9, <2>0, <2>2
    <3> HIDE DEF i
    <3> QED
      BY <1>7, <3>1
  <2> QED
    BY <1>1, <2>1, <2>2
<1> QED
  BY <1>5, <1>8, <1>9 DEF RemoveAt, t, before, after

\* Where the top frame has got to in its code does not matter to the others.
LEMMA TopStacked ==
  ASSUME NEW R, NEW s, Stacked(s, R), s # <<>>, NEW f \in Frames,
         f.module = s[Len(s)].module, f.fiber = s[Len(s)].fiber, f.code = s[Len(s)].code
  PROVE  /\ Stacked([s EXCEPT ![Len(s)] = f], R)
         /\ Len([s EXCEPT ![Len(s)] = f]) = Len(s)
         /\ [s EXCEPT ![Len(s)] = f][Len(s)] = f
<1> DEFINE t == [s EXCEPT ![Len(s)] = f]
<1>0. s \in Seq(Frames) /\ Len(s) \in Nat /\ Len(s) > 0
  BY EmptySeq DEF Stacked
<1>1. /\ t \in Seq(Frames) /\ Len(t) = Len(s)
      /\ \A j \in 1..Len(s) : t[j] = IF j = Len(s) THEN f ELSE s[j]
  BY <1>0, ExceptSeq
<1> HIDE DEF t
<1>2. Stacked(t, R)
  BY <1>0, <1>1 DEF Stacked
<1> QED
  BY <1>0, <1>1, <1>2 DEF t

\* More modules may be registered.
LEMMA StackedMore ==
  ASSUME NEW R, NEW T, R \subseteq T, NEW s
  PROVE  /\ Stacked(s, R) => Stacked(s, T)
         /\ Waiting(s, R) => Waiting(s, T)
BY DEF Stacked, Waiting

-----------------------------------------------------------------------------
(* What the steps have in common.                                          *)

LEMMA TopFrame ==
  ASSUME Calls, frames # <<>>
  PROVE  /\ Len(frames) \in Nat /\ Len(frames) > 0
         /\ Top \in Frames /\ Top.module \in loaded
<1>1. frames \in Seq(Frames) /\ Len(frames) \in Nat /\ Len(frames) > 0
  BY EmptySeq DEF Calls, Stacked
<1>2. Top \in Frames
  BY <1>1, ElementOfSeq DEF Top
<1> QED
  BY <1>1, <1>2 DEF Calls, Stacked, Top

\* Only registered modules have code that can be cut off.
LEMMA CutIsLoaded ==
  ASSUME Calls, NEW k \in Nat \ {0}
  PROVE  CutFrom(k) \subseteq loaded
<1>1. Len(frames) \in Nat
  BY DEF Calls, Stacked
<1> QED
  BY <1>1 DEF CutFrom, Calls, Stacked

\* After an error, the frame on top had invoked the fiber that was dropped.
LEMMA FailDrops ==
  ASSUME Calls, frames # <<>>, NEW more, Fail(more)
  PROVE  /\ Stacked(frames', loaded)
         /\ frames' # <<>> => frames'[Len(frames')].importing = None
         /\ cut \subseteq cut' /\ more \subseteq cut' /\ cut' \subseteq cut \cup more \cup loaded
<1>1. PICK k \in 0..Len(frames) - 1 :
        /\ Drops(k)
        /\ frames' = SubSeq(frames, 1, k)
        /\ cut' = cut \cup more \cup CutFrom(k + 1)
  BY DEF Fail
<1>2. /\ k \in 0..Len(frames) /\ k < Len(frames) /\ Len(frames) \in Nat
      /\ Stacked(frames, loaded)
  BY TopFrame DEF Calls
<1>3. /\ Stacked(frames', loaded) /\ Len(frames') = k
      /\ \A i \in 1..k : frames'[i] = frames[i]
  BY <1>1, <1>2, PrefixStacked
<1>4. frames' # <<>> => k > 0
  BY <1>2, <1>3, EmptySeq DEF Stacked
<1>5. k > 0 => frames[k].importing = None
  BY <1>1, <1>2 DEF Drops, Stacked
<1>6. k + 1 \in Nat \ {0}
  BY <1>2
<1>7. CutFrom(k + 1) \subseteq loaded
  BY <1>6, CutIsLoaded
<1> QED
  BY <1>1, <1>2, <1>3, <1>4, <1>5, <1>7

\* What compileInModule() does to the variables: a line is left behind by a source
\* that does not compile, and values that are not numbers stay.
LEMMA CompileFacts ==
  ASSUME Data, NEW m \in Module, NEW source \in Sources, NEW valid \in BOOLEAN,
         Compile(m, source, valid)
  PROVE  /\ loaded' = loaded \cup {m}
         /\ variables' \in [Module -> [Name -> Values]]
         /\ \A o \in Module, n \in Name :
              variables'[o][n] = "line" /\ variables[o][n] # "line"
                => ~Compiles(m, source)
         /\ \A o \in loaded, n \in Name :
              variables[o][n] = "other" => variables'[o][n] = "other"
<1>1. loaded' = loaded \cup {m}
  BY DEF Compile, Registered
<1>2. Existing(m) \in [Name -> Values]
  BY DEF Data, Existing, CoreVariables, Values
<1>3. ASSUME NEW n \in Name
      PROVE  /\ source[n].used \in BOOLEAN /\ source[n].defined \in BOOLEAN
             /\ Declared(m, source)[n] =
                  Defined(Used(Existing(m)[n], source[n].used), source[n].defined)
             /\ Existing(m)[n] \in Values
  BY <1>2 DEF Sources, Declared
<1>4. ASSUME NEW n \in Name
      PROVE  /\ Declared(m, source)[n] \in Values
             /\ Existing(m)[n] = "other" => Declared(m, source)[n] = "other"
             /\ Declared(m, source)[n] = "line" =>
                  Existing(m)[n] \in {"line", "undeclared"}
  BY <1>3 DEF Defined, Used, IsNum, Values
<1>5. Declared(m, source) \in [Name -> Values]
  BY <1>4 DEF Declared
<1>6. /\ variables' = [variables EXCEPT ![m] = Declared(m, source)]
      /\ variables \in [Module -> [Name -> Values]]
  BY DEF Compile, Data
<1>7. variables' \in [Module -> [Name -> Values]]
  BY <1>5, <1>6
<1>8. ASSUME NEW o \in Module, NEW n \in Name,
             variables'[o][n] = "line", variables[o][n] # "line"
      PROVE  ~Compiles(m, source)
  <2>1. o = m /\ Declared(m, source)[n] = "line"
    BY <1>6, <1>8
  <2>2. Existing(m)[n] # "line"
    BY <1>8, <2>1 DEF Existing, CoreVariables
  <2>3. Existing(m)[n] = "undeclared"
    BY <1>4, <2>1, <2>2
  <2> QED
    BY <2>1, <2>3 DEF Compiles, Unresolved, IsNum
<1>9. ASSUME NEW o \in loaded, NEW n \in Name, variables[o][n] = "other"
      PROVE  variables'[o][n] = "other"
  <2>1. CASE o # m
    BY <1>6, <1>9, <2>1 DEF Data
  <2>2. CASE o = m
    <3>1. Existing(m)[n] = "other"
      BY <1>9, <2>2 DEF Existing
    <3> QED
      BY <1>4, <1>6, <2>2, <3>1
  <2> QED
    BY <2>1, <2>2
<1> QED
  BY <1>1, <1>7, <1>8, <1>9

\* A store into a variable of the running module.
LEMMA StoreFacts ==
  ASSUME Data, NEW m \in Module, NEW n \in Name, NEW v \in {"number", "other"},
         variables' = [variables EXCEPT ![m][n] = v]
  PROVE  /\ variables' \in [Module -> [Name -> Values]]
         /\ \A o \in Module, i \in Name :
              variables'[o][i] = "line" => variables[o][i] = "line"
         /\ \A o \in Module, i \in Name :
              variables[o][i] = "other" => variables'[o][i] \in {"number", "other"}
<1>1. v \in Values /\ v # "line"
  BY DEF Values
<1> QED
  BY <1>1 DEF Data

\* Fibers that have yielded stay as they are when modules are registered.
LEMMA SuspendedKept ==
  ASSUME Calls, suspended' = suspended, loaded \subseteq loaded'
  PROVE  /\ suspended' \in Seq(Seq(Frames))
         /\ \A k \in 1..Len(suspended') : Waiting(suspended'[k], loaded')
BY StackedMore DEF Calls

\* Steps that compile nothing.
LEMMA DataKept ==
  ASSUME Data, loaded' = loaded, bodies' = bodies,
         lastModule' \in Module \cup {Core}, cut \subseteq cut', cut' \subseteq loaded,
         variables' \in [Module -> [Name -> Values]]
  PROVE  Data'
BY DEF Data, BodyOnce

\* Steps that compile a source in `m`.
LEMMA DataCompiled ==
  ASSUME Data, NEW m \in Module, NEW source \in Sources, NEW valid \in BOOLEAN,
         Compile(m, source, valid), lastModule' = lastModule,
         cut \subseteq cut', cut' \subseteq loaded \cup {m},
         \/ bodies' = bodies
         \/ m \notin loaded /\ bodies' = [bodies EXCEPT ![m] = @ + 1]
  PROVE  Data'
<1>1. /\ loaded' = loaded \cup {m}
      /\ variables' \in [Module -> [Name -> Values]]
  BY CompileFacts
<1>2. /\ bodies' \in [Module -> Nat] /\ BodyOnce'
      /\ \A o \in Module : bodies'[o] > 0 => o \in loaded'
  <2>1. CASE bodies' = bodies
    BY <1>1, <2>1 DEF Data, BodyOnce
  <2>2. CASE m \notin loaded /\ bodies' = [bodies EXCEPT ![m] = @ + 1]
    <3>1. bodies \in [Module -> Nat] /\ bodies[m] = 0
      BY <2>2 DEF Data
    <3> QED
      BY <1>1, <2>2, <3>1 DEF Data, BodyOnce
  <2> QED
    BY <2>1, <2>2
<1> QED
  BY <1>1, <1>2 DEF Data

-----------------------------------------------------------------------------
(* The steps.                                                              *)

\* What a step of the machine keeps.
Stays ==
  \A m \in loaded, n \in Name :
    variables[m][n] = "other" => variables'[m][n] \in {"number", "other"}

FindsAgain == ~EarlyReturn /\ ImportsRight => ImportsRight'

Keeps == Data' /\ Calls' /\ Stays /\ FindsAgain

LEMMA BodyFrame ==
  ASSUME NEW m \in Module, NEW source \in Sources, NEW fiber \in {"root", "same"}
  PROVE  /\ Body(m, source, fiber) \in Frames
         /\ Body(m, source, fiber).module = m
         /\ Body(m, source, fiber).fiber = fiber
         /\ Body(m, source, fiber).code = "source"
         /\ Body(m, source, fiber).importing = None
BY DEF Body, Frames

LEMMA InterpretKeeps ==
  ASSUME Data, Calls, NEW m \in Module, NEW source \in Sources, NEW valid \in BOOLEAN,
         WrenInterpret(m, source, valid)
  PROVE  Keeps
<1> DEFINE b == Body(m, source, "root")
<1>1. /\ Compile(m, source, valid) /\ lastModule' = lastModule
      /\ suspended' = suspended /\ bodies' = bodies /\ frames = <<>>
      /\ \/ Compiles(m, source) /\ frames' = <<b>> /\ cut' = cut
         \/ cut' = cut \cup {m} /\ frames' = <<>>
  BY DEF WrenInterpret
<1>2. /\ loaded' = loaded \cup {m} /\ Stays
  BY <1>1, CompileFacts DEF Stays
<1>3. Data'
  BY <1>1, DataCompiled DEF Data
<1>4. /\ b \in Frames /\ b.module = m /\ b.fiber = "root"
      /\ b.code = "source" /\ b.importing = None
  BY BodyFrame
<1> HIDE DEF b
<1>5. Stacked(frames', loaded') /\ ImportsRight'
  <2>1. CASE frames' = <<b>>
    BY <1>2, <1>4, <2>1 DEF Stacked, ImportsRight
  <2>2. CASE frames' = <<>>
    BY <2>2, EmptySeq DEF Stacked, ImportsRight
  <2> QED
    BY <1>1, <2>1, <2>2
<1>6. Calls'
  BY <1>1, <1>2, <1>5, SuspendedKept DEF Calls
<1> QED
  BY <1>2, <1>3, <1>5, <1>6 DEF Keeps, FindsAgain

LEMMA MetaKeeps ==
  ASSUME Data, Calls, NEW source \in Sources, NEW valid \in BOOLEAN,
         MetaEval(source, valid)
  PROVE  Keeps
<1> DEFINE m == Top.module
           b == Body(m, source, "same")
<1>1. /\ frames # <<>> /\ Top.importing = None
      /\ Compile(m, source, valid) /\ lastModule' = lastModule
      /\ suspended' = suspended /\ bodies' = bodies
      /\ \/ Compiles(m, source) /\ frames' = Append(frames, b) /\ cut' = cut
         \/ Fail({m})
  BY DEF MetaEval, Runs
<1>2. m \in Module /\ m \in loaded
  BY <1>1, TopFrame DEF Data
<1>3. /\ b \in Frames /\ b.module = m /\ b.fiber = "same"
      /\ b.code = "source" /\ b.importing = None
  BY <1>2, BodyFrame
<1>4. Top.importing = None /\ Top = frames[Len(frames)]
  BY <1>1 DEF Top
<1> HIDE DEF b, m
<1>5. /\ loaded' = loaded \cup {m} /\ loaded' = loaded /\ Stays
  <2>1. /\ loaded' = loaded \cup {m}
        /\ \A o \in loaded, n \in Name :
             variables[o][n] = "other" => variables'[o][n] = "other"
    BY <1>1, <1>2, CompileFacts
  <2> QED
    BY <1>2, <2>1 DEF Stays
<1>6. CASE Compiles(m, source) /\ frames' = Append(frames, b) /\ cut' = cut
  <2>1. Data'
    BY <1>1, <1>2, <1>6, DataCompiled DEF Data
  <2>2. /\ Stacked(frames', loaded) /\ Len(frames') = Len(frames) + 1
        /\ frames'[Len(frames) + 1] = b
    BY <1>1, <1>2, <1>3, <1>4, <1>6, AppendStacked DEF Calls
  <2> QED
    BY <1>1, <1>3, <1>5, <2>1, <2>2, SuspendedKept
    DEF Keeps, FindsAgain, Calls, ImportsRight
<1>7. CASE Fail({m})
  <2>1. /\ Stacked(frames', loaded)
        /\ frames' # <<>> => frames'[Len(frames')].importing = None
        /\ cut \subseteq cut' /\ m \in cut' /\ cut' \subseteq cut \cup {m} \cup loaded
    BY <1>1, <1>7, FailDrops
  <2>2. Data'
    BY <1>1, <1>2, <2>1, DataCompiled DEF Data
  <2> QED
    BY <1>1, <1>5, <2>1, <2>2, SuspendedKept DEF Keeps, FindsAgain, Calls, ImportsRight
<1> QED
  BY <1>1, <1>6, <1>7

LEMMA ImportLoadedKeeps ==
  ASSUME Data, Calls, NEW m \in Module, ImportLoaded(m)
  PROVE  Keeps
<1> DEFINE f == [Top EXCEPT !.importing = m]
<1>1. /\ frames # <<>> /\ frames' = [frames EXCEPT ![Len(frames)] = f]
      /\ lastModule' = m
      /\ UNCHANGED <<loaded, variables, suspended, bodies, cut>>
  BY DEF ImportLoaded, Runs, WithTop
<1>2. Top \in Frames /\ Top = frames[Len(frames)]
  BY <1>1, TopFrame DEF Top
<1>3. /\ f \in Frames /\ f.module = Top.module /\ f.fiber = Top.fiber
      /\ f.code = Top.code /\ f.importing = m
  BY <1>2 DEF Frames
<1> HIDE DEF f
<1>4. /\ Stacked(frames', loaded) /\ Len(frames') = Len(frames)
      /\ frames'[Len(frames)] = f
  BY <1>1, <1>2, <1>3, TopStacked DEF Calls
<1>5. Data'
  BY <1>1, DataKept DEF Data
<1> QED
  BY <1>1, <1>3, <1>4, <1>5, SuspendedKept
  DEF Keeps, Stays, FindsAgain, Calls, ImportsRight

LEMMA ImportSourceKeeps ==
  ASSUME Data, Calls, NEW m \in Module, NEW source \in Sources, NEW valid \in BOOLEAN,
         ImportSource(m, source, valid)
  PROVE  Keeps
<1> DEFINE f == [Top EXCEPT !.importing = m]
           b == Body(m, source, "same")
           stack == [frames EXCEPT ![Len(frames)] = f]
<1>1. /\ frames # <<>> /\ m \notin loaded
      /\ Compile(m, source, valid) /\ lastModule' = lastModule
      /\ suspended' = suspended
      /\ \/ /\ Compiles(m, source) /\ frames' = Append(stack, b) /\ cut' = cut
            /\ bodies' = [bodies EXCEPT ![m] = @ + 1]
         \/ Fail({m}) /\ bodies' = bodies
  BY DEF ImportSource, Runs, WithTop
<1>2. Top \in Frames /\ Top = frames[Len(frames)]
  BY <1>1, TopFrame DEF Top
<1>3. /\ f \in Frames /\ f.module = Top.module /\ f.fiber = Top.fiber
      /\ f.code = Top.code /\ f.importing = m
  BY <1>2 DEF Frames
<1>4. /\ b \in Frames /\ b.module = m /\ b.fiber = "same"
      /\ b.code = "source" /\ b.importing = None
  BY BodyFrame
<1>5. /\ loaded' = loaded \cup {m} /\ Stays
  <2>1. /\ loaded' = loaded \cup {m}
        /\ \A o \in loaded, n \in Name :
             variables[o][n] = "other" => variables'[o][n] = "other"
    BY <1>1, CompileFacts
  <2> QED
    BY <2>1 DEF Stays
<1> HIDE DEF f, b
<1>6. /\ Stacked(stack, loaded) /\ Len(stack) = Len(frames)
      /\ stack[Len(stack)] = f
  BY <1>1, <1>2, <1>3, TopStacked DEF Calls
<1>7. Len(frames) \in Nat /\ Len(frames) > 0 /\ stack \in Seq(Frames)
  BY <1>1, <1>6, TopFrame DEF Stacked
<1> HIDE DEF stack
<1>8. CASE /\ Compiles(m, source) /\ frames' = Append(stack, b) /\ cut' = cut
           /\ bodies' = [bodies EXCEPT ![m] = @ + 1]
  <2>0. /\ cut \subseteq cut' /\ cut' \subseteq loaded \cup {m}
        /\ m \notin loaded /\ bodies' = [bodies EXCEPT ![m] = @ + 1]
        /\ Compiles(m, source) /\ lastModule' = lastModule
    BY <1>1, <1>8 DEF Data
  <2>1. Data'
    BY <1>1, <2>0, DataCompiled
  <2>2. Stacked(stack, loaded') /\ stack # <<>> /\ b.module \in loaded'
    BY <1>4, <1>5, <1>6, <1>7, StackedMore
  <2>3. /\ Stacked(frames', loaded') /\ Len(frames') = Len(stack) + 1
        /\ frames'[Len(stack) + 1] = b
    BY <1>3, <1>4, <1>6, <1>8, <2>2, AppendStacked
  <2> QED
    BY <1>1, <1>4, <1>5, <2>1, <2>3, SuspendedKept
    DEF Keeps, FindsAgain, Calls, ImportsRight
<1>9. CASE Fail({m}) /\ bodies' = bodies
  <2>1. /\ Stacked(frames', loaded)
        /\ frames' # <<>> => frames'[Len(frames')].importing = None
        /\ cut \subseteq cut' /\ m \in cut' /\ cut' \subseteq cut \cup {m} \cup loaded
    BY <1>1, <1>9, FailDrops
  <2>2. Data'
    BY <1>1, <1>9, <2>1, DataCompiled DEF Data
  <2>3. Stacked(frames', loaded')
    BY <1>5, <2>1, StackedMore
  <2> QED
    BY <1>1, <1>5, <2>1, <2>2, <2>3, SuspendedKept
    DEF Keeps, FindsAgain, Calls, ImportsRight
<1> QED
  BY <1>1, <1>8, <1>9

\* The same for the frames that run.
LEMMA TopReplaced ==
  ASSUME NEW R, Stacked(frames, R), frames # <<>>, NEW f \in Frames,
         f.module = Top.module, f.fiber = Top.fiber, f.code = Top.code,
         frames' = [frames EXCEPT ![Len(frames)] = f]
  PROVE  /\ Stacked(frames', R) /\ Len(frames') = Len(frames)
         /\ frames'[Len(frames)] = f
  BY TopStacked DEF Top

\* A step of the top frame, between statements or not, that leaves it where it is.
LEMMA TopKeeps ==
  ASSUME Data, Calls, frames # <<>>, NEW f \in Frames,
         f.module = Top.module, f.fiber = Top.fiber, f.code = Top.code,
         f.importing = None \/ f.importing = Top.importing,
         frames' = [frames EXCEPT ![Len(frames)] = f],
         UNCHANGED <<loaded, lastModule, suspended, bodies, cut>>,
         \/ variables' = variables
         \/ \E n \in Name, v \in {"number", "other"} :
              variables' = [variables EXCEPT ![Top.module][n] = v]
  PROVE  Keeps
<1>1. /\ Stacked(frames', loaded) /\ Len(frames') = Len(frames)
      /\ frames'[Len(frames)] = f
  BY TopReplaced DEF Calls
<1>2. Calls' /\ FindsAgain
  BY <1>1, SuspendedKept DEF Calls, FindsAgain, ImportsRight, Top
<1>3. CASE variables' = variables
  BY <1>2, <1>3, DataKept DEF Data, Keeps, Stays
<1>4. ASSUME NEW n \in Name, NEW v \in {"number", "other"},
             variables' = [variables EXCEPT ![Top.module][n] = v]
      PROVE  Keeps
  <2>1. Top.module \in Module
    BY TopFrame DEF Data
  <2>2. /\ variables' \in [Module -> [Name -> Values]]
        /\ \A o \in Module, i \in Name :
             variables[o][i] = "other" => variables'[o][i] \in {"number", "other"}
    BY <1>4, <2>1, StoreFacts
  <2>3. Data'
    BY <2>2, DataKept DEF Data
  <2> QED
    BY <1>2, <2>2, <2>3 DEF Keeps, Stays, Data
<1> QED
  BY <1>3, <1>4

LEMMA ImportVariableKeeps ==
  ASSUME Data, Calls, NEW n \in Name, NEW as \in Name, ImportVariable(n, as)
  PROVE  Keeps
<1> DEFINE f == [Top EXCEPT !.todo = @ \ {as}]
<1>1. frames # <<>> /\ Top \in Frames
  BY TopFrame DEF ImportVariable
<1>2. /\ f \in Frames /\ f.module = Top.module /\ f.fiber = Top.fiber
      /\ f.code = Top.code /\ f.importing = Top.importing
  BY <1>1 DEF Frames
<1>3. /\ frames' = [frames EXCEPT ![Len(frames)] = f]
      /\ UNCHANGED <<loaded, lastModule, suspended, bodies, cut>>
      /\ \E v \in {"number", "other"} :
           variables' = [variables EXCEPT ![Top.module][as] = v]
  BY DEF ImportVariable, WithTop, Copied
<1> HIDE DEF f
<1> QED
  BY <1>1, <1>2, <1>3, TopKeeps

LEMMA ImportDoneKeeps ==
  ASSUME Data, Calls, ImportDone
  PROVE  Keeps
<1> DEFINE f == [Top EXCEPT !.importing = None]
<1>1. frames # <<>> /\ Top \in Frames
  BY TopFrame DEF ImportDone
<1>2. /\ f \in Frames /\ f.module = Top.module /\ f.fiber = Top.fiber
      /\ f.code = Top.code /\ f.importing = None
  BY <1>1 DEF Frames
<1>3. /\ frames' = [frames EXCEPT ![Len(frames)] = f]
      /\ UNCHANGED <<loaded, variables, lastModule, suspended, bodies, cut>>
  BY DEF ImportDone, WithTop
<1> HIDE DEF f
<1> QED
  BY <1>1, <1>2, <1>3, TopKeeps

LEMMA DefineKeeps ==
  ASSUME Data, Calls, NEW n \in Name, NEW v \in {"number", "other"}, Define(n, v)
  PROVE  Keeps
<1> DEFINE f == [Top EXCEPT !.todo = @ \ {n}]
<1>1. frames # <<>> /\ Top \in Frames
  BY TopFrame DEF Define, Runs
<1>2. /\ f \in Frames /\ f.module = Top.module /\ f.fiber = Top.fiber
      /\ f.code = Top.code /\ f.importing = Top.importing
  BY <1>1 DEF Frames
<1>3. /\ frames' = [frames EXCEPT ![Len(frames)] = f]
      /\ UNCHANGED <<loaded, lastModule, suspended, bodies, cut>>
      /\ variables' = [variables EXCEPT ![Top.module][n] = v]
  BY DEF Define, WithTop
<1> HIDE DEF f
<1> QED
  BY <1>1, <1>2, <1>3, TopKeeps

LEMMA AssignKeeps ==
  ASSUME Data, Calls, NEW n \in Name, NEW v \in {"number", "other"}, Assign(n, v)
  PROVE  Keeps
<1>1. frames # <<>> /\ Top \in Frames
  BY TopFrame DEF Assign, Runs
<1>2. frames' = [frames EXCEPT ![Len(frames)] = Top]
  <2>1. frames \in Seq(Frames)
    BY DEF Calls, Stacked
  <2> QED
    BY <1>1, <2>1, EmptySeq DEF Assign, Top
<1>3. /\ UNCHANGED <<loaded, lastModule, suspended, bodies, cut>>
      /\ variables' = [variables EXCEPT ![Top.module][n] = v]
  BY DEF Assign
<1> QED
  BY <1>1, <1>2, <1>3, TopKeeps

\* A step that drops frames, and compiles and assigns nothing.
LEMMA DropKeeps ==
  ASSUME Data, Calls, UNCHANGED <<loaded, variables, bodies>>,
         lastModule' \in Module \cup {Core}, cut \subseteq cut', cut' \subseteq loaded,
         Stacked(frames', loaded), suspended' \in Seq(Seq(Frames)),
         \A k \in 1..Len(suspended') : Waiting(suspended'[k], loaded),
         ~EarlyReturn /\ ImportsRight => ImportsRight'
  PROVE  Keeps
<1>1. Data'
  BY DataKept DEF Data
<1>2. Calls'
  BY DEF Calls
<1> QED
  BY <1>1, <1>2 DEF Keeps, Stays, FindsAgain

LEMMA FailKeeps ==
  ASSUME Data, Calls, frames # <<>>, Fail({}),
         UNCHANGED <<loaded, variables, lastModule, suspended, bodies>>
  PROVE  Keeps
<1>1. /\ Stacked(frames', loaded)
      /\ frames' # <<>> => frames'[Len(frames')].importing = None
      /\ cut \subseteq cut' /\ cut' \subseteq cut \cup {} \cup loaded
  BY FailDrops
<1>2. ImportsRight'
  BY <1>1 DEF ImportsRight
<1>3. cut' \subseteq loaded /\ lastModule' \in Module \cup {Core}
  BY <1>1 DEF Data
<1> QED
  BY <1>1, <1>2, <1>3, DropKeeps DEF Calls

\* The frame below that of a body that ends is the importing one, if it is in the
\* middle of an import statement.
LEMMA FrontFrames ==
  ASSUME Calls, frames # <<>>, frames' = Front(frames)
  PROVE  /\ Stacked(frames', loaded)
         /\ frames' # <<>> /\ frames'[Len(frames')].importing # None =>
              Top.fiber = "same" /\ Top.module = frames'[Len(frames')].importing
<1>1. /\ Stacked(frames, loaded) /\ Len(frames) \in Nat /\ Len(frames) > 0
      /\ Len(frames) - 1 \in 0..Len(frames)
      /\ frames' = SubSeq(frames, 1, Len(frames) - 1)
  BY TopFrame DEF Calls, Front
<1>2. /\ Stacked(frames', loaded) /\ Len(frames') = Len(frames) - 1
      /\ \A i \in 1..Len(frames) - 1 : frames'[i] = frames[i]
  BY <1>1, PrefixStacked
<1>3. frames' # <<>> => Len(frames) - 1 \in 1..Len(frames)
  BY <1>1, <1>2, EmptySeq DEF Stacked
<1>4. ASSUME frames' # <<>>
      PROVE  frames'[Len(frames')] = frames[Len(frames) - 1]
  BY <1>1, <1>2, <1>3, <1>4
<1> QED
  BY <1>1, <1>2, <1>3, <1>4 DEF Stacked, Top

LEMMA EndModuleKeeps ==
  ASSUME Data, Calls, EndModule
  PROVE  Keeps
<1>1. /\ frames # <<>> /\ frames' = Front(frames) /\ lastModule' = Top.module
      /\ UNCHANGED <<loaded, variables, suspended, bodies, cut>>
  BY DEF EndModule, Runs, Finished
<1>2. Stacked(frames', loaded) /\ ImportsRight'
  BY <1>1, FrontFrames DEF ImportsRight
<1>3. lastModule' \in Module \cup {Core} /\ cut' \subseteq loaded
  BY <1>1, TopFrame DEF Data
<1> QED
  BY <1>1, <1>2, <1>3, DropKeeps DEF Calls

LEMMA ReturnKeeps ==
  ASSUME Data, Calls, Return
  PROVE  Keeps
<1>1. /\ frames # <<>> /\ frames' = Front(frames)
      /\ ~EarlyReturn => Top.code # "source"
      /\ cut' = cut \cup CutFrom(Len(frames))
      /\ UNCHANGED <<loaded, variables, lastModule, suspended, bodies>>
  BY DEF Return, Runs
<1>2. Len(frames) \in Nat \ {0}
  BY <1>1, TopFrame
<1>3. CutFrom(Len(frames)) \subseteq loaded
  BY <1>2, CutIsLoaded
<1>4. ~EarlyReturn => Top.fiber # "same"
  BY <1>1, <1>2 DEF Calls, Stacked, Top
<1>5. Stacked(frames', loaded) /\ (~EarlyReturn => ImportsRight')
  BY <1>1, <1>4, FrontFrames DEF ImportsRight
<1>6. lastModule' \in Module \cup {Core} /\ cut \subseteq cut' /\ cut' \subseteq loaded
  BY <1>1, <1>3 DEF Data
<1> QED
  BY <1>1, <1>5, <1>6, DropKeeps DEF Calls

LEMMA CallFiberKeeps ==
  ASSUME Data, Calls, NEW how \in {"call", "try"}, CallFiber(how)
  PROVE  Keeps
<1> DEFINE f == [module |-> Top.module, todo |-> {}, importing |-> None,
                 fiber |-> how, code |-> "function"]
<1>1. /\ frames # <<>> /\ Top.importing = None /\ frames' = Append(frames, f)
      /\ UNCHANGED <<loaded, variables, lastModule, suspended, bodies, cut>>
  BY DEF CallFiber, Runs
<1>2. Top.module \in loaded /\ Top.module \in Module
  BY <1>1, TopFrame DEF Data
<1>3. /\ f \in Frames /\ f.module \in loaded /\ f.fiber = how
      /\ f.code = "function" /\ f.importing = None
  BY <1>2 DEF Frames
<1> HIDE DEF f
<1>4. /\ Stacked(frames', loaded) /\ Len(frames') = Len(frames) + 1
      /\ frames'[Len(frames) + 1] = f
  BY <1>1, <1>3, AppendStacked DEF Calls, Top
<1>5. ImportsRight'
  BY <1>3, <1>4 DEF ImportsRight
<1> QED
  BY <1>1, <1>4, <1>5, DropKeeps DEF Calls, Data

LEMMA YieldKeeps ==
  ASSUME Data, Calls, NEW k \in DOMAIN frames, Yield(k)
  PROVE  Keeps
<1> DEFINE fiber == SubSeq(frames, k, Len(frames))
<1>1. /\ frames # <<>> /\ Top.importing = None /\ frames[k].fiber # "same"
      /\ \A j \in k + 1..Len(frames) : frames[j].fiber = "same"
      /\ suspended' = Append(suspended, fiber)
      /\ frames' = SubSeq(frames, 1, k - 1)
      /\ UNCHANGED <<loaded, variables, lastModule, bodies, cut>>
  BY DEF Yield, Runs
<1>2. /\ Stacked(frames, loaded) /\ Len(frames) \in Nat /\ k \in 1..Len(frames)
      /\ k - 1 \in 0..Len(frames)
  BY DEF Calls, Stacked
<1>3. /\ Stacked(fiber, loaded) /\ Len(fiber) = Len(frames) - k + 1
      /\ \A i \in 1..Len(frames) - k + 1 : fiber[i] = frames[k + i - 1]
  BY <1>1, <1>2, SuffixStacked, SMTT(30)
<1> HIDE DEF fiber
<1>4. fiber # <<>> /\ fiber[Len(fiber)] = Top
  <2>1. /\ Len(fiber) \in 1..Len(frames) - k + 1 /\ k + Len(fiber) - 1 = Len(frames)
        /\ Len(fiber) > 0
    <3>1. Len(fiber) = Len(frames) - k + 1
      BY <1>3
    <3>2. Len(frames) \in Nat /\ k \in 1..Len(frames)
      BY <1>2
    <3> DEFINE n == Len(frames)
               l == Len(fiber)
    <3>3. n \in Nat /\ k \in 1..n /\ l = n - k + 1
      BY <3>1, <3>2
    <3> HIDE DEF n, l
    <3>4. l \in 1..n - k + 1 /\ k + l - 1 = n /\ l > 0
      BY <3>3
    <3> QED
      BY <3>4 DEF n, l
  <2>2. fiber[Len(fiber)] = frames[k + Len(fiber) - 1]
    BY <1>3, <2>1
  <2>3. fiber # <<>>
    BY <1>3, <2>1, EmptySeq DEF Stacked
  <2> QED
    BY <2>1, <2>2, <2>3 DEF Top
<1>5. Waiting(fiber, loaded)
  BY <1>1, <1>3, <1>4 DEF Waiting
<1>6. /\ suspended \in Seq(Seq(Frames)) /\ fiber \in Seq(Frames)
      /\ \A i \in 1..Len(suspended) : Waiting(suspended[i], loaded)
  BY <1>3 DEF Calls, Stacked
<1>7. /\ suspended' \in Seq(Seq(Frames)) /\ Len(suspended') = Len(suspended) + 1
      /\ Len(suspended) \in Nat
      /\ \A i \in 1..Len(suspended) : suspended'[i] = suspended[i]
      /\ suspended'[Len(suspended) + 1] = fiber
  BY <1>1, <1>6, AppendProperties
<1>8. \A i \in 1..Len(suspended') : Waiting(suspended'[i], loaded)
  <2>1. ASSUME NEW i \in 1..Len(suspended')
        PROVE  i \in 1..Len(suspended) \/ i = Len(suspended) + 1
    BY <1>7
  <2> QED
    BY <1>5, <1>6, <1>7, <2>1
<1>9. /\ Stacked(frames', loaded) /\ Len(frames') = k - 1
      /\ \A i \in 1..k - 1 : frames'[i] = frames[i]
  BY <1>1, <1>2, PrefixStacked
<1>10. frames' # <<>> => k - 1 \in 1..Len(frames)
  BY <1>2, <1>9, EmptySeq DEF Stacked
<1>11. k - 1 \in 1..Len(frames) => frames[k - 1].importing = None
  BY <1>1, <1>2, SMTT(30) DEF Stacked
<1>12. ImportsRight'
  BY <1>9, <1>10, <1>11 DEF ImportsRight
<1> QED
  BY <1>1, <1>7, <1>8, <1>9, <1>12, DropKeeps DEF Data

LEMMA ResumeKeeps ==
  ASSUME Data, Calls, NEW k \in DOMAIN suspended, NEW how \in {"call", "try"},
         Resume(k, how)
  PROVE  Keeps
<1> DEFINE fiber == [suspended[k] EXCEPT ![1].fiber = how]
<1>1. /\ frames # <<>> /\ Top.importing = None /\ suspended[k][1].fiber # "root"
      /\ suspended' = RemoveAt(suspended, k)
      /\ frames' = frames \o fiber
      /\ UNCHANGED <<loaded, variables, lastModule, bodies, cut>>
  BY DEF Resume, Runs
<1>2. /\ suspended \in Seq(Seq(Frames)) /\ Len(suspended) \in Nat
      /\ k \in 1..Len(suspended)
      /\ \A i \in 1..Len(suspended) : Waiting(suspended[i], loaded)
  BY DEF Calls
<1>3. Waiting(fiber, loaded) /\ fiber[1].fiber = how
  <2> DEFINE t == suspended[k]
  <2>1. Waiting(t, loaded) /\ t[1].fiber # "root"
    BY <1>1, <1>2
  <2> HIDE DEF t
  <2>2. /\ Waiting([t EXCEPT ![1].fiber = how], loaded)
        /\ [t EXCEPT ![1].fiber = how][1].fiber = how
    BY <2>1, InvokedWaits
  <2> QED
    BY <2>2 DEF t
<1> HIDE DEF fiber
<1>4. /\ Stacked(frames', loaded) /\ frames' # <<>>
      /\ frames'[Len(frames')].importing = None
  BY <1>1, <1>3, ConcatStacked DEF Calls, Top
<1>5. /\ suspended' \in Seq(Seq(Frames))
      /\ \A i \in 1..Len(suspended') :
           \E j \in 1..Len(suspended) : suspended'[i] = suspended[j]
  <2> DEFINE rest == RemoveAt(suspended, k)
  <2>1. suspended \in Seq(Seq(Frames)) /\ k \in 1..Len(suspended)
    BY <1>2
  <2>2. /\ rest \in Seq(Seq(Frames))
        /\ \A i \in 1..Len(rest) : \E j \in 1..Len(suspended) : rest[i] = suspended[j]
    BY <2>1, RemoveAtMembers
  <2>3. suspended' = rest
    BY <1>1
  <2> HIDE DEF rest
  <2> QED
    BY <2>2, <2>3
<1>6. \A i \in 1..Len(suspended') : Waiting(suspended'[i], loaded)
  BY <1>2, <1>5
<1>7. ImportsRight'
  BY <1>4 DEF ImportsRight
<1> QED
  BY <1>1, <1>4, <1>5, <1>6, <1>7, DropKeeps DEF Data

-----------------------------------------------------------------------------
(* Variables without a value.                                              *)

\* The running code or that of a suspended fiber has yet to define the name.
ToBeDefined(m, n) ==
  Owed(frames, m, n) \/ \E i \in DOMAIN suspended : Owed(suspended[i], m, n)

\* What a step does to frames, in these terms: a name that was to be defined still
\* is, unless it now has a value or its code is known to be cut off.
OwesAgain ==
  \A m \in Module, n \in Name :
    ToBeDefined(m, n) => ToBeDefined(m, n)' \/ m \in cut' \/ variables'[m][n] # "null"

\* Only a source that is compiled leaves a variable without a value.
NewlyUnset ==
  \A m \in Module, n \in Name :
    variables'[m][n] = "null" =>
      variables[m][n] = "null" \/ m \in cut' \/ ToBeDefined(m, n)'

LEMMA UnsetAgain ==
  ASSUME UnsetExplained, cut \subseteq cut', OwesAgain, NewlyUnset
  PROVE  UnsetExplained'
<1>1. /\ UnsetExplained <=> \A m \in Module, n \in Name :
                              variables[m][n] = "null" => m \in cut \/ ToBeDefined(m, n)
      /\ UnsetExplained' <=> \A m \in Module, n \in Name :
                               variables'[m][n] = "null" => m \in cut' \/ ToBeDefined(m, n)'
  BY DEF UnsetExplained, ToBeDefined
<1> QED
  BY <1>1 DEF OwesAgain, NewlyUnset

\* Of the frames above the k-th, and of those up to it.
LEMMA OwedPrefix ==
  ASSUME NEW R, NEW s, Stacked(s, R), NEW k \in 0..Len(s), NEW m, NEW n, Owed(s, m, n)
  PROVE  \/ Owed(SubSeq(s, 1, k), m, n)
         \/ \E j \in k + 1..Len(s) : s[j].module = m /\ n \in s[j].todo
<1>1. /\ Len(SubSeq(s, 1, k)) = k /\ SubSeq(s, 1, k) \in Seq(Frames)
      /\ \A i \in 1..k : SubSeq(s, 1, k)[i] = s[i]
  BY PrefixStacked DEF Stacked
<1>2. s \in Seq(Frames) /\ Len(s) \in Nat /\ DOMAIN s = 1..Len(s)
  BY DEF Stacked
<1> DEFINE t == SubSeq(s, 1, k)
<1>3. DOMAIN t = 1..k
  BY <1>1
<1>4. PICK j \in 1..Len(s) : s[j].module = m /\ n \in s[j].todo
  BY <1>2 DEF Owed
<1> HIDE DEF t
<1>5. CASE j <= k
  <2>1. j \in 1..k /\ t[j] = s[j]
    BY <1>1, <1>2, <1>5 DEF t
  <2>2. Owed(t, m, n)
    BY <1>3, <1>4, <2>1 DEF Owed
  <2> QED
    BY <2>2 DEF t
<1>6. CASE j > k
  BY <1>2, <1>4, <1>6
<1> QED
  BY <1>2, <1>5, <1>6

LEMMA OwedAppend ==
  ASSUME NEW S, NEW s \in Seq(S), NEW f \in S, NEW m, NEW n
  PROVE  Owed(Append(s, f), m, n) <=>
           Owed(s, m, n) \/ (f.module = m /\ n \in f.todo)
<1> DEFINE t == Append(s, f)
<1>1. /\ Len(s) \in Nat /\ DOMAIN s = 1..Len(s)
      /\ t \in Seq(S) /\ Len(t) = Len(s) + 1 /\ DOMAIN t = 1..Len(s) + 1
      /\ \A i \in 1..Len(s) : t[i] = s[i]
      /\ t[Len(s) + 1] = f
  BY AppendProperties
<1> HIDE DEF t
<1>2. \A k : k \in 1..Len(s) + 1 <=> k \in 1..Len(s) \/ k = Len(s) + 1
  BY <1>1
<1>3. Owed(t, m, n) <=> Owed(s, m, n) \/ (f.module = m /\ n \in f.todo)
  BY <1>1, <1>2 DEF Owed
<1> QED
  BY <1>3 DEF t

\* The top frame takes another place in its code.
LEMMA OwedTop ==
  ASSUME NEW R, NEW s, Stacked(s, R), s # <<>>, NEW f \in Frames,
         f.module = s[Len(s)].module, NEW m, NEW n, Owed(s, m, n),
         n \in f.todo \/ n \notin s[Len(s)].todo \/ m # f.module
  PROVE  Owed([s EXCEPT ![Len(s)] = f], m, n)
<1> DEFINE t == [s EXCEPT ![Len(s)] = f]
<1>1. s \in Seq(Frames) /\ Len(s) \in Nat /\ Len(s) > 0 /\ DOMAIN s = 1..Len(s)
  BY EmptySeq DEF Stacked
<1>2. /\ DOMAIN t = 1..Len(s)
      /\ \A j \in 1..Len(s) : t[j] = IF j = Len(s) THEN f ELSE s[j]
  BY <1>1
<1> HIDE DEF t
<1>3. PICK j \in 1..Len(s) : s[j].module = m /\ n \in s[j].todo
  BY <1>1 DEF Owed
<1>4. t[j].module = m /\ n \in t[j].todo
  BY <1>2, <1>3
<1>5. Owed(t, m, n)
  BY <1>2, <1>4 DEF Owed
<1> QED
  BY <1>5 DEF t

LEMMA OwedConcat ==
  ASSUME NEW s \in Seq(Frames), NEW t \in Seq(Frames), NEW m, NEW n
  PROVE  Owed(s, m, n) \/ Owed(t, m, n) => Owed(s \o t, m, n)
<1> DEFINE v == s \o t
<1>1. /\ Len(s) \in Nat /\ Len(t) \in Nat
      /\ DOMAIN s = 1..Len(s) /\ DOMAIN t = 1..Len(t)
  OBVIOUS
<1>2. /\ v \in Seq(Frames) /\ Len(v) = Len(s) + Len(t) /\ DOMAIN v = 1..Len(s) + Len(t)
      /\ \A i \in 1..Len(s) + Len(t) : v[i] = IF i <= Len(s) THEN s[i] ELSE t[i - Len(s)]
  BY ConcatProperties
<1> HIDE DEF v
<1>3. ASSUME Owed(s, m, n)
      PROVE  Owed(v, m, n)
  <2>1. PICK k \in 1..Len(s) : s[k].module = m /\ n \in s[k].todo
    BY <1>1, <1>3 DEF Owed
  <2>2. k \in 1..Len(s) + Len(t) /\ v[k] = s[k]
    BY <1>1, <1>2
  <2> QED
    BY <1>2, <2>1, <2>2 DEF Owed
<1>4. ASSUME Owed(t, m, n)
      PROVE  Owed(v, m, n)
  <2>1. PICK k \in 1..Len(t) : t[k].module = m /\ n \in t[k].todo
    BY <1>1, <1>4 DEF Owed
  <2> DEFINE j == Len(s) + k
  <2>2. j \in 1..Len(s) + Len(t) /\ ~(j <= Len(s)) /\ j - Len(s) = k
    BY <1>1
  <2>3. v[j] = t[k]
    BY <1>2, <2>2
  <2> HIDE DEF j
  <2> QED
    BY <1>2, <2>1, <2>2, <2>3 DEF Owed
<1> QED
  BY <1>3, <1>4 DEF v

\* The frames of a fiber, and those below it.
LEMMA OwedSplit ==
  ASSUME NEW R, NEW s, Stacked(s, R), NEW k \in 1..Len(s), s[k].fiber # "same",
         \A j \in k + 1..Len(s) : s[j].fiber = "same", NEW m, NEW n, Owed(s, m, n)
  PROVE  Owed(SubSeq(s, 1, k - 1), m, n) \/ Owed(SubSeq(s, k, Len(s)), m, n)
<1>1. Len(s) \in Nat /\ k - 1 \in 0..Len(s) /\ k - 1 + 1 = k
  BY DEF Stacked
<1> DEFINE t == SubSeq(s, k, Len(s))
<1>2. /\ t \in Seq(Frames) /\ Len(t) = Len(s) - k + 1
      /\ \A i \in 1..Len(s) - k + 1 : t[i] = s[k + i - 1]
  BY SuffixStacked DEF Stacked
<1> HIDE DEF t
<1>3. DOMAIN t = 1..Len(s) - k + 1
  BY <1>2
<1>4. ASSUME NEW j \in k..Len(s), s[j].module = m, n \in s[j].todo
      PROVE  Owed(t, m, n)
  <2> DEFINE i == j - k + 1
  <2>1. i \in 1..Len(s) - k + 1 /\ k + i - 1 = j
    BY <1>1
  <2> HIDE DEF i
  <2>2. t[i] = s[j]
    BY <1>2, <2>1
  <2> QED
    BY <1>3, <1>4, <2>1, <2>2 DEF Owed
<1>5. \/ Owed(SubSeq(s, 1, k - 1), m, n)
      \/ \E j \in k - 1 + 1..Len(s) : s[j].module = m /\ n \in s[j].todo
  BY <1>1, OwedPrefix
<1> QED
  BY <1>1, <1>4, <1>5 DEF t

\* How a fiber is invoked does not matter.
LEMMA OwedInvoked ==
  ASSUME NEW R, NEW t, Waiting(t, R), NEW how \in {"call", "try"}, NEW m, NEW n,
         Owed(t, m, n)
  PROVE  Owed([t EXCEPT ![1].fiber = how], m, n)
<1>1. t \in Seq(Frames) /\ DOMAIN t = 1..Len(t)
  BY DEF Waiting, Stacked
<1>2. \A k \in 1..Len(t) : t[k] \in Frames
  BY <1>1, ElementOfSeq
<1> DEFINE u == [t EXCEPT ![1].fiber = how]
<1>3. DOMAIN u = 1..Len(t)
  BY <1>1
<1>4. \A k \in 1..Len(t) : u[k].module = t[k].module /\ u[k].todo = t[k].todo
  BY <1>1, <1>2 DEF Frames
<1> HIDE DEF u
<1>5. Owed(u, m, n)
  BY <1>1, <1>3, <1>4 DEF Owed
<1> QED
  BY <1>5 DEF u

Owing == cut \subseteq cut' /\ OwesAgain /\ NewlyUnset

\* The frames an error drops had defined their names, or are known to be cut off.
LEMMA FailOwes ==
  ASSUME Calls, frames # <<>>, NEW more, Fail(more), suspended' = suspended
  PROVE  cut \subseteq cut' /\ more \subseteq cut' /\ OwesAgain
<1>1. PICK k \in 0..Len(frames) - 1 :
        /\ frames' = SubSeq(frames, 1, k)
        /\ cut' = cut \cup more \cup CutFrom(k + 1)
  BY DEF Fail
<1>2. k \in 0..Len(frames) /\ Stacked(frames, loaded)
  BY TopFrame DEF Calls
<1>3. ASSUME NEW m, NEW n, Owed(frames, m, n)
      PROVE  Owed(frames', m, n) \/ m \in cut'
  <2>1. \/ Owed(SubSeq(frames, 1, k), m, n)
        \/ \E j \in k + 1..Len(frames) : frames[j].module = m /\ n \in frames[j].todo
    BY <1>2, <1>3, OwedPrefix
  <2>2. ASSUME NEW j \in k + 1..Len(frames), frames[j].module = m, n \in frames[j].todo
        PROVE  m \in cut'
    BY <1>1, <2>2 DEF CutFrom
  <2> QED
    BY <1>1, <2>1, <2>2
<1> QED
  BY <1>1, <1>3 DEF OwesAgain, ToBeDefined

\* Compiling leaves the variables without a value that the source defines.
LEMMA CompileUnsets ==
  ASSUME Data, NEW m \in Module, NEW source \in Sources, NEW valid \in BOOLEAN,
         Compile(m, source, valid), NEW o \in Module, NEW n \in Name,
         variables'[o][n] = "null"
  PROVE  variables[o][n] = "null" \/ (o = m /\ source[n].defined)
<1>1. /\ variables' = [variables EXCEPT ![m] = Declared(m, source)]
      /\ variables \in [Module -> [Name -> Values]]
  BY DEF Compile, Data
<1>2. CASE o # m
  BY <1>1, <1>2
<1>3. CASE o = m
  <2>1. Declared(m, source)[n] = "null"
    BY <1>1, <1>3
  <2>2. Declared(m, source)[n] =
          Defined(Used(Existing(m)[n], source[n].used), source[n].defined)
    BY DEF Declared
  <2>3. source[n].defined \/ Existing(m)[n] = "null"
    BY <2>1, <2>2 DEF Defined, Used
  <2>4. Existing(m)[n] = "null" => variables[m][n] = "null"
    BY DEF Existing, CoreVariables
  <2> QED
    BY <1>3, <2>3, <2>4
<1> QED
  BY <1>2, <1>3

\* A body that is about to run defines what its source does.
LEMMA BodyOwes ==
  ASSUME NEW m \in Module, NEW source \in Sources, NEW fiber \in {"root", "same"},
         NEW n \in Name, source[n].defined
  PROVE  Body(m, source, fiber).module = m /\ n \in Body(m, source, fiber).todo
BY DEF Body

LEMMA InterpretOwes ==
  ASSUME Data, Calls, NEW m \in Module, NEW source \in Sources, NEW valid \in BOOLEAN,
         WrenInterpret(m, source, valid)
  PROVE  Owing
<1> DEFINE b == Body(m, source, "root")
<1>1. /\ Compile(m, source, valid) /\ suspended' = suspended /\ frames = <<>>
      /\ \/ frames' = <<b>> /\ cut' = cut
         \/ cut' = cut \cup {m} /\ frames' = <<>>
  BY DEF WrenInterpret
<1>2. \A n \in Name : source[n].defined => b.module = m /\ n \in b.todo
  BY BodyOwes
<1> HIDE DEF b
<1>3. ASSUME NEW n \in Name, source[n].defined
      PROVE  m \in cut' \/ ToBeDefined(m, n)'
  <2>1. CASE frames' = <<b>>
    <3>1. 1 \in DOMAIN frames' /\ frames'[1] = b
      BY <2>1
    <3> QED
      BY <1>2, <1>3, <3>1 DEF ToBeDefined, Owed
  <2> QED
    BY <1>1, <2>1
<1>4. OwesAgain
  BY <1>1 DEF OwesAgain, ToBeDefined, Owed
<1>5. NewlyUnset
  BY <1>1, <1>3, CompileUnsets DEF NewlyUnset
<1> QED
  BY <1>1, <1>4, <1>5 DEF Owing

LEMMA MetaOwes ==
  ASSUME Data, Calls, NEW source \in Sources, NEW valid \in BOOLEAN,
         MetaEval(source, valid)
  PROVE  Owing
<1>0. PICK m \in {Top.module} : TRUE
  OBVIOUS
<1> DEFINE b == Body(m, source, "same")
<1>1. /\ frames # <<>> /\ Compile(m, source, valid) /\ suspended' = suspended
      /\ \/ frames' = Append(frames, b) /\ cut' = cut
         \/ Fail({m})
  BY <1>0 DEF MetaEval, Runs
<1>2. m \in Module
  BY <1>0, <1>1, TopFrame DEF Data
<1>3. b \in Frames /\ \A n \in Name : source[n].defined => b.module = m /\ n \in b.todo
  BY <1>2, BodyFrame, BodyOwes
<1> HIDE DEF b
<1>4. CASE frames' = Append(frames, b) /\ cut' = cut
  <2>1. \A o, n : Owed(frames', o, n) <=> Owed(frames, o, n) \/ (b.module = o /\ n \in b.todo)
    <3>1. frames \in Seq(Frames)
      BY DEF Calls, Stacked
    <3> QED
      BY <1>3, <1>4, <3>1, OwedAppend
  <2>2. OwesAgain
    BY <1>1, <2>1 DEF OwesAgain, ToBeDefined
  <2>3. \A n \in Name : source[n].defined => ToBeDefined(m, n)'
    BY <1>3, <2>1 DEF ToBeDefined
  <2>4. NewlyUnset
    BY <1>1, <1>2, <2>3, CompileUnsets DEF NewlyUnset
  <2> QED
    BY <1>4, <2>2, <2>4 DEF Owing
<1>5. CASE Fail({m})
  <2>1. cut \subseteq cut' /\ m \in cut' /\ OwesAgain
    BY <1>1, <1>5, FailOwes
  <2>2. NewlyUnset
    BY <1>1, <1>2, <2>1, CompileUnsets DEF NewlyUnset
  <2> QED
    BY <2>1, <2>2 DEF Owing
<1> QED
  BY <1>1, <1>4, <1>5

LEMMA ImportSourceOwes ==
  ASSUME Data, Calls, NEW m \in Module, NEW source \in Sources, NEW valid \in BOOLEAN,
         ImportSource(m, source, valid)
  PROVE  Owing
<1> DEFINE f == [Top EXCEPT !.importing = m]
           b == Body(m, source, "same")
           stack == [frames EXCEPT ![Len(frames)] = f]
<1>1. /\ frames # <<>> /\ Compile(m, source, valid) /\ suspended' = suspended
      /\ \/ frames' = Append(stack, b) /\ cut' = cut
         \/ Fail({m})
  BY DEF ImportSource, Runs, WithTop
<1>2. Top \in Frames /\ Top = frames[Len(frames)]
  BY <1>1, TopFrame DEF Top
<1>3. /\ f \in Frames /\ f.module = Top.module /\ f.fiber = Top.fiber
      /\ f.code = Top.code /\ f.todo = Top.todo
  BY <1>2 DEF Frames
<1>4. b \in Frames /\ \A n \in Name : source[n].defined => b.module = m /\ n \in b.todo
  BY BodyFrame, BodyOwes
<1> HIDE DEF b, f
<1>5. stack \in Seq(Frames)
  BY <1>1, <1>2, <1>3, TopStacked DEF Calls, Stacked
<1>6. \A o, n : Owed(frames, o, n) => Owed(stack, o, n)
  <2> TAKE o, n
  <2> HAVE Owed(frames, o, n)
  <2>1. Stacked(frames, loaded) /\ f.module = frames[Len(frames)].module
        /\ (n \in f.todo \/ n \notin frames[Len(frames)].todo)
    BY <1>2, <1>3 DEF Calls
  <2> QED
    BY <1>1, <1>3, <2>1, OwedTop
<1> HIDE DEF stack
<1>7. CASE frames' = Append(stack, b) /\ cut' = cut
  <2>1. \A o, n : Owed(frames', o, n) <=> Owed(stack, o, n) \/ (b.module = o /\ n \in b.todo)
    BY <1>4, <1>5, <1>7, OwedAppend
  <2>2. OwesAgain
    BY <1>1, <1>6, <2>1 DEF OwesAgain, ToBeDefined
  <2>3. \A n \in Name : source[n].defined => ToBeDefined(m, n)'
    BY <1>4, <2>1 DEF ToBeDefined
  <2>4. NewlyUnset
    BY <1>1, <2>3, CompileUnsets DEF NewlyUnset
  <2> QED
    BY <1>7, <2>2, <2>4 DEF Owing
<1>8. CASE Fail({m})
  <2>1. cut \subseteq cut' /\ m \in cut' /\ OwesAgain
    BY <1>1, <1>8, FailOwes
  <2>2. NewlyUnset
    BY <1>1, <2>1, CompileUnsets DEF NewlyUnset
  <2> QED
    BY <2>1, <2>2 DEF Owing
<1> QED
  BY <1>1, <1>7, <1>8

\* A step of the top frame that defines a name gives it a value.
LEMMA TopOwes ==
  ASSUME Data, Calls, frames # <<>>, NEW f \in Frames, f.module = Top.module,
         frames' = [frames EXCEPT ![Len(frames)] = f],
         suspended' = suspended, cut' = cut,
         \/ f.todo = Top.todo /\ variables' = variables
         \/ \E n \in Name, v \in {"number", "other"} :
              /\ f.todo = Top.todo \ {n}
              /\ variables' = [variables EXCEPT ![Top.module][n] = v]
  PROVE  Owing
<1>1. Top.module \in Module /\ Stacked(frames, loaded) /\ Top = frames[Len(frames)]
  BY TopFrame DEF Data, Calls, Top
<1>2. CASE f.todo = Top.todo /\ variables' = variables
  <2>1. \A m, n : Owed(frames, m, n) => Owed(frames', m, n)
    <3> TAKE m, n
    <3> HAVE Owed(frames, m, n)
    <3>1. n \in f.todo \/ n \notin frames[Len(frames)].todo
      BY <1>1, <1>2
    <3> QED
      BY <1>1, <3>1, OwedTop
  <2> QED
    BY <1>2, <2>1 DEF Owing, OwesAgain, NewlyUnset, ToBeDefined
<1>3. ASSUME NEW i \in Name, NEW v \in {"number", "other"}, f.todo = Top.todo \ {i},
             variables' = [variables EXCEPT ![Top.module][i] = v]
      PROVE  Owing
  <2>1. \A m, n : Owed(frames, m, n) => Owed(frames', m, n) \/ (m = Top.module /\ n = i)
    <3> TAKE m, n
    <3> HAVE Owed(frames, m, n)
    <3> SUFFICES ASSUME ~(m = Top.module /\ n = i)
                 PROVE  Owed(frames', m, n)
      OBVIOUS
    <3>1. n \in f.todo \/ n \notin frames[Len(frames)].todo \/ m # f.module
      BY <1>1, <1>3
    <3> QED
      BY <1>1, <3>1, OwedTop
  <2>2. /\ variables'[Top.module][i] = v /\ v # "null"
        /\ \A m \in Module, n \in Name :
             variables'[m][n] # "null" \/ variables[m][n] = "null"
             \/ (m = Top.module /\ n = i)
    BY <1>1, <1>3 DEF Data
  <2>3. OwesAgain
    BY <2>1, <2>2 DEF OwesAgain, ToBeDefined
  <2>4. NewlyUnset
    BY <2>2 DEF NewlyUnset
  <2> QED
    BY <2>3, <2>4 DEF Owing
<1> QED
  BY <1>2, <1>3

LEMMA ImportLoadedOwes ==
  ASSUME Data, Calls, NEW m \in Module, ImportLoaded(m)
  PROVE  Owing
<1> DEFINE f == [Top EXCEPT !.importing = m]
<1>1. /\ frames # <<>> /\ frames' = [frames EXCEPT ![Len(frames)] = f]
      /\ UNCHANGED <<variables, suspended, cut>> /\ Top \in Frames
  BY TopFrame DEF ImportLoaded, Runs, WithTop
<1>2. f \in Frames /\ f.module = Top.module /\ f.todo = Top.todo
  BY <1>1 DEF Frames
<1> HIDE DEF f
<1> QED
  BY <1>1, <1>2, TopOwes

LEMMA ImportVariableOwes ==
  ASSUME Data, Calls, NEW n \in Name, NEW as \in Name, ImportVariable(n, as)
  PROVE  Owing
<1> DEFINE f == [Top EXCEPT !.todo = @ \ {as}]
<1>1. /\ frames # <<>> /\ frames' = [frames EXCEPT ![Len(frames)] = f]
      /\ UNCHANGED <<suspended, cut>> /\ Top \in Frames
      /\ \E v \in {"number", "other"} :
           variables' = [variables EXCEPT ![Top.module][as] = v]
  BY TopFrame DEF ImportVariable, WithTop, Copied
<1>2. f \in Frames /\ f.module = Top.module /\ f.todo = Top.todo \ {as}
  BY <1>1 DEF Frames
<1> HIDE DEF f
<1> QED
  BY <1>1, <1>2, TopOwes

LEMMA ImportDoneOwes ==
  ASSUME Data, Calls, ImportDone
  PROVE  Owing
<1> DEFINE f == [Top EXCEPT !.importing = None]
<1>1. /\ frames # <<>> /\ frames' = [frames EXCEPT ![Len(frames)] = f]
      /\ UNCHANGED <<variables, suspended, cut>> /\ Top \in Frames
  BY TopFrame DEF ImportDone, WithTop
<1>2. f \in Frames /\ f.module = Top.module /\ f.todo = Top.todo
  BY <1>1 DEF Frames
<1> HIDE DEF f
<1> QED
  BY <1>1, <1>2, TopOwes

LEMMA DefineOwes ==
  ASSUME Data, Calls, NEW n \in Name, NEW v \in {"number", "other"}, Define(n, v)
  PROVE  Owing
<1> DEFINE f == [Top EXCEPT !.todo = @ \ {n}]
<1>1. /\ frames # <<>> /\ frames' = [frames EXCEPT ![Len(frames)] = f]
      /\ UNCHANGED <<suspended, cut>> /\ Top \in Frames
      /\ variables' = [variables EXCEPT ![Top.module][n] = v]
  BY TopFrame DEF Define, Runs, WithTop
<1>2. f \in Frames /\ f.module = Top.module /\ f.todo = Top.todo \ {n}
  BY <1>1 DEF Frames
<1> HIDE DEF f
<1> QED
  BY <1>1, <1>2, TopOwes

LEMMA AssignOwes ==
  ASSUME Data, Calls, NEW n \in Name, NEW v \in {"number", "other"}, Assign(n, v)
  PROVE  Owing
<1>1. /\ UNCHANGED <<frames, suspended, cut>> /\ Top.module \in Module
      /\ variables' = [variables EXCEPT ![Top.module][n] = v]
  BY TopFrame DEF Assign, Runs, Data
<1>2. \A o \in Module, i \in Name : variables'[o][i] = "null" => variables[o][i] = "null"
  BY <1>1 DEF Data
<1> QED
  BY <1>1, <1>2 DEF Owing, OwesAgain, NewlyUnset, ToBeDefined

\* The frame that is left has nothing to define, or is known to be cut off.
LEMMA FrontOwes ==
  ASSUME Calls, frames # <<>>, frames' = Front(frames),
         suspended' = suspended, variables' = variables, cut \subseteq cut',
         Top.todo = {} \/ cut' = cut \cup CutFrom(Len(frames))
  PROVE  Owing
<1> DEFINE n == Len(frames)
<1>1. /\ Stacked(frames, loaded) /\ n \in Nat /\ n > 0 /\ n - 1 \in 0..n
      /\ frames' = SubSeq(frames, 1, n - 1) /\ n - 1 + 1 = n
  BY TopFrame DEF Calls, Front
<1>2. ASSUME NEW m, NEW i, Owed(frames, m, i)
      PROVE  Owed(frames', m, i) \/ m \in cut'
  <2>1. \/ Owed(frames', m, i)
        \/ \E j \in n - 1 + 1..n : frames[j].module = m /\ i \in frames[j].todo
    BY <1>1, <1>2, OwedPrefix
  <2>2. \A j \in n - 1 + 1..n : j = n
    <3> HIDE DEF n
    <3> QED
      BY <1>1
  <2>3. ASSUME frames[n].module = m, i \in frames[n].todo
        PROVE  m \in cut'
    <3>1. Top.todo # {}
      BY <2>3 DEF Top
    <3>2. n \in n..n
      BY <1>1
    <3>3. m \in CutFrom(n)
      BY <2>3, <3>2 DEF CutFrom
    <3> QED
      BY <3>1, <3>3
  <2> HIDE DEF n
  <2> QED
    BY <2>1, <2>2, <2>3
<1> QED
  BY <1>2 DEF Owing, OwesAgain, NewlyUnset, ToBeDefined

LEMMA CallFiberOwes ==
  ASSUME Data, Calls, NEW how \in {"call", "try"}, CallFiber(how)
  PROVE  Owing
<1> DEFINE f == [module |-> Top.module, todo |-> {}, importing |-> None,
                 fiber |-> how, code |-> "function"]
<1>1. /\ frames # <<>> /\ frames' = Append(frames, f)
      /\ UNCHANGED <<variables, suspended, cut>>
  BY DEF CallFiber, Runs
<1>2. f \in Frames /\ f.todo = {} /\ frames \in Seq(Frames)
  BY <1>1, TopFrame DEF Data, Frames, Calls, Stacked
<1> HIDE DEF f
<1>3. \A m, n : Owed(frames, m, n) => Owed(frames', m, n)
  BY <1>1, <1>2, OwedAppend
<1> QED
  BY <1>1, <1>3 DEF Owing, OwesAgain, NewlyUnset, ToBeDefined

LEMMA YieldOwes ==
  ASSUME Data, Calls, NEW k \in DOMAIN frames, Yield(k)
  PROVE  Owing
<1> DEFINE fiber == SubSeq(frames, k, Len(frames))
<1>1. /\ frames[k].fiber # "same"
      /\ \A j \in k + 1..Len(frames) : frames[j].fiber = "same"
      /\ suspended' = Append(suspended, fiber)
      /\ frames' = SubSeq(frames, 1, k - 1)
      /\ UNCHANGED <<variables, cut>>
  BY DEF Yield
<1>2. Stacked(frames, loaded) /\ k \in 1..Len(frames) /\ suspended \in Seq(Seq(Frames))
  BY DEF Calls, Stacked
<1>3. fiber \in Seq(Frames)
  BY <1>1, <1>2, SuffixStacked DEF Stacked
<1>4. \A m, n : Owed(frames, m, n) => Owed(frames', m, n) \/ Owed(fiber, m, n)
  BY <1>1, <1>2, OwedSplit
<1> HIDE DEF fiber
<1>5. /\ Len(suspended) \in Nat /\ DOMAIN suspended = 1..Len(suspended)
      /\ suspended' \in Seq(Seq(Frames)) /\ Len(suspended') = Len(suspended) + 1
      /\ \A i \in 1..Len(suspended) : suspended'[i] = suspended[i]
      /\ suspended'[Len(suspended) + 1] = fiber
  BY <1>1, <1>2, <1>3, AppendProperties
<1>6. /\ DOMAIN suspended' = 1..Len(suspended) + 1
      /\ \A i \in 1..Len(suspended) : i \in DOMAIN suspended'
      /\ Len(suspended) + 1 \in DOMAIN suspended'
  BY <1>5
<1>7. \A m, n : ToBeDefined(m, n) => ToBeDefined(m, n)'
  BY <1>4, <1>5, <1>6 DEF ToBeDefined
<1> QED
  BY <1>1, <1>7 DEF Owing, OwesAgain, NewlyUnset

LEMMA ResumeOwes ==
  ASSUME Data, Calls, NEW k \in DOMAIN suspended, NEW how \in {"call", "try"},
         Resume(k, how)
  PROVE  Owing
<1> DEFINE fiber == [suspended[k] EXCEPT ![1].fiber = how]
           rest == RemoveAt(suspended, k)
<1>1. /\ suspended' = rest /\ frames' = frames \o fiber
      /\ suspended[k][1].fiber # "root" /\ UNCHANGED <<variables, cut>>
  BY DEF Resume
<1>2. /\ frames \in Seq(Frames) /\ suspended \in Seq(Seq(Frames))
      /\ DOMAIN suspended = 1..Len(suspended) /\ k \in 1..Len(suspended)
      /\ Waiting(suspended[k], loaded)
  BY DEF Calls, Stacked
<1>3. fiber \in Seq(Frames) /\ \A m, n : Owed(suspended[k], m, n) => Owed(fiber, m, n)
  <2> DEFINE t == suspended[k]
  <2>1. Waiting(t, loaded) /\ t[1].fiber # "root"
    BY <1>1, <1>2
  <2> HIDE DEF t
  <2>2. /\ Waiting([t EXCEPT ![1].fiber = how], loaded)
        /\ \A m, n : Owed(t, m, n) => Owed([t EXCEPT ![1].fiber = how], m, n)
    BY <2>1, InvokedWaits, OwedInvoked
  <2> QED
    BY <2>2 DEF t, Waiting, Stacked
<1> HIDE DEF fiber
<1>4. \A m, n : Owed(frames, m, n) \/ Owed(suspended[k], m, n) => Owed(frames', m, n)
  BY <1>1, <1>2, <1>3, OwedConcat
<1>5. /\ rest \in Seq(Seq(Frames))
      /\ \A j \in 1..Len(suspended) : j # k => \E i \in 1..Len(rest) : rest[i] = suspended[j]
  BY <1>2, RemoveAtMembers
<1> HIDE DEF rest
<1>6. DOMAIN suspended' = 1..Len(rest)
  BY <1>1, <1>5
<1>7. \A j \in DOMAIN suspended : j # k => \E i \in DOMAIN suspended' : suspended'[i] = suspended[j]
  BY <1>1, <1>2, <1>5, <1>6
<1>8. \A m, n : ToBeDefined(m, n) => ToBeDefined(m, n)'
  BY <1>4, <1>7 DEF ToBeDefined
<1> QED
  BY <1>1, <1>8 DEF Owing, OwesAgain, NewlyUnset

LEMMA NextOwes ==
  ASSUME Data, Calls, [Next]_vars
  PROVE  Owing
<1>1. ASSUME NEW m \in HostModule, NEW source \in Sources, NEW valid \in BOOLEAN,
             WrenInterpret(m, source, valid)
      PROVE  Owing
  BY <1>1, InterpretOwes, ModulesAssumption
<1>2. ASSUME NEW m \in Module, NEW source \in Sources, NEW valid \in BOOLEAN,
             ImportSource(m, source, valid)
      PROVE  Owing
  BY <1>2, ImportSourceOwes
<1>3. ASSUME NEW source \in Sources, NEW valid \in BOOLEAN, MetaEval(source, valid)
      PROVE  Owing
  BY <1>3, MetaOwes
<1>4. ASSUME NEW m \in Module, ImportLoaded(m)
      PROVE  Owing
  BY <1>4, ImportLoadedOwes
<1>5. ASSUME NEW n \in Name, NEW as \in Name, ImportVariable(n, as)
      PROVE  Owing
  BY <1>5, ImportVariableOwes
<1>6. ASSUME frames # <<>>, Fail({}), suspended' = suspended, variables' = variables
      PROVE  Owing
  BY <1>6, FailOwes DEF Owing, NewlyUnset
<1>7. ASSUME NEW n \in Name, ImportVariableFails(n)
      PROVE  Owing
  BY <1>6, <1>7 DEF ImportVariableFails
<1>8. CASE ImportDone
  BY <1>8, ImportDoneOwes
<1>9. ASSUME NEW n \in Name, NEW v \in {"number", "other"}, Define(n, v) \/ Assign(n, v)
      PROVE  Owing
  BY <1>9, DefineOwes, AssignOwes
<1>10. CASE EndModule
  BY <1>10, FrontOwes DEF EndModule, Runs
<1>11. CASE Return
  BY <1>11, FrontOwes DEF Return, Runs
<1>12. CASE RuntimeError
  BY <1>6, <1>12 DEF RuntimeError, Runs
<1>13. ASSUME NEW how \in {"call", "try"}, CallFiber(how)
       PROVE  Owing
  BY <1>13, CallFiberOwes
<1>14. ASSUME NEW k \in DOMAIN frames, Yield(k)
       PROVE  Owing
  BY <1>14, YieldOwes
<1>15. ASSUME NEW k \in DOMAIN suspended, NEW how \in {"call", "try"}, Resume(k, how)
       PROVE  Owing
  BY <1>15, ResumeOwes
<1>16. CASE UNCHANGED vars
  BY <1>16 DEF vars, Owing, OwesAgain, NewlyUnset, ToBeDefined
<1> QED
  BY <1>1, <1>2, <1>3, <1>4, <1>5, <1>7, <1>8, <1>9, <1>10, <1>11, <1>12,
     <1>13, <1>14, <1>15, <1>16 DEF Next

-----------------------------------------------------------------------------
(* The lines that refused sources leave.                                   *)

LeavesLines ==
  \A m \in Module, n \in Name :
    variables'[m][n] = "line" /\ variables[m][n] # "line" => Len(frames') <= Len(frames)

\* A source that compiles leaves no line, and an error drops the top frame.
LEMMA CompileLeavesLines ==
  ASSUME Data, Calls, NEW m \in Module, NEW source \in Sources, NEW valid \in BOOLEAN,
         Compile(m, source, valid),
         Compiles(m, source) \/ frames' = frames \/ \E more : Fail(more)
  PROVE  LeavesLines
<1>1. Len(frames) \in Nat
  BY DEF Calls, Stacked
<1>2. CASE Compiles(m, source)
  BY <1>2, CompileFacts DEF LeavesLines
<1>3. CASE frames' = frames
  BY <1>1, <1>3 DEF LeavesLines
<1>4. ASSUME NEW more, Fail(more)
      PROVE  LeavesLines
  <2>1. PICK k \in 0..Len(frames) - 1 : frames' = SubSeq(frames, 1, k)
    BY <1>4 DEF Fail
  <2>2. k \in 0..Len(frames) /\ Stacked(frames, loaded)
    BY <1>1, <2>1 DEF Calls
  <2>3. Len(frames') = k
    BY <2>1, <2>2, PrefixStacked
  <2> QED
    BY <1>1, <2>2, <2>3 DEF LeavesLines
<1> QED
  BY <1>2, <1>3, <1>4

\* A variable that code stores into holds no line.
LEMMA StoreLeavesLines ==
  ASSUME Data, Calls, frames # <<>>, NEW n \in Name, NEW v \in {"number", "other"},
         variables' = [variables EXCEPT ![Top.module][n] = v]
  PROVE  LeavesLines
<1>1. Top.module \in Module
  BY TopFrame DEF Data
<1> QED
  BY <1>1, StoreFacts DEF LeavesLines

LEMMA NextLeavesLines ==
  ASSUME Data, Calls, [Next]_vars
  PROVE  LeavesLines
<1>1. ASSUME NEW m \in HostModule, NEW source \in Sources, NEW valid \in BOOLEAN,
             WrenInterpret(m, source, valid)
      PROVE  LeavesLines
  BY <1>1, CompileLeavesLines, ModulesAssumption DEF WrenInterpret
<1>2. ASSUME NEW m \in Module, NEW source \in Sources, NEW valid \in BOOLEAN,
             ImportSource(m, source, valid)
      PROVE  LeavesLines
  BY <1>2, CompileLeavesLines DEF ImportSource
<1>3. ASSUME NEW source \in Sources, NEW valid \in BOOLEAN, MetaEval(source, valid)
      PROVE  LeavesLines
  <2> DEFINE m == Top.module
  <2>1. /\ Compile(m, source, valid)
        /\ Compiles(m, source) \/ Fail({m})
    BY <1>3 DEF MetaEval
  <2>2. m \in Module
    BY <1>3, TopFrame DEF MetaEval, Runs, Data
  <2> HIDE DEF m
  <2> QED
    BY <2>1, <2>2, CompileLeavesLines
<1>4. ASSUME NEW n \in Name, NEW as \in Name, ImportVariable(n, as)
      PROVE  LeavesLines
  BY <1>4, StoreLeavesLines DEF ImportVariable, Copied
<1>5. ASSUME NEW n \in Name, NEW v \in {"number", "other"}, Define(n, v) \/ Assign(n, v)
      PROVE  LeavesLines
  BY <1>5, StoreLeavesLines DEF Define, Assign, Runs
<1>6. CASE variables' = variables
  BY <1>6 DEF LeavesLines
<1>7. ASSUME NEW m \in Module, ImportLoaded(m)
      PROVE  variables' = variables
  BY <1>7 DEF ImportLoaded
<1>8. ASSUME NEW n \in Name, ImportVariableFails(n)
      PROVE  variables' = variables
  BY <1>8 DEF ImportVariableFails
<1>9. ASSUME ImportDone \/ EndModule \/ Return \/ RuntimeError \/ UNCHANGED vars
      PROVE  variables' = variables
  BY <1>9 DEF ImportDone, EndModule, Return, RuntimeError, vars
<1>10. ASSUME NEW how \in {"call", "try"}, CallFiber(how)
       PROVE  variables' = variables
  BY <1>10 DEF CallFiber
<1>11. ASSUME NEW k \in DOMAIN frames, Yield(k)
       PROVE  variables' = variables
  BY <1>11 DEF Yield
<1>12. ASSUME NEW k \in DOMAIN suspended, NEW how \in {"call", "try"}, Resume(k, how)
       PROVE  variables' = variables
  BY <1>12 DEF Resume
<1> QED
  BY <1>1, <1>2, <1>3, <1>4, <1>5, <1>6, <1>7, <1>8, <1>9, <1>10, <1>11, <1>12
  DEF Next

-----------------------------------------------------------------------------
(* Theorems.                                                               *)

LEMMA InitKeeps == Init => Data /\ Calls /\ ImportsRight
<1> SUFFICES ASSUME Init
             PROVE  Data /\ Calls /\ ImportsRight
  OBVIOUS
<1>1. Data
  BY DEF Init, Data, Values, BodyOnce
<1>2. Calls /\ ImportsRight
  BY DEF Init, Calls, Stacked, ImportsRight
<1> QED
  BY <1>1, <1>2

LEMMA NextKeeps ==
  ASSUME Data, Calls, [Next]_vars
  PROVE  Keeps
<1>1. ASSUME NEW m \in HostModule, NEW source \in Sources, NEW valid \in BOOLEAN,
             WrenInterpret(m, source, valid)
      PROVE  Keeps
  BY <1>1, InterpretKeeps, ModulesAssumption
<1>2. ASSUME NEW m \in Module, NEW source \in Sources, NEW valid \in BOOLEAN,
             ImportSource(m, source, valid)
      PROVE  Keeps
  BY <1>2, ImportSourceKeeps
<1>3. ASSUME NEW source \in Sources, NEW valid \in BOOLEAN, MetaEval(source, valid)
      PROVE  Keeps
  BY <1>3, MetaKeeps
<1>4. ASSUME NEW m \in Module, ImportLoaded(m)
      PROVE  Keeps
  BY <1>4, ImportLoadedKeeps
<1>5. ASSUME NEW n \in Name, NEW as \in Name, ImportVariable(n, as)
      PROVE  Keeps
  BY <1>5, ImportVariableKeeps
<1>6. ASSUME NEW n \in Name, ImportVariableFails(n)
      PROVE  Keeps
  BY <1>6, FailKeeps DEF ImportVariableFails
<1>7. CASE ImportDone
  BY <1>7, ImportDoneKeeps
<1>8. ASSUME NEW n \in Name, NEW v \in {"number", "other"}, Define(n, v) \/ Assign(n, v)
      PROVE  Keeps
  BY <1>8, DefineKeeps, AssignKeeps
<1>9. CASE EndModule
  BY <1>9, EndModuleKeeps
<1>10. CASE Return
  BY <1>10, ReturnKeeps
<1>11. CASE RuntimeError
  BY <1>11, FailKeeps DEF RuntimeError, Runs
<1>12. ASSUME NEW how \in {"call", "try"}, CallFiber(how)
       PROVE  Keeps
  BY <1>12, CallFiberKeeps
<1>13. ASSUME NEW k \in DOMAIN frames, Yield(k)
       PROVE  Keeps
  BY <1>13, YieldKeeps
<1>14. ASSUME NEW k \in DOMAIN suspended, NEW how \in {"call", "try"}, Resume(k, how)
       PROVE  Keeps
  BY <1>14, ResumeKeeps
<1>15. CASE UNCHANGED vars
  BY <1>15 DEF vars, Keeps, Data, Calls, Stays, FindsAgain, ImportsRight, BodyOnce
<1> QED
  BY <1>1, <1>2, <1>3, <1>4, <1>5, <1>6, <1>7, <1>8, <1>9, <1>10, <1>11, <1>12,
     <1>13, <1>14, <1>15 DEF Next

LEMMA InvariantCorrect == Spec => [](Data /\ Calls)
<1>1. Data /\ Calls /\ [Next]_vars => (Data /\ Calls)'
  BY NextKeeps DEF Keeps
<1> QED
  BY <1>1, InitKeeps, PTL DEF Spec

\* The variables keep their types, and code runs only in registered modules.
THEOREM TypeCorrect == Spec => []TypeOK
<1>1. ASSUME Data, Calls
      PROVE  TypeOK
  <2>1. ASSUME NEW s \in Range(suspended) \cup ({frames} \ {<<>>})
        PROVE  Stacked(s, loaded) /\ s # <<>>
    <3>1. CASE s \in Range(suspended)
      <4>1. /\ suspended \in Seq(Seq(Frames)) /\ DOMAIN suspended = 1..Len(suspended)
            /\ \A k \in 1..Len(suspended) : Waiting(suspended[k], loaded)
        BY <1>1 DEF Calls
      <4>2. PICK k \in 1..Len(suspended) : s = suspended[k]
        BY <3>1, <4>1 DEF Range
      <4> QED
        BY <4>1, <4>2 DEF Waiting
    <3>2. CASE s \in {frames} \ {<<>>}
      BY <1>1, <3>2 DEF Calls
    <3> QED
      BY <2>1, <3>1, <3>2
  <2>2. ASSUME NEW s, Stacked(s, loaded), s # <<>>
        PROVE  /\ s \in Seq(Frames) /\ s[1].fiber # "same"
               /\ \A k \in DOMAIN s : s[k].module \in loaded
               /\ \A k \in DOMAIN s \ {1} : s[k].fiber # "root"
    <3>1. /\ s \in Seq(Frames) /\ Len(s) \in Nat /\ Len(s) > 0
          /\ DOMAIN s = 1..Len(s)
      BY <2>2, EmptySeq DEF Stacked
    <3> QED
      BY <2>2, <3>1 DEF Stacked
  <2> QED
    BY <1>1, <2>1, <2>2 DEF TypeOK, Data
<1> QED
  BY <1>1, InvariantCorrect, PTL

\* Where bodies do not return early, an import statement finds its module in
\* lastModule, whatever ran since the module was named.
THEOREM ImportsCorrect ==
  ASSUME ~EarlyReturn
  PROVE  Spec => []ImportsFromImported
<1>1. Data /\ Calls /\ ImportsRight /\ [Next]_vars => (Data /\ Calls /\ ImportsRight)'
  BY NextKeeps DEF Keeps, FindsAgain
<1>2. ImportsRight => ImportsFromImported
  BY DEF ImportsRight, ImportsFromImported, Top
<1> QED
  BY <1>1, <1>2, InitKeeps, PTL DEF Spec

\* No import runs the body of a module a second time.
THEOREM BodyOnceCorrect == Spec => []BodyOnce
<1>1. Data => BodyOnce
  BY DEF Data
<1> QED
  BY <1>1, InvariantCorrect, PTL

\* Only a source that is refused leaves the number of a line in a variable.
THEOREM LinesCorrect == Spec => LinesRefused
<1>1. Data /\ Calls /\ [Next]_vars =>
        [\A m \in Module, n \in Name :
           variables'[m][n] = "line" /\ variables[m][n] # "line"
             => Len(frames') <= Len(frames)]_vars
  BY NextLeavesLines DEF LeavesLines
<1> QED
  BY <1>1, InvariantCorrect, PTL DEF Spec, LinesRefused

\* A value that is not a number is safe from the definitions of later sources.
THEOREM DefinedStaysCorrect == Spec => DefinedStays
<1>1. Data /\ Calls /\ [Next]_vars =>
        [\A m \in loaded, n \in Name :
           variables[m][n] = "other" => variables'[m][n] \in {"number", "other"}]_vars
  BY NextKeeps DEF Keeps, Stays
<1> QED
  BY <1>1, InvariantCorrect, PTL DEF Spec, DefinedStays

\* A variable has no value only while code has yet to define it, in a fiber that may
\* be suspended, or after code of its module was cut off.
THEOREM UnsetCorrect == Spec => []UnsetExplained
<1>1. Init => UnsetExplained
  BY DEF Init, UnsetExplained
<1>2. Data /\ Calls /\ UnsetExplained /\ [Next]_vars => UnsetExplained'
  BY NextOwes, UnsetAgain DEF Owing
<1> QED
  BY <1>1, <1>2, InvariantCorrect, PTL DEF Spec

=============================================================================

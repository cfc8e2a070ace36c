---------------------------- MODULE WrenScopes -----------------------------
(***************************************************************************)
(* What a script may rely on for its variables: one that no closure has     *)
(* captured belongs to its scope alone, and one that some closure has is a  *)
(* box that the scope and all those closures share, for as long as any of   *)
(* them can reach it.  There is no stack here, nothing is ever copied out   *)
(* of one or moved; WrenStack implements this.                              *)
(***************************************************************************)
EXTENDS Integers, Sequences, SequencesExt

CONSTANTS
  Box,          (* the identities of captured variables                     *)
  Data,         (* values that are not closures                             *)
  MaxCaptures,  (* the most variables a function captures                   *)
  None          (* no box, and what a box that is not in use holds          *)

VARIABLES
  content,      (* the value of each box                                    *)
  scopes        (* of each call under way, the innermost last: the variables*)
                (* and temporaries, either a value or a box, and the boxes  *)
                (* its function has captured                                *)

vars == <<content, scopes>>

Private(v) == [value |-> v, box |-> None]
Shared(b) == [value |-> None, box |-> b]

Top == scopes[Len(scopes)]
Locals == Top.locals
Size == Len(Locals)
Read(l) == IF l.box = None THEN l.value ELSE content[l.box]
Closures == SeqOf({b \in Box : \E i \in 1..Size : Locals[i].box = b}
                    \cup Range(Top.captured), MaxCaptures)

\* The innermost call has these variables from now on.
Becomes(locals) == scopes' = [scopes EXCEPT ![Len(scopes)].locals = locals]

\* Up to n of the youngest variables are out of scope.
Without(n) == SubSeq(Locals, 1, Size - n)

\* A variable or a temporary comes to be, with a constant, the value of a
\* variable or a captured one, or a closure over shared variables.
Declare ==
  /\ \E v \in Data \cup {Read(Locals[i]) : i \in 1..Size}
                   \cup {content[b] : b \in Range(Top.captured)} \cup Closures :
       Becomes(Append(Locals, Private(v)))
  /\ UNCHANGED content

\* A closure is about to capture a variable nobody has captured yet.
Share(i, b) ==
  /\ Locals[i].box = None
  /\ content[b] = None
  /\ content' = [content EXCEPT ![b] = Locals[i].value]
  /\ Becomes([Locals EXCEPT ![i] = Shared(b)])

\* A variable of the scope or a captured one is assigned: a constant, or the
\* value of the youngest temporary.
Assignable == Data \cup {Read(Locals[Size])}

AssignBox(b) ==
  /\ \E v \in Assignable : content' = [content EXCEPT ![b] = v]
  /\ UNCHANGED scopes

Assign(i) ==
  IF Locals[i].box = None
  THEN /\ \E v \in Assignable : Becomes([Locals EXCEPT ![i] = Private(v)])
       /\ UNCHANGED content
  ELSE AssignBox(Locals[i].box)

\* The youngest variable goes out of scope.
Leave == Becomes(Without(1)) /\ UNCHANGED content

\* A function is called: its receiver and its arguments become its variables.
Enter(n) ==
  LET callee == Read(Locals[Size - n + 1])
  IN /\ callee \notin Data
     /\ scopes' = Append([scopes EXCEPT ![Len(scopes)].locals = Without(n)],
                         [locals |-> SubSeq(Locals, Size - n + 1, Size),
                          captured |-> callee])
     /\ UNCHANGED content

\* The innermost call is over: its result is a temporary of the caller.
Return ==
  LET below == Len(scopes) - 1
      result == Private(Read(Locals[Size]))
  IN /\ scopes' = IF below = 0 THEN <<>>
                  ELSE [SubSeq(scopes, 1, below) EXCEPT ![below].locals = Append(@, result)]
     /\ UNCHANGED content

\* Native code takes a receiver and arguments and leaves a result.
CallNative(n) ==
  /\ \E v \in Data : Becomes(Append(Without(n), Private(v)))
  /\ UNCHANGED content

\* Boxes that nothing outside of them leads to are given up.
Forget(S) ==
  /\ \A k \in DOMAIN scopes :
       /\ Range(scopes[k].captured) \cap S = {}
       /\ \A i \in DOMAIN scopes[k].locals :
            LET l == scopes[k].locals[i]
            IN /\ l.box \notin S
               /\ l.value \notin Data \cup {None} => Range(l.value) \cap S = {}
  /\ \A b \in Box \ S :
       content[b] \notin Data \cup {None} => Range(content[b]) \cap S = {}
  /\ content' = [b \in Box |-> IF b \in S THEN None ELSE content[b]]
  /\ UNCHANGED scopes

Init ==
  /\ content = [b \in Box |-> None]
  /\ scopes = <<[locals |-> <<Private(<<>>)>>, captured |-> <<>>]>>

Step ==
  \/ Declare \/ Leave \/ Return
  \/ \E b \in Range(Top.captured) : AssignBox(b)
  \/ \E i \in 1..Size : \/ Assign(i) \/ Enter(i) \/ CallNative(i)
                        \/ \E b \in Box : Share(i, b)

Next ==
  \/ scopes # <<>> /\ Step
  \/ \E S \in SUBSET Box : Forget(S)

Spec == Init /\ [][Next]_vars

=============================================================================

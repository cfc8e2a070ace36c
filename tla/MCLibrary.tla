----------------------------- MODULE MCLibrary ------------------------------
(***************************************************************************)
(* Two parts of the library that keep no state of the machine, each on its  *)
(* own: a behaviour is either a split() or replace() of one string, or a    *)
(* chain of imports from one script.                                        *)
(***************************************************************************)
EXTENDS WrenText, WrenPaths

vars == <<textVars, pathVars>>

Init ==
  \/ TextInit /\ PathsIdle
  \/ TextIdle /\ PathsInit

Next ==
  \/ TextNext /\ UNCHANGED pathVars
  \/ PathsNext /\ UNCHANGED textVars

Spec == Init /\ [][Next]_vars

-----------------------------------------------------------------------------
Upto(n, S) == UNION {[1..k -> S] : k \in 0..n}

\* "a"; the two bytes of a letter with an accent, of which the second one also
\* ends, twice, a code point of three bytes; and the greatest byte.
SomeBytes == {97, 195, 169, 226, 255}

\* Four bytes that are decoded to a value beyond the last code point.
TooGreat == <<247, 191, 191, 191>>

MCTexts == Upto(4, SomeBytes) \cup {<<97, 97, 195, 169, 97>>, TooGreat}

MCSearches ==
  {<<97>>, <<97, 97>>, <<97, 195, 169>>, <<195, 169>>, <<195>>, <<169, 97>>,
   <<255>>, <<255, 97>>}

MCSubstitute == <<195, 169>>

pathA == <<"a">>
pathB == <<"b">>
sep == <<"/">>
ext == <<".", "w">>

\* Scripts in the working directory, below it, above it and at the root.
MCScripts ==
  {pathA \o ext, Dot \o sep \o pathA \o ext, pathA \o sep \o pathB \o ext,
   pathA \o sep \o DotDot \o sep \o pathB \o ext, pathA \o sep \o pathA \o sep \o pathB \o ext,
   DotDot \o sep \o pathA \o ext, sep \o pathA \o ext, pathA}

MCImports ==
  {Dot \o sep \o pathA, Dot \o sep \o pathB \o sep \o pathA, DotDot \o sep \o pathA,
   DotDot \o sep \o DotDot \o sep \o pathB, Dot \o sep \o pathA \o sep \o DotDot \o sep \o pathB,
   Dot \o sep \o sep \o DotDot \o sep \o pathA, pathA, pathA \o sep \o pathB, sep \o pathB}

MCWorkingDirectory == <<<<"w">>, <<"v">>>>
=============================================================================

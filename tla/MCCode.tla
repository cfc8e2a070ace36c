------------------------------- MODULE MCCode -------------------------------
(***************************************************************************)
(* The sources for WrenCompiler and WrenCode.  Each record is all sources   *)
(* of some productions that affect each other, with so many of each.        *)
(***************************************************************************)
EXTENDS WrenCode

One == {"a"}
Two == {"a", "b"}

Source(names, uses) == [names |-> names, uses |-> uses]

Sources ==
  { \* functions in functions, and names that hide one another
    Source(One, [var |-> 2, fn |-> 2, name |-> 1, setName |-> 1]),
    Source(Two, [var |-> 2, block |-> 1, fn |-> 1, name |-> 2]),
    \* ways out of loops, with variables that functions captured
    Source(One, [while |-> 1, block |-> 1, break |-> 1, var |-> 1, fn |-> 1, name |-> 1]),
    Source(One, [for |-> 1, block |-> 1, break |-> 1, var |-> 1, fn |-> 1, name |-> 1]),
    Source(One, [while |-> 1, for |-> 1, if |-> 1, block |-> 1, var |-> 1, break |-> 2]),
    Source(One, [if |-> 1, conditional |-> 2, return |-> 1, setName |-> 1]),
    Source(One, [operator |-> 1, collection |-> 1, import |-> 1, block |-> 1, setName |-> 1]),
    \* classes, also in methods of classes, and what their methods refer to
    Source(One, [class |-> 2, instance |-> 2, field |-> 2, fn |-> 1]),
    Source(One, [class |-> 2, construct |-> 1, setField |-> 1, this |-> 1]),
    Source(One, [class |-> 1, instance |-> 1, static |-> 1, fn |-> 1,
                 staticField |-> 1, setStaticField |-> 1]),
    Source(One, [class |-> 1, instance |-> 1, static |-> 1, fn |-> 1, setField |-> 2]),
    Source(One, [class |-> 2, instance |-> 2, construct |-> 1]),
    Source(One, [class |-> 1, foreignClass |-> 1, instance |-> 2, field |-> 1]),
    Source(One, [class |-> 1, instance |-> 1, field |-> 3]),
    Source(One, [class |-> 2, block |-> 1, instance |-> 1, var |-> 1, setName |-> 1]),
    Source(One, [class |-> 2, block |-> 1, instance |-> 1, name |-> 1])}

=============================================================================

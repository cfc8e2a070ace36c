---------------------------- MODULE WrenModules ----------------------------
(***************************************************************************)
(* Modules: a source is compiled into a module, which is registered before  *)
(* its body has run and before it is known to compile; the body runs as a   *)
(* call on the fiber that imports it, and the variables that an import      *)
(* clause names are looked up in vm->lastModule afterwards.                 *)
(*                                                                         *)
(* One source after the other may be compiled into a module: by the host,   *)
(* and by Meta.eval() in the middle of the module's own code.  A variable   *)
(* is declared by its first use or its definition while the source is       *)
(* compiled and holds what `Values` says until its definition has run.      *)
(*                                                                         *)
(* A source is what it does to each name.  Its definitions run in any order *)
(* and anything may happen in between: imports, errors, and code in other   *)
(* fibers, which may be left suspended in the middle of a body.             *)
(*                                                                         *)
(* An operator X_Y is X with the mistake Y, which a property must notice.   *)
(***************************************************************************)
EXTENDS Naturals, Sequences, FiniteSets, SequencesExt

CONSTANTS
  Module,         (* names of modules, the core module's null not among them*)
  HostModule,     (* those the host runs sources in                         *)
  Core,           (* the core module                                        *)
  None,           (* no module                                              *)
  Name,           (* names of module variables                              *)
  LocalName,      (* those that start in lower case: wrenIsLocalName()      *)
  CoreName,       (* those the core module defines                          *)
  MaxFrames,      (* the most frames, those of suspended fibers included,   *)
                  (* that are explored                                      *)
  EarlyReturn     (* whether module bodies have `return` statements         *)

ASSUME ModulesAssumption ==
  /\ None \notin Module /\ Core \notin Module /\ None # Core
  /\ HostModule \subseteq Module
  /\ LocalName \subseteq Name /\ CoreName \subseteq Name
  /\ MaxFrames \in Nat \ {0} /\ EarlyReturn \in BOOLEAN

VARIABLES
  loaded,         (* the keys of vm->modules, but for the core module       *)
  variables,      (* what the variables of each module hold                 *)
  lastModule,     (* vm->lastModule                                         *)
  frames,         (* the frames of vm->fiber on top of those of the fibers  *)
                  (* that wait for it; empty while the host executes        *)
  suspended,      (* the frames of fibers that nobody waits for             *)
  bodies,         (* how often an import started to run a module's body     *)
  cut             (* the modules with code that was not compiled or not     *)
                  (* executed to its end; these two are not in the code     *)

vars == <<loaded, variables, lastModule, frames, suspended, bodies, cut>>

\* An undeclared name; the line of the first use of a variable that has no
\* definition yet, which is a number; the null of a variable whose definition
\* has not run; and what scripts assign, told apart only as numbers and others.
Values == {"undeclared", "line", "null", "number", "other"}

\* A frame: what its code has still to define, the module its current import
\* statement names, how its fiber was invoked if it is the first frame of one,
\* and whether it runs a whole source or a function.
Frames == [module : Module, todo : SUBSET Name, importing : Module \cup {None},
           fiber : {"root", "call", "try", "same"},
           code : {"source", "function"}]

\* Whether a source defines a name, and whether it uses it before.
Sources == [Name -> [used : BOOLEAN, defined : BOOLEAN]]

Init ==
  /\ loaded = {}
  /\ variables = [m \in Module |-> [n \in Name |-> "undeclared"]]
  /\ lastModule = Core
  /\ frames = <<>>
  /\ suspended = <<>>
  /\ bodies = [m \in Module |-> 0]
  /\ cut = {}

-----------------------------------------------------------------------------
(* Compiling a source into a module.                                       *)

\* IS_NUM(module->variables.data[symbol])
IsNum(v) == v \in {"line", "number"}

\* name(): a use declares a name that is unknown.
Used(v, uses) == IF uses /\ v = "undeclared" THEN "line" ELSE v

\* wrenDefineVariable() with the value null.
Defined_Again(v, defines) == IF defines THEN "null" ELSE v

Defined(v, defines) ==
  IF defines /\ (v = "undeclared" \/ IsNum(v)) THEN "null" ELSE v

\* declareVariable() reports an error if it meets a variable that is defined
\* already, or a local name that is declared.
Refused(n, v, defines) ==
  defines /\ v # "undeclared" /\ (IsNum(v) => n \in LocalName)

\* wrenCompile(): a variable that this source declared got no definition.
Unresolved_Never(before, after) == FALSE

Unresolved(before, after) == before = "undeclared" /\ IsNum(after)

CoreVariables == [n \in Name |-> IF n \in CoreName THEN "other" ELSE "undeclared"]

\* compileInModule(): a new module starts with the variables of the core module.
Existing(m) == IF m \in loaded THEN variables[m] ELSE CoreVariables

Declared(m, source) ==
  [n \in Name |-> Defined(Used(Existing(m)[n], source[n].used), source[n].defined)]

Compiles(m, source) ==
  \A n \in Name :
    /\ ~Refused(n, Used(Existing(m)[n], source[n].used), source[n].defined)
    /\ ~Unresolved(Existing(m)[n], Declared(m, source)[n])

Registered_IfCompiled(m, compiles) == IF compiles THEN loaded \cup {m} ELSE loaded

Registered_Later(m, compiles) == loaded

Registered(m, compiles) == loaded \cup {m}

\* compileInModule() of any source: `valid` if it has no other errors, of which a
\* second definition of a name is one.
Compile(m, source, valid) ==
  /\ variables' = [variables EXCEPT ![m] = Declared(m, source)]
  /\ loaded' = Registered(m, valid /\ Compiles(m, source))

-----------------------------------------------------------------------------
(* Calls, returns and errors.                                              *)

Top == frames[Len(frames)]
WithTop(frame) == [frames EXCEPT ![Len(frames)] = frame]

AllFrames == frames \o FlattenSeq(suspended)

Room == Len(AllFrames) < MaxFrames

\* The next instruction of the top frame is not IMPORT_VARIABLE.
Runs == frames # <<>> /\ Top.importing = None

\* The frame of the code of a source.  Its definitions store their values in the
\* variables that declareVariable() found or added.
Body_OfNewNames(m, source, fiber) ==
  [module |-> m, todo |-> {n \in Name : source[n].defined /\ ~source[n].used},
   importing |-> None, fiber |-> fiber, code |-> "source"]

Body(m, source, fiber) ==
  [module |-> m, todo |-> {n \in Name : source[n].defined}, importing |-> None,
   fiber |-> fiber, code |-> "source"]

\* runtimeError() drops the frames of all fibers down to the last that was invoked
\* with try(), all above the first `k`.
Drops(k) ==
  /\ k > 0 => frames[k + 1].fiber = "try"
  /\ \A j \in k + 2..Len(frames) : frames[j].fiber # "try"

\* What is lost with the frames from `first` on.
CutFrom(first) ==
  {frames[k].module : k \in {j \in first..Len(frames) : frames[j].todo # {}}}

\* The error of the current fiber is set, with `more` cut off before.
Fail(more) ==
  \E k \in 0..Len(frames) - 1 :
    /\ Drops(k)
    /\ frames' = SubSeq(frames, 1, k)
    /\ cut' = cut \cup more \cup CutFrom(k + 1)

-----------------------------------------------------------------------------
(* The host and Meta.                                                      *)

\* wrenInterpret()
WrenInterpret(m, source, valid) ==
  /\ frames = <<>> /\ Room
  /\ Compile(m, source, valid)
  /\ IF valid /\ Compiles(m, source)
     THEN frames' = <<Body(m, source, "root")>> /\ UNCHANGED cut
     ELSE cut' = cut \cup {m} /\ UNCHANGED frames
  /\ UNCHANGED <<lastModule, suspended, bodies>>

\* metaCompile() in the module of the caller, and the call of what it returns;
\* Meta.eval() aborts the fiber if that is null.
MetaEval(source, valid) ==
  /\ Runs /\ Room
  /\ LET m == Top.module
     IN /\ Compile(m, source, valid)
        /\ IF valid /\ Compiles(m, source)
           THEN frames' = Append(frames, Body(m, source, "same")) /\ UNCHANGED cut
           ELSE Fail({m})
  /\ UNCHANGED <<lastModule, suspended, bodies>>

-----------------------------------------------------------------------------
(* Import statements.                                                      *)

\* IMPORT_MODULE of a module that is registered.
ImportLoaded(m) ==
  /\ Runs /\ m \in loaded
  /\ frames' = WithTop([Top EXCEPT !.importing = m])
  /\ lastModule' = m
  /\ UNCHANGED <<loaded, variables, suspended, bodies, cut>>

\* IMPORT_MODULE of another one, for which the host or Meta has a source.
ImportSource(m, source, valid) ==
  /\ Runs /\ Room /\ m \notin loaded
  /\ Compile(m, source, valid)
  /\ IF valid /\ Compiles(m, source)
     THEN /\ frames' = Append(WithTop([Top EXCEPT !.importing = m]),
                              Body(m, source, "same"))
          /\ bodies' = [bodies EXCEPT ![m] = @ + 1]
          /\ UNCHANGED cut
     ELSE Fail({m}) /\ UNCHANGED bodies
  /\ UNCHANGED <<lastModule, suspended>>

\* getModuleVariable()
Found(n) ==
  IF lastModule = Core THEN CoreVariables[n] ELSE variables[lastModule][n]

\* What the importing module's variable holds then: a script cannot tell that a
\* number was a line.
Copied(v) == IF IsNum(v) THEN "number" ELSE "other"

\* IMPORT_VARIABLE of `n`, and the STORE_MODULE_VAR that defines `as` with it.
ImportVariable(n, as) ==
  /\ frames # <<>> /\ Top.importing # None
  /\ Found(n) # "undeclared"
  /\ as \in Top.todo
  /\ variables' = [variables EXCEPT ![Top.module][as] = Copied(Found(n))]
  /\ frames' = WithTop([Top EXCEPT !.todo = @ \ {as}])
  /\ UNCHANGED <<loaded, lastModule, suspended, bodies, cut>>

\* IMPORT_VARIABLE of a variable that lastModule does not have.
ImportVariableFails(n) ==
  /\ frames # <<>> /\ Top.importing # None
  /\ Found(n) = "undeclared"
  /\ Fail({})
  /\ UNCHANGED <<loaded, variables, lastModule, suspended, bodies>>

\* The import clause has no more names.
ImportDone ==
  /\ frames # <<>> /\ Top.importing # None
  /\ frames' = WithTop([Top EXCEPT !.importing = None])
  /\ UNCHANGED <<loaded, variables, lastModule, suspended, bodies, cut>>

-----------------------------------------------------------------------------
(* Other code.                                                             *)

\* The definition of a variable runs.
Define(n, v) ==
  /\ Runs /\ n \in Top.todo
  /\ variables' = [variables EXCEPT ![Top.module][n] = v]
  /\ frames' = WithTop([Top EXCEPT !.todo = @ \ {n}])
  /\ UNCHANGED <<loaded, lastModule, suspended, bodies, cut>>

\* An assignment, at any time after a use or the definition was compiled.
Assign(n, v) ==
  /\ Runs /\ variables[Top.module][n] # "undeclared"
  /\ variables' = [variables EXCEPT ![Top.module][n] = v]
  /\ UNCHANGED <<loaded, lastModule, frames, suspended, bodies, cut>>

\* END_MODULE, and the RETURN after it.
Finished_Importer(m) == IF Len(frames) > 1 THEN frames[Len(frames) - 1].module ELSE m

Finished(m) == m

EndModule ==
  /\ Runs /\ Top.code = "source" /\ Top.todo = {}
  /\ lastModule' = Finished(Top.module)
  /\ frames' = Front(frames)
  /\ UNCHANGED <<loaded, variables, suspended, bodies, cut>>

\* A return statement, at the top level of a module or in a function.
Return ==
  /\ Runs
  /\ Top.code = "source" => EarlyReturn
  /\ frames' = Front(frames)
  /\ cut' = cut \cup CutFrom(Len(frames))
  /\ UNCHANGED <<loaded, variables, lastModule, suspended, bodies>>

\* Any runtime error, one of an import that cannot be resolved or loaded too.
RuntimeError ==
  /\ Runs /\ Fail({})
  /\ UNCHANGED <<loaded, variables, lastModule, suspended, bodies>>

\* Fiber.new { ... }.call() or try(): a function of the same module.
CallFiber(how) ==
  /\ Runs /\ Room
  /\ frames' = Append(frames, [module |-> Top.module, todo |-> {}, importing |-> None,
                               fiber |-> how, code |-> "function"])
  /\ UNCHANGED <<loaded, variables, lastModule, suspended, bodies, cut>>

\* Fiber.yield(): the frames of the current fiber, which starts with frame `k`, wait
\* to be resumed.  Those of a root fiber never are.
Yield(k) ==
  /\ Runs
  /\ frames[k].fiber # "same"
  /\ \A j \in k + 1..Len(frames) : frames[j].fiber = "same"
  /\ suspended' = Append(suspended, SubSeq(frames, k, Len(frames)))
  /\ frames' = SubSeq(frames, 1, k - 1)
  /\ UNCHANGED <<loaded, variables, lastModule, bodies, cut>>

\* call() or try() of a fiber that yielded.
Resume(k, how) ==
  /\ Runs /\ suspended[k][1].fiber # "root"
  /\ suspended' = RemoveAt(suspended, k)
  /\ frames' = frames \o [suspended[k] EXCEPT ![1].fiber = how]
  /\ UNCHANGED <<loaded, variables, lastModule, bodies, cut>>

-----------------------------------------------------------------------------
Next ==
  \/ \E m \in HostModule, source \in Sources, valid \in BOOLEAN :
       WrenInterpret(m, source, valid)
  \/ \E m \in Module, source \in Sources, valid \in BOOLEAN :
       ImportSource(m, source, valid)
  \/ \E source \in Sources, valid \in BOOLEAN : MetaEval(source, valid)
  \/ \E m \in Module : ImportLoaded(m)
  \/ \E n, as \in Name : ImportVariable(n, as)
  \/ \E n \in Name : ImportVariableFails(n)
  \/ ImportDone
  \/ \E n \in Name, v \in {"number", "other"} : Define(n, v) \/ Assign(n, v)
  \/ EndModule
  \/ Return
  \/ RuntimeError
  \/ \E how \in {"call", "try"} : CallFiber(how)
  \/ \E k \in DOMAIN frames : Yield(k)
  \/ \E k \in DOMAIN suspended, how \in {"call", "try"} : Resume(k, how)

Spec == Init /\ [][Next]_vars

-----------------------------------------------------------------------------
(* Properties.                                                             *)

\* The variables have their types, code runs only in modules that are
\* registered, and a fiber starts where a root, a call or a try started it.
TypeOK ==
  /\ loaded \subseteq Module
  /\ variables \in [Module -> [Name -> Values]]
  /\ lastModule \in Module \cup {Core}
  /\ \A segment \in Range(suspended) \cup ({frames} \ {<<>>}) :
       /\ segment \in Seq(Frames) /\ segment[1].fiber # "same"
       /\ \A k \in DOMAIN segment : segment[k].module \in loaded
       /\ \A k \in DOMAIN segment \ {1} : segment[k].fiber # "root"
  /\ bodies \in [Module -> Nat]
  /\ cut \subseteq loaded

\* The variables an import statement names are looked up in the module it names,
\* whatever the module's body imported, evaluated or left suspended in between.
\* IMPORT_VARIABLE does not say which module that is; END_MODULE of the body and
\* IMPORT_MODULE have to leave it in vm->lastModule.
ImportsFromImported ==
  frames # <<>> /\ Top.importing # None => lastModule = Top.importing

\* Imports run the body of a module at most once, though a body may import in a
\* cycle, fail, or be left suspended for ever before another import.
BodyOnce == \A m \in Module : bodies[m] <= 1

\* Frames that stand on each other have yet to define the name.
Owed(segment, m, n) ==
  \E k \in DOMAIN segment : segment[k].module = m /\ n \in segment[k].todo

\* A module variable has no value only while the code that defines it has yet to get
\* there, in a cycle of imports or in a suspended fiber, or was cut off before.  An
\* import of a module whose body has come to its end sees its variables defined.
UnsetExplained ==
  \A m \in Module, n \in Name :
    variables[m][n] = "null" =>
      \/ m \in cut
      \/ Owed(frames, m, n)
      \/ \E i \in DOMAIN suspended : Owed(suspended[i], m, n)

\* No source that is compiled later takes a value that is not a number from a
\* variable, the classes of the core module included: declareVariable() is refused.
DefinedStays ==
  [][\A m \in loaded, n \in Name :
       variables[m][n] = "other" => variables'[m][n] \in {"number", "other"}]_vars

\* A source that leaves the number of a line as the value of a variable is refused: the
\* step that compiles it starts no code, and no other step leaves one.  A source that
\* is compiled later into the module may read the number, as wrenCompile() reports only
\* the names that the source itself declared.
LinesRefused ==
  [][\A m \in Module, n \in Name :
       variables'[m][n] = "line" /\ variables[m][n] # "line"
         => Len(frames') <= Len(frames)]_vars

=============================================================================

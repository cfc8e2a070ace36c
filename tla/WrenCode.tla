------------------------------ MODULE WrenCode ------------------------------
(***************************************************************************)
(* What the interpreter does with the code of WrenCompiler.  A function is  *)
(* run on a stack whose slots hold the number of the declaration whose      *)
(* value they have, Temporary for every other value; conditions go either   *)
(* way.  Besides, the classes of the source are created, any number of      *)
(* times and with any superclass that is there, and bound to their methods. *)
(*                                                                         *)
(* The functions are shared: the code of a method is changed when it is     *)
(* bound, for every closure of it.                                          *)
(***************************************************************************)
EXTENDS WrenCompiler

CONSTANTS
  MaxClasses      (* the most classes that are created                      *)

ASSUME CodeAssumption == MaxClasses \in Nat

VARIABLES
  run,            (* the function that is run, or None                      *)
  ran,            (* a function was run                                     *)
  classes,        (* the classes, in the order of their creation            *)
  binds           (* for each function, how often its code was bound; this  *)
                  (* is not in the code                                     *)

codeVars == <<run, ran, classes, binds>>
vars == <<compilerVars, codeVars>>

Temporary == 0
Object == 0             \* the class that has no fields and no superclass

-----------------------------------------------------------------------------
(* Running a function.                                                      *)

\* wrenCallFunction(): the receiver and the arguments are on the stack.
CallFunction(f) ==
  /\ Compiled /\ ~ran /\ classes = <<>>
  /\ ran' = TRUE
  /\ run' = [fn |-> f, pc |-> 1, stack |-> functions[f].entry, open |-> {}]
  /\ UNCHANGED <<compilerVars, classes, binds>>

Fn == functions[run.fn]
Now == Fn.code[run.pc]
Height == Len(run.stack)

Drop(n) == SubSeq(run.stack, 1, Height - n)
Push(s) == Append(s, Temporary)

Goes(pc, stack, open) ==
  /\ run' = [run EXCEPT !.pc = pc, !.stack = stack, !.open = open]
  /\ UNCHANGED <<compilerVars, ran, classes, binds>>

Next1(stack) == Goes(run.pc + 1, stack, run.open)
At(ops) == run # None /\ Now.op \in ops

LoadValue ==
  /\ At({"CONSTANT", "NULL", "LOAD_LOCAL", "LOAD_UPVALUE", "LOAD_MODULE_VAR",
         "LOAD_FIELD_THIS", "END_MODULE", "IMPORT_MODULE", "IMPORT_VARIABLE"})
  /\ Next1(Push(run.stack))

StoreValue ==
  /\ At({"STORE_LOCAL", "STORE_UPVALUE", "STORE_MODULE_VAR", "STORE_FIELD_THIS",
         "LOAD_FIELD", "CONSTRUCT", "STATEMENT"})
  /\ Next1(run.stack)

StoreFieldOf == At({"STORE_FIELD"}) /\ Next1(Drop(1))

Discard ==
  /\ At({"POP", "CLOSE_UPVALUE"})
  /\ Goes(run.pc + 1, Drop(1), run.open \ {Height})

CallMethod == At({"CALL", "SUPER"}) /\ Next1(Push(Drop(Now.arg + 1)))

Jump == At({"JUMP", "LOOP"}) /\ Goes(Now.arg, run.stack, run.open)

JumpIf ==
  /\ At({"JUMP_IF"})
  /\ \E pc \in {run.pc + 1, Now.arg} : Goes(pc, Drop(1), run.open)

\* The value stays if it decides.
LogicalAnd ==
  /\ At({"AND"})
  /\ Next1(Drop(1)) \/ Goes(Now.arg, run.stack, run.open)

\* The slots of the local variables it captures have open upvalues.
MakeClosure ==
  /\ At({"CLOSURE"})
  /\ Goes(run.pc + 1, Push(run.stack),
          run.open \cup {u.index : u \in {v \in ToSet(functions[Now.arg].upvalues) : v.isLocal}})

\* The class takes the slot of its name.
MakeClass == At({"CLASS"}) /\ Next1(Drop(1))

AttachMethod == At({"METHOD_INSTANCE", "METHOD_STATIC"}) /\ Next1(Drop(2))

\* The declared variable has its value.
Named == At({"VAR"}) /\ Next1([run.stack EXCEPT ![Height] = Now.means])

Return ==
  /\ At({"RETURN"})
  /\ run' = None
  /\ UNCHANGED <<compilerVars, ran, classes, binds>>

RunInterpreter ==
  \/ LoadValue \/ StoreValue \/ StoreFieldOf \/ Discard \/ CallMethod \/ Jump \/ JumpIf
  \/ LogicalAnd \/ MakeClosure \/ MakeClass \/ AttachMethod \/ Named \/ Return

-----------------------------------------------------------------------------
(* Classes.                                                                 *)

FieldOps == {"LOAD_FIELD", "STORE_FIELD", "LOAD_FIELD_THIS", "STORE_FIELD_THIS"}

NumFields(s) == IF s = Object THEN 0 ELSE classes[s].numFields

\* The functions whose code wrenBindMethodCode() goes through: the method and
\* those of the closures in it.
RECURSIVE Nested(_)
Nested(f) == {f} \cup UNION {Nested(functions[f].code[i].arg) :
                 i \in {j \in DOMAIN functions[f].code : functions[f].code[j].op = "CLOSURE"}}

BindMethodCode_NotNested(f, superclass) ==
  [functions[f] EXCEPT !.code = [i \in DOMAIN @ |->
     IF @[i].op \in FieldOps /\ \E d \in ToSet(definitions) : \E m \in ToSet(d.methods) : m.fn = f
     THEN [@[i] EXCEPT !.arg = @ + NumFields(superclass)] ELSE @[i]]]

\* Fields are shifted past the inherited ones, and super calls get the
\* superclass of the class that the method is bound to.
BindMethodCode(f, superclass) ==
  [functions[f] EXCEPT !.code = [i \in DOMAIN @ |->
     CASE @[i].op \in FieldOps -> [@[i] EXCEPT !.arg = @ + NumFields(superclass)]
       [] @[i].op = "SUPER" -> [@[i] EXCEPT !.means = superclass]
       [] OTHER -> @[i]]]

\* The class that runs the definition d: for one in a method, a class of that
\* method must be there.
CanRun(d) ==
  definitions[d].within = 0 \/ \E c \in DOMAIN classes : classes[c].definition = definitions[d].within

Inherited(s) == IF s = Object THEN [m \in {} |-> 0] ELSE classes[s].methods

Instance(d) == {m \in ToSet(definitions[d].methods) : ~m.isStatic}
Key(m) == <<m.symbol, m.isInit>>

Methods_InheritedFirst(d, s) ==
  [k \in DOMAIN Inherited(s) \cup {Key(m) : m \in Instance(d)} |->
     IF k \in DOMAIN Inherited(s) THEN Inherited(s)[k]
     ELSE (CHOOSE m \in Instance(d) : Key(m) = k).fn]

\* wrenNewClass() copies the methods of the superclass, wrenBindMethod() puts
\* those of the class over them.
Methods(d, s) ==
  [k \in DOMAIN Inherited(s) \cup {Key(m) : m \in Instance(d)} |->
     IF k \in {Key(m) : m \in Instance(d)}
     THEN (CHOOSE m \in Instance(d) : Key(m) = k).fn ELSE Inherited(s)[k]]

BoundBy(d) == UNION {Nested(m.fn) : m \in Instance(d)}
StaticBy(d) == UNION {Nested(m.fn) : m \in ToSet(definitions[d].methods) \ Instance(d)}

\* validateSuperclass(): the fiber is aborted before there is a class.
Invalid(d, s) ==
  \/ NumFields(s) = Foreign
  \/ definitions[d].fields = Foreign /\ NumFields(s) > 0
  \/ definitions[d].fields + NumFields(s) > MaxFields

CreateClass(d, s) ==
  /\ Compiled /\ ~ran /\ run = None
  /\ Len(classes) < MaxClasses /\ CanRun(d) /\ ~Invalid(d, s)
  /\ classes' = Append(classes,
       [definition |-> d, superclass |-> s, methods |-> Methods(d, s),
        numFields |-> definitions[d].fields + NumFields(s)])
  /\ functions' = [f \in DOMAIN functions |->
       IF f \in BoundBy(d) THEN BindMethodCode(f, s)
       ELSE IF f \in StaticBy(d) THEN BindMethodCode(f, Object) ELSE functions[f]]
  /\ binds' = [f \in DOMAIN functions |->
       (IF f \in DOMAIN binds THEN binds[f] ELSE 0)
         + IF f \in BoundBy(d) \cup StaticBy(d) THEN 1 ELSE 0]
  /\ UNCHANGED <<program, left, todo, compilers, definitions, rejected, ghosts, run, ran>>

-----------------------------------------------------------------------------
Init ==
  /\ CompilerInit
  /\ run = None /\ ran = FALSE /\ classes = <<>> /\ binds = <<>>

Next ==
  \/ CompilerNext /\ UNCHANGED codeVars
  \/ \E f \in DOMAIN functions : CallFunction(f)
  \/ RunInterpreter
  \/ \E d \in DOMAIN definitions, s \in 0..Len(classes) : CreateClass(d, s)

Spec == Init /\ [][Next]_vars

-----------------------------------------------------------------------------
(* Properties.                                                              *)

\* The array of the locals overflows by the variable of a for loop, for which
\* there is no check, and from then on: declareVariable() only tests for
\* equality.
LocalsFit(locals) ==
  Len(locals) > MaxLocals => \E i \in MaxLocals + 1..Len(locals) : locals[i - 1].name = "iter "

TypeOK ==
  /\ program \in Programs /\ DOMAIN left = DOMAIN program.uses
  /\ declared \in Nat
  /\ \A k \in DOMAIN compilers :
       /\ compilers[k].numSlots <= compilers[k].maxSlots
       /\ compilers[k].scopeDepth \in -1..Len(scopes)
       /\ LocalsFit(compilers[k].locals)
       /\ \A u \in ToSet(compilers[k].upvalues) : u.isLocal \in BOOLEAN /\ u.index >= 1
  /\ \A c \in DOMAIN classes : classes[c].numFields \in Foreign..MaxFields
  /\ rejected \in {None, "this", "field", "fields", "static", "full", "duplicate", "break"}
  /\ run # None => run.pc \in DOMAIN Fn.code /\ run.open \subseteq DOMAIN run.stack

\* What an upvalue of the function that is run stands for.
Captured(i) == IF i \in DOMAIN Fn.upvalues THEN Fn.upvalues[i].id ELSE None

\* A variable is read, written and captured where its value is, on every path
\* through the code, by the function that declares it and by the functions
\* nested in it.
NamesResolve ==
  run # None =>
    /\ At({"LOAD_LOCAL", "STORE_LOCAL"}) =>
         Now.arg \in DOMAIN run.stack /\ run.stack[Now.arg] = Now.means
    /\ At({"LOAD_UPVALUE", "STORE_UPVALUE"}) => Captured(Now.arg) = Now.means
    /\ At({"LOAD_MODULE_VAR", "STORE_MODULE_VAR", "CALL"}) => Now.means = Module
    /\ At({"CLOSURE"}) =>
         \A u \in ToSet(functions[Now.arg].upvalues) :
           IF u.isLocal THEN u.index \in DOMAIN run.stack /\ run.stack[u.index] = u.id
           ELSE Captured(u.index) = u.id

\* On whatever path a statement is reached, the stack holds the variables that
\* are in scope there and nothing else; a variable gets its value in its slot;
\* the stack never outgrows the count that the compiler made of it.
Balanced ==
  run # None =>
    /\ At({"STATEMENT"}) => run.stack = Now.arg
    /\ At({"VAR"}) => Height = Now.arg
    /\ Height <= Fn.arity + Fn.maxSlots

\* The slot of a captured variable never leaves the stack without its upvalue
\* being closed.
CapturedClosed == At({"POP"}) => Height \notin run.open

\* The fields that the code of a method addresses are those of its class,
\* behind the inherited ones.
Addressed(f, d) ==
  {functions[f].code[i] : i \in {j \in DOMAIN functions[f].code :
     functions[f].code[j].op \in FieldOps /\ functions[f].code[j].means.class = d}}

FieldsOf(c) ==
  \A f \in BoundBy(classes[c].definition) : \A i \in Addressed(f, classes[c].definition) :
    i.arg = i.means.field + NumFields(classes[c].superclass)

\* Instructions that address fields have the assertion that the object has as
\* many, whatever classes are made of the definitions.
FieldsInBounds ==
  \A c \in DOMAIN classes : \A f \in BoundBy(classes[c].definition) :
    \A i \in Addressed(f, classes[c].definition) : i.arg <= classes[c].numFields

\* They address those fields if the code was bound for this class only.
BoundOnceInBounds ==
  \A c \in DOMAIN classes :
    (\A f \in BoundBy(classes[c].definition) : binds[f] = 1) => FieldsOf(c)

\* A class has the method of the nearest class up its superclasses that has one.
RECURSIVE Nearest(_, _)
Nearest(c, k) ==
  IF c = Object THEN 0
  ELSE LET own == {m \in Instance(classes[c].definition) : Key(m) = k}
       IN IF own # {} THEN (CHOOSE m \in own : TRUE).fn ELSE Nearest(classes[c].superclass, k)

DispatchesNearest ==
  \A c \in DOMAIN classes : \A k \in Names \X BOOLEAN :
    Nearest(c, k) = IF k \in DOMAIN classes[c].methods THEN classes[c].methods[k] ELSE 0

=============================================================================

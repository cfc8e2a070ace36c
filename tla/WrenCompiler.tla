---------------------------- MODULE WrenCompiler ----------------------------
(***************************************************************************)
(* The single pass of the compiler: local variables and block scopes,       *)
(* upvalues, jumps and loops, classes with their fields, and the count of   *)
(* stack slots, for every source of a few productions of the grammar.       *)
(*                                                                         *)
(* `todo` is what the recursive functions of the parser are in the middle   *)
(* of; the next production is chosen where they look at the next token.     *)
(* The bytecode is a sequence of instructions, a jump holds the index of    *)
(* its target, and slots and upvalues are numbered from one.                *)
(*                                                                         *)
(* Every name is a variable of the module already (those that are not are   *)
(* in WrenModules), so one that is no local variable is found there.        *)
(*                                                                         *)
(* `scopes` is not in the code.  It holds what the reader of the source     *)
(* sees, each declaration with a number, and the bytecode carries what was  *)
(* meant in `means`: the declaration a name stands for, and the pseudo      *)
(* instructions VAR, where a declared variable gets its value, and          *)
(* STATEMENT, with the variables that are in scope.                         *)
(*                                                                         *)
(* An operator X_Y is X with the mistake Y.                                 *)
(***************************************************************************)
EXTENDS Integers, Sequences, FiniteSets, SequencesExt, FiniteSetsExt

CONSTANTS
  None,           (* no value                                               *)
  Names,          (* the names of variables                                 *)
  Programs,       (* what sources are explored: how often they use each     *)
                  (* production, and with which names                       *)
  MaxLocals,      (* MAX_LOCALS                                             *)
  MaxFields       (* MAX_FIELDS                                             *)

ASSUME CompilerAssumption ==
  /\ \A p \in Programs :
       p.names \subseteq Names /\ \A production \in DOMAIN p.uses : p.uses[production] \in Nat
  /\ MaxLocals \in Nat \ {0} /\ MaxFields \in Nat \ {0}
  /\ Names \subseteq STRING

VARIABLES
  program,        (* which of Programs this is                              *)
  left,           (* how often each production may still be used            *)
  todo,           (* what is left to parse                                  *)
  compilers,      (* the chain from vm->compiler, the innermost last        *)
  functions,      (* the finished functions                                 *)
  definitions,    (* the classes of the source                              *)
  rejected,       (* the compile error, if any                              *)
  scopes,         (* the scopes of the source, the innermost last           *)
  declared        (* the number of declarations so far                      *)

ghosts == <<scopes, declared>>
compilerVars == <<program, left, todo, compilers, functions, definitions, rejected, ghosts>>

This == "this"
Static == "__s"
Receiver == ""
Foreign == -1           \* the number of fields of a foreign class
Module == 0             \* what a name means that is not declared locally

-----------------------------------------------------------------------------
(* The scopes of the source.                                                *)

Scope(kind, vars) == [kind |-> kind, vars |-> vars]
Var(name, id) == [name |-> name, id |-> id]
Bodies == {"script", "fn", "method"}

Declares(s, name) == {v.id : v \in {w \in ToSet(s.vars) : w.name = name}}

\* A method does not see the variables around its class, but for static fields.
Visible(k, name) ==
  /\ Declares(scopes[k], name) # {}
  /\ name # Static => \A j \in k + 1..Len(scopes) : scopes[j].kind # "method"

\* The declaration that a name stands for: the innermost visible one.
Meaning(name) ==
  LET visible == {k \in DOMAIN scopes : Visible(k, name)}
  IN IF visible = {} THEN Module
     ELSE CHOOSE id \in Declares(scopes[Max(visible)], name) : TRUE

\* The variables of the innermost function or method, in order.
VarsFrom(k) == FlattenSeq([j \in 1..Len(scopes) - k + 1 |->
                 [i \in DOMAIN scopes[k + j - 1].vars |-> scopes[k + j - 1].vars[i].id]])
InScope == VarsFrom(Max({k \in DOMAIN scopes : scopes[k].kind \in Bodies}))

AddVar(k, name) ==
  /\ scopes' = [scopes EXCEPT ![k].vars = Append(@, Var(name, declared + 1))]
  /\ declared' = declared + 1

-----------------------------------------------------------------------------
(* Emitting code.                                                           *)

Instruction(op, arg, means) == [op |-> op, arg |-> arg, means |-> means]

StackEffect(op, arg) ==
  CASE op \in {"CONSTANT", "NULL", "LOAD_LOCAL", "LOAD_UPVALUE", "LOAD_MODULE_VAR",
               "LOAD_FIELD_THIS", "CLOSURE", "END_MODULE", "IMPORT_MODULE", "IMPORT_VARIABLE"} -> 1
    [] op \in {"POP", "STORE_FIELD", "JUMP_IF", "AND", "CLASS"} -> -1
    [] op \in {"METHOD_INSTANCE", "METHOD_STATIC"} -> -2
    [] op \in {"CALL", "SUPER"} -> 0 - arg
    [] OTHER -> 0

EmitOp(c, op, arg, means) ==
  LET n == c.numSlots + StackEffect(op, arg)
  IN [c EXCEPT !.code = Append(@, Instruction(op, arg, means)),
               !.numSlots = n, !.maxSlots = Max({@, n})]

Here(c) == Len(c.code) + 1

PatchJump_Forgotten(c, at) == c

PatchJump(c, at) == [c EXCEPT !.code[at].arg = Here(c)]

-----------------------------------------------------------------------------
(* Variables and scopes.                                                    *)

Local(name, depth, id) == [name |-> name, depth |-> depth, isUpvalue |-> FALSE, id |-> id]

InitCompiler(kind, params, id) ==
  [locals |-> <<Local(IF kind = "method" THEN This ELSE Receiver, -1, id)>>
                 \o [i \in DOMAIN params |-> Local(params[i], 0, id + i)],
   upvalues |-> <<>>, scopeDepth |-> IF kind = "script" THEN -1 ELSE 0,
   numSlots |-> 1, maxSlots |-> 1, arity |-> Len(params), entry |-> id,
   loop |-> <<>>, enclosingClass |-> None, code |-> <<>>]

AddLocal(c, name, id) == [c EXCEPT !.locals = Append(@, Local(name, c.scopeDepth, id))]

\* declareVariable(): in this scope there is one of this name already.
AlreadyDeclared(c, name) ==
  \E i \in DOMAIN c.locals : c.locals[i].depth = c.scopeDepth /\ c.locals[i].name = name

PushScope(c) == [c EXCEPT !.scopeDepth = @ + 1]

Discarded_DeeperOnly(c, depth) == {i \in DOMAIN c.locals : c.locals[i].depth > depth}

\* The locals of this depth and deeper, from the last one down.  emitByte()
\* does not count what they pop.
Discarded(c, depth) == {i \in DOMAIN c.locals : c.locals[i].depth >= depth}

DiscardLocals_PopsAll(c, depth) ==
  [c EXCEPT !.code = @ \o [k \in 1..Cardinality(Discarded(c, depth)) |-> Instruction("POP", 0, 0)]]

DiscardLocals(c, depth) ==
  [c EXCEPT !.code = @ \o [k \in 1..Cardinality(Discarded(c, depth)) |->
     IF c.locals[Len(c.locals) - k + 1].isUpvalue
     THEN Instruction("CLOSE_UPVALUE", 0, 0) ELSE Instruction("POP", 0, 0)]]

PopScope(c) ==
  LET popped == Cardinality(Discarded(c, c.scopeDepth))
  IN [DiscardLocals(c, c.scopeDepth) EXCEPT
        !.locals = SubSeq(@, 1, Len(@) - popped), !.numSlots = @ - popped,
        !.scopeDepth = @ - 1]

ResolveLocal_Outermost(c, name) ==
  LET found == {i \in DOMAIN c.locals : c.locals[i].name = name}
  IN IF found = {} THEN 0 ELSE Min(found)

ResolveLocal(c, name) ==
  LET found == {i \in DOMAIN c.locals : c.locals[i].name = name}
  IN IF found = {} THEN 0 ELSE Max(found)

Upvalue(isLocal, index, id) == [isLocal |-> isLocal, index |-> index, id |-> id]
Found(cs, scope, index) == [cs |-> cs, scope |-> scope, index |-> index]
NotFound(cs) == Found(cs, "upvalue", 0)

AddUpvalue(cs, k, isLocal, index, id) ==
  LET same == {i \in DOMAIN cs[k].upvalues :
                 /\ cs[k].upvalues[i].index = index
                 /\ cs[k].upvalues[i].isLocal = isLocal}
  IN IF same # {} THEN Found(cs, "upvalue", Min(same))
     ELSE Found([cs EXCEPT ![k].upvalues = Append(@, Upvalue(isLocal, index, id))],
                "upvalue", Len(cs[k].upvalues) + 1)

\* The k-th compiler of the chain looks in the functions around it.
RECURSIVE FindUpvalue(_, _, _)
FindUpvalue(cs, k, name) ==
  IF k = 1 \/ (name # Static /\ cs[k - 1].enclosingClass # None) THEN NotFound(cs)
  ELSE LET local == ResolveLocal(cs[k - 1], name)
           outer == FindUpvalue(cs, k - 1, name)
       IN IF local # 0
          THEN AddUpvalue([cs EXCEPT ![k - 1].locals[local].isUpvalue = TRUE],
                          k, TRUE, local, cs[k - 1].locals[local].id)
          ELSE IF outer.index = 0 THEN outer
               ELSE AddUpvalue(outer.cs, k, FALSE, outer.index,
                               outer.cs[k - 1].upvalues[outer.index].id)

ResolveNonmodule(cs, name) ==
  LET local == ResolveLocal(Last(cs), name)
  IN IF local # 0 THEN Found(cs, "local", local) ELSE FindUpvalue(cs, Len(cs), name)

ResolveName(cs, name) ==
  LET r == ResolveNonmodule(cs, name)
  IN IF r.index # 0 THEN r ELSE Found(cs, "module", 0)

LoadVariable(c, variable, means) ==
  EmitOp(c, CASE variable.scope = "local" -> "LOAD_LOCAL"
              [] variable.scope = "upvalue" -> "LOAD_UPVALUE"
              [] OTHER -> "LOAD_MODULE_VAR", variable.index, means)

StoreVariable(c, variable, means) ==
  EmitOp(c, CASE variable.scope = "local" -> "STORE_LOCAL"
              [] variable.scope = "upvalue" -> "STORE_UPVALUE"
              [] OTHER -> "STORE_MODULE_VAR", variable.index, means)

\* The nearest compiler in the middle of a class, or 0.
EnclosingClassCompiler ==
  LET ks == {k \in DOMAIN compilers : compilers[k].enclosingClass # None}
  IN IF ks = {} THEN 0 ELSE Max(ks)

InClass == EnclosingClassCompiler # 0
EnclosingClass == compilers[EnclosingClassCompiler].enclosingClass

Put(cs, c) == Append(Front(cs), c)

LoadThis(cs) ==
  LET r == ResolveNonmodule(cs, This)
  IN Put(r.cs, LoadVariable(Last(r.cs), r, Meaning(This)))

-----------------------------------------------------------------------------
(* The parser.                                                              *)

Task(do, arg) == [do |-> do, arg |-> arg]
Doing(do) == todo # <<>> /\ Head(todo).do = do
Arg == Head(todo).arg
Current == Last(compilers)

Then(tasks) == todo' = tasks \o Tail(todo)
Edit(c) == compilers' = Put(compilers, c)
Free == UNCHANGED left
Costs(production) ==
  production \in DOMAIN left /\ left[production] > 0 /\ left' = [left EXCEPT ![production] = @ - 1]
More == \E production \in DOMAIN left : left[production] > 0

Expression == Task("expression", "value")
Effect == Task("expression", "statement")   \* no sources say only "1" in a statement
Statement == Task("statement", 0)
Definition == Task("definition", 0)

\* What most steps leave alone.
Rest == UNCHANGED <<program, functions, definitions, rejected>>
Same == Rest /\ UNCHANGED ghosts

\* Nothing is made of a source with an error.
Reject(reason) ==
  /\ rejected' = reason
  /\ todo' = <<>>
  /\ UNCHANGED <<program, compilers, functions, definitions, ghosts>>

-----------------------------------------------------------------------------
(* Expressions.                                                             *)

Literal ==
  /\ Doing("expression") /\ Free /\ Same
  /\ Arg = "value"
  /\ Edit(EmitOp(Current, "CONSTANT", 0, 0))
  /\ Then(<<>>)

\* bareName(): a read, or an assignment whose variable was resolved before
\* its right-hand side.
BareName(r, means, isLoad) ==
  \/ isLoad /\ compilers' = Put(r.cs, LoadVariable(Last(r.cs), r, means)) /\ Then(<<>>)
  \/ /\ ~isLoad
     /\ compilers' = r.cs
     /\ Then(<<Expression, Task("store", [scope |-> r.scope, index |-> r.index, means |-> means])>>)

Store ==
  /\ Doing("store") /\ Free /\ Same
  /\ Edit(StoreVariable(Current, Arg, Arg.means))
  /\ Then(<<>>)

\* A name that is not found in a class is a call of a method of this.  Names here are
\* local ones: others are variables of the module there, too.
Name(name, isLoad) ==
  /\ Doing("expression") /\ Costs(IF isLoad THEN "name" ELSE "setName") /\ Same
  /\ LET r == ResolveNonmodule(compilers, name)
         receiver == LoadThis(compilers)
     IN CASE r.index # 0 -> BareName(r, Meaning(name), isLoad)
          [] r.index = 0 /\ InClass ->
               \/ /\ isLoad
                  /\ compilers' = Put(receiver, EmitOp(Last(receiver), "CALL", 0, Meaning(name)))
                  /\ Then(<<>>)
               \/ /\ ~isLoad
                  /\ compilers' = receiver
                  /\ Then(<<Expression, Task("call", [args |-> 1, means |-> Meaning(name)])>>)
          [] OTHER -> BareName(ResolveName(compilers, name), Meaning(name), isLoad)

Call ==
  /\ Doing("call") /\ Free /\ Same
  /\ Edit(EmitOp(Current, "CALL", Arg.args, Arg.means))
  /\ Then(<<>>)

Calls(args) == Task("call", [args |-> args, means |-> Module])
Operands(n) == [i \in 1..n |-> Expression]
CallMethod0(c) == EmitOp(c, "CALL", 0, Module)

\* Unary and infix operators, method calls and subscripts.
Operator(args) ==
  /\ Doing("expression") /\ Costs("operator") /\ Same
  /\ UNCHANGED compilers
  /\ Then(Operands(args + 1) \o <<Calls(args)>>)

\* A list or a map: the elements are added to a new one.
NewCollection(c) == CallMethod0(EmitOp(c, "LOAD_MODULE_VAR", 0, Module))

Collection(args) ==
  /\ Doing("expression") /\ Costs("collection") /\ Same
  /\ Edit(NewCollection(Current))
  /\ Then(Operands(args) \o <<Calls(args)>>)

AddPart(c) == EmitOp(EmitOp(c, "CONSTANT", 0, 0), "CALL", 1, Module)

StringInterpolation ==
  /\ Doing("expression") /\ Costs("collection") /\ Same
  /\ Edit(AddPart(NewCollection(Current)))
  /\ Then(<<Expression, Calls(1), Task("join", 0)>>)

Join ==
  /\ Doing("join") /\ Free /\ Same
  /\ Edit(CallMethod0(AddPart(Current)))
  /\ Then(<<>>)

ThisOrSuper ==
  /\ Doing("expression") /\ Costs("this")
  /\ IF InClass
     THEN /\ LET cs == LoadThis(compilers)
             IN compilers' = cs \/ compilers' = Put(cs, EmitOp(Last(cs), "SUPER", 0, 0))
          /\ Then(<<>>) /\ Same
     ELSE Reject("this")

\* Fn.new {|name| ... }: the function is compiled as the block argument of a
\* call.
BlockArgument(params) ==
  /\ Doing("expression") /\ Costs("fn") /\ Rest
  /\ compilers' = Put(compilers, EmitOp(Current, "LOAD_MODULE_VAR", 0, Module))
                    \o <<InitCompiler("fn", params, declared + 1)>>
  /\ scopes' = Append(scopes, Scope("fn", <<Var(Receiver, declared + 1)>>
                 \o [i \in DOMAIN params |-> Var(params[i], declared + 1 + i)]))
  /\ declared' = declared + 1 + Len(params)
  /\ Then(<<Task("body", "fn"), Calls(1)>>)

Conditional ==
  /\ Doing("expression") /\ Costs("conditional") /\ Same
  /\ UNCHANGED compilers
  /\ \/ Then(<<Expression, Task("conditional", 0)>>)
     \/ Then(<<Expression, Task("and", 0)>>)

ConditionalThen ==
  /\ Doing("conditional") /\ Free /\ Same
  /\ Edit(EmitOp(Current, "JUMP_IF", 0, 0))
  /\ Then(<<Expression, Task("conditionalElse", Here(Current))>>)

ConditionalElse ==
  /\ Doing("conditionalElse") /\ Free /\ Same
  /\ Edit(PatchJump(EmitOp(Current, "JUMP", 0, 0), Arg))
  /\ Then(<<Expression, Task("patch", Here(Current))>>)

And ==
  /\ Doing("and") /\ Free /\ Same
  /\ Edit(EmitOp(Current, "AND", 0, 0))
  /\ Then(<<Expression, Task("patch", Here(Current))>>)

Patch ==
  /\ Doing("patch") /\ Free /\ Same
  /\ Edit(PatchJump(Current, Arg))
  /\ Then(<<>>)

-----------------------------------------------------------------------------
(* Fields and static fields.                                                *)

\* A field is one the class has already or the next one.  Directly inside a
\* method there is an instruction for it.
EmitField(cs, isLoad, arg) ==
  IF Len(cs) = EnclosingClassCompiler + 1
  THEN Put(cs, EmitOp(Last(cs), IF isLoad THEN "LOAD_FIELD_THIS" ELSE "STORE_FIELD_THIS",
                      arg.field, arg))
  ELSE LET loaded == LoadThis(cs)
       IN Put(loaded, EmitOp(Last(loaded), IF isLoad THEN "LOAD_FIELD" ELSE "STORE_FIELD",
                             arg.field, arg))

Field(isLoad) ==
  /\ Doing("expression") /\ Costs(IF isLoad THEN "field" ELSE "setField")
  /\ IF ~InClass \/ EnclosingClass.isForeign \/ EnclosingClass.inStatic THEN Reject("field")
     ELSE \E f \in 1..EnclosingClass.fields + 1 :
            LET cs == [compilers EXCEPT ![EnclosingClassCompiler].enclosingClass.fields = Max({@, f})]
                arg == [field |-> f, class |-> EnclosingClass.definition]
            IN \/ f > MaxFields /\ Reject("fields")
               \/ /\ f <= MaxFields /\ Same
                  /\ \/ isLoad /\ compilers' = EmitField(cs, TRUE, arg) /\ Then(<<>>)
                     \/ ~isLoad /\ compilers' = cs /\ Then(<<Expression, Task("storeField", arg)>>)

StoreField ==
  /\ Doing("storeField") /\ Free /\ Same
  /\ compilers' = EmitField(compilers, FALSE, Arg)
  /\ Then(<<>>)

\* A static field is a local variable of the scope of the class, which is
\* added while its methods are compiled.
StaticField(isLoad) ==
  /\ Doing("expression") /\ Costs(IF isLoad THEN "staticField" ELSE "setStaticField")
  /\ LET k == EnclosingClassCompiler
         class == Max({j \in DOMAIN scopes : scopes[j].kind = "class"})
         isNew == ResolveLocal(compilers[k], Static) = 0
         id == declared + 1
         c == AddLocal(compilers[k], Static, id)
         cs == [compilers EXCEPT ![k] =
                  EmitOp(EmitOp(c, "NULL", 0, 0), "VAR", Len(c.locals), id)]
     IN CASE k = 0 -> Reject("static")
          [] k # 0 /\ isNew /\ Len(compilers[k].locals) = MaxLocals -> Reject("full")
          [] k # 0 /\ isNew /\ Len(compilers[k].locals) < MaxLocals ->
               AddVar(class, Static) /\ BareName(ResolveName(cs, Static), id, isLoad) /\ Rest
          [] OTHER -> BareName(ResolveName(compilers, Static), Meaning(Static), isLoad) /\ Same

-----------------------------------------------------------------------------
(* Statements.  Each begins with the variables in scope on the stack.       *)

Begins(c) == EmitOp(c, "STATEMENT", InScope, 0)

ExpressionStatement ==
  /\ Doing("statement") /\ Free /\ Same
  /\ More
  /\ Edit(Begins(Current))
  /\ Then(<<Effect, Task("pop", 0)>>)

EmitPop ==
  /\ Doing("pop") /\ Free /\ Same
  /\ Edit(EmitOp(Current, "POP", 0, 0))
  /\ Then(<<>>)

IfStatement ==
  /\ Doing("statement") /\ Costs("if") /\ Same
  /\ Edit(Begins(Current))
  /\ Then(<<Expression, Task("if", 0)>>)

IfThen ==
  /\ Doing("if") /\ Free /\ Same
  /\ Edit(EmitOp(Current, "JUMP_IF", 0, 0))
  /\ Then(<<Statement, Task("endIf", Here(Current))>>)

EndIf ==
  /\ Doing("endIf") /\ Free /\ Same
  /\ \/ /\ Edit(PatchJump(Current, Arg))
        /\ Then(<<>>)
     \/ /\ More
        /\ Edit(PatchJump(EmitOp(Current, "JUMP", 0, 0), Arg))
        /\ Then(<<Statement, Task("patch", Here(Current))>>)

StartLoop(c) ==
  [c EXCEPT !.loop = Append(@, [start |-> Here(c), exitJump |-> 0, body |-> 0,
                                scopeDepth |-> c.scopeDepth])]

TestExitLoop(c) ==
  [EmitOp(c, "JUMP_IF", 0, 0) EXCEPT !.loop[Len(c.loop)].exitJump = Here(c)]

LoopBody(c) == [c EXCEPT !.loop[Len(c.loop)].body = Here(c)]

\* Every END in the body is a break, and becomes a jump out of the loop.
EndLoop(c) ==
  LET loop == Last(c.loop)
      looped == PatchJump(EmitOp(c, "LOOP", loop.start, 0), loop.exitJump)
  IN [looped EXCEPT
        !.code = [i \in DOMAIN @ |->
                    IF i >= loop.body /\ @[i].op = "END"
                    THEN [@[i] EXCEPT !.op = "JUMP", !.arg = Here(looped)] ELSE @[i]],
        !.loop = Front(@)]

WhileStatement ==
  /\ Doing("statement") /\ Costs("while") /\ Same
  /\ Edit(StartLoop(Begins(Current)))
  /\ Then(<<Expression, Task("while", 0), Statement, Task("endWhile", 0)>>)

WhileBody ==
  /\ Doing("while") /\ Free /\ Same
  /\ Edit(LoopBody(TestExitLoop(Current)))
  /\ Then(<<>>)

EndWhile ==
  /\ Doing("endWhile") /\ Free /\ Same
  /\ Edit(EndLoop(Current))
  /\ Then(<<>>)

ForStatement(name) ==
  /\ Doing("statement") /\ Costs("for") /\ Rest
  /\ Edit(PushScope(Begins(Current)))
  /\ scopes' = Append(scopes, Scope("block", <<>>)) /\ UNCHANGED declared
  /\ Then(<<Expression, Task("for", name), Statement, Task("endFor", 0)>>)

\* The hidden variables need two slots; the loop variable is not checked.
ForLoop ==
  /\ Doing("for") /\ Free
  /\ IF Len(Current.locals) + 2 > MaxLocals THEN Reject("full")
     ELSE LET id == declared + 1
              seq == Len(Current.locals) + 1
              iter == seq + 1
              Hidden(c, name, slot, i) == EmitOp(AddLocal(c, name, i), "VAR", slot, i)
              LoadBoth(c) == EmitOp(EmitOp(c, "LOAD_LOCAL", seq, id), "LOAD_LOCAL", iter, id + 1)
              started == StartLoop(
                 Hidden(EmitOp(Hidden(Current, "seq ", seq, id), "NULL", 0, 0), "iter ", iter, id + 1))
              tested == TestExitLoop(EmitOp(
                 EmitOp(LoadBoth(started), "CALL", 1, Module), "STORE_LOCAL", iter, id + 1))
              valued == EmitOp(LoadBoth(tested), "CALL", 1, Module)
          IN /\ Edit(LoopBody(Hidden(PushScope(valued), Arg, iter + 1, id + 2)))
             /\ scopes' = Append([scopes EXCEPT ![Len(scopes)].vars =
                                    @ \o <<Var("seq ", id), Var("iter ", id + 1)>>],
                                 Scope("block", <<Var(Arg, id + 2)>>))
             /\ declared' = id + 2
             /\ Then(<<>>) /\ Rest

EndFor ==
  /\ Doing("endFor") /\ Free /\ Rest
  /\ Edit(PopScope(EndLoop(PopScope(Current))))
  /\ scopes' = SubSeq(scopes, 1, Len(scopes) - 2) /\ UNCHANGED declared
  /\ Then(<<>>)

\* break and continue: the variables of the loop are discarded, not undeclared.
Break ==
  /\ Doing("statement") /\ Costs("break")
  /\ IF Current.loop = <<>> THEN Reject("break")
     ELSE LET loop == Last(Current.loop)
              c == DiscardLocals(Begins(Current), loop.scopeDepth + 1)
          IN /\ Edit(EmitOp(c, "END", 0, 0)) \/ Edit(EmitOp(c, "LOOP", loop.start, 0))
             /\ Then(<<>>) /\ Same

ReturnStatement ==
  /\ Doing("statement") /\ Costs("return") /\ Same
  /\ Edit(Begins(Current))
  /\ Then(<<Expression, Task("return", 0)>>)

EmitReturn ==
  /\ Doing("return") /\ Free /\ Same
  /\ Edit(EmitOp(Current, "RETURN", 0, 0))
  /\ Then(<<>>)

BlockStatement ==
  /\ Doing("statement") /\ Costs("block") /\ Rest
  /\ Edit(PushScope(Begins(Current)))
  /\ scopes' = Append(scopes, Scope("block", <<>>)) /\ UNCHANGED declared
  /\ Then(<<Task("definitions", 0), Task("endBlock", 0)>>)

EndBlock ==
  /\ Doing("endBlock") /\ Free /\ Rest
  /\ Edit(PopScope(Current))
  /\ scopes' = Front(scopes) /\ UNCHANGED declared
  /\ Then(<<>>)

-----------------------------------------------------------------------------
(* Definitions and bodies.                                                  *)

\* finishBlock(): definitions up to the closing brace.
Definitions ==
  /\ Doing("definitions") /\ Free /\ Same
  /\ UNCHANGED compilers
  /\ \/ Then(<<>>)
     \/ More /\ Then(<<Definition, Task("definitions", 0)>>)

StatementDefinition ==
  /\ Doing("definition") /\ Free /\ Same
  /\ UNCHANGED compilers
  /\ Then(<<Statement>>)

VariableDefinition(name) ==
  /\ Doing("definition") /\ Costs("var") /\ Same
  /\ Current.scopeDepth >= 0
  /\ Edit(Begins(Current))
  /\ Then(<<Expression, Task("declare", name)>>)

Declare ==
  /\ Doing("declare") /\ Free
  /\ CASE AlreadyDeclared(Current, Arg) -> Reject("duplicate")
       [] ~AlreadyDeclared(Current, Arg) /\ Len(Current.locals) = MaxLocals -> Reject("full")
       [] OTHER ->
            /\ Edit(EmitOp(AddLocal(Current, Arg, declared + 1), "VAR",
                           Len(Current.locals) + 1, declared + 1))
            /\ AddVar(Len(scopes), Arg)
            /\ Then(<<>>) /\ Rest

\* An import that names one variable.
Import(name) ==
  /\ Doing("definition") /\ Costs("import") /\ Same
  /\ Current.scopeDepth >= 0
  /\ Edit(EmitOp(EmitOp(Begins(Current), "IMPORT_MODULE", 0, 0), "POP", 0, 0))
  /\ Then(<<Task("import", 0), Task("declare", name)>>)

ImportVariable ==
  /\ Doing("import") /\ Free /\ Same
  /\ Edit(EmitOp(Current, "IMPORT_VARIABLE", 0, 0))
  /\ Then(<<>>)

\* finishBody(), after an expression or after definitions.
Body ==
  /\ Doing("body") /\ Free /\ Same
  /\ UNCHANGED compilers
  /\ \/ Then(<<Expression, Task("finishBody", [kind |-> Arg, isExpression |-> TRUE])>>)
     \/ Then(<<Task("definitions", 0),
               Task("finishBody", [kind |-> Arg, isExpression |-> FALSE])>>)

FinishedBody(c, kind, isExpression) ==
  LET popped == IF isExpression THEN EmitOp(c, "POP", 0, 0) ELSE c
  IN EmitOp(CASE kind = "construct" -> EmitOp(popped, "LOAD_LOCAL", 1, c.entry)
              [] kind = "script" -> EmitOp(c, "END_MODULE", 0, 0)
              [] kind \in {"fn", "instance", "static"} /\ ~isExpression -> EmitOp(c, "NULL", 0, 0)
              [] OTHER -> c, "RETURN", 0, 0)

Function(c) ==
  [code |-> c.code, upvalues |-> c.upvalues, arity |-> c.arity, maxSlots |-> c.maxSlots,
   entry |-> [i \in 1..1 + c.arity |-> c.entry + i - 1]]

\* endCompiler(): the function around it makes the closure.
EndCompiler ==
  /\ Doing("finishBody") /\ Free
  /\ LET c == FinishedBody(Current, Arg.kind, Arg.isExpression)
         outer == Front(compilers)
     IN /\ functions' = Append(functions, Function(c))
        /\ compilers' = IF outer = <<>> THEN outer
                        ELSE Put(outer, EmitOp(Last(outer), "CLOSURE", Len(functions) + 1, 0))
  /\ scopes' = Front(scopes) /\ UNCHANGED <<declared, program, definitions, rejected>>
  /\ Then(<<>>)

-----------------------------------------------------------------------------
(* Classes.                                                                 *)

\* The class is declared before its superclass is compiled; its slot holds its
\* name until then.
ClassDefinition(name, isForeign) ==
  /\ Doing("definition") /\ Costs(IF isForeign THEN "foreignClass" ELSE "class")
  /\ LET c == Begins(Current)
         isLocal == c.scopeDepth >= 0
         id == IF isLocal THEN declared + 1 ELSE Module
         slot == Len(c.locals) + 1
         named == EmitOp(IF isLocal THEN AddLocal(c, name, id) ELSE c, "CONSTANT", 0, 0)
         class == [scope |-> IF isLocal THEN "local" ELSE "module",
                   index |-> IF isLocal THEN slot ELSE 0, means |-> id, isForeign |-> isForeign]
         labelled == IF isLocal THEN EmitOp(named, "VAR", slot, id) ELSE named
     IN CASE isLocal /\ AlreadyDeclared(c, name) -> Reject("duplicate")
          [] isLocal /\ ~AlreadyDeclared(c, name) /\ Len(c.locals) = MaxLocals -> Reject("full")
          [] OTHER ->
               /\ \/ /\ Edit(EmitOp(labelled, "LOAD_MODULE_VAR", 0, Module))
                     /\ Then(<<Task("class", class)>>)
                  \/ /\ Edit(labelled)
                     /\ Then(<<Expression, Task("class", class)>>)
               /\ IF isLocal THEN AddVar(Len(scopes), name) ELSE UNCHANGED ghosts
               /\ Rest

ClassBody ==
  /\ Doing("class") /\ Free
  /\ LET made == EmitOp(Current, "CLASS", 0, 0)
         defined == IF Arg.scope = "module"
                    THEN EmitOp(EmitOp(made, "STORE_MODULE_VAR", 0, Module), "POP", 0, 0)
                    ELSE made
         within == IF InClass THEN EnclosingClass.definition ELSE 0
     IN /\ Edit([PushScope(defined) EXCEPT !.enclosingClass =
                   [fields |-> 0, symbols |-> {}, inStatic |-> FALSE, at |-> Here(Current),
                    isForeign |-> Arg.isForeign, definition |-> Len(definitions) + 1]])
        /\ definitions' = Append(definitions,
             [fields |-> IF Arg.isForeign THEN Foreign ELSE 0, methods |-> <<>>, within |-> within])
  /\ scopes' = Append(scopes, Scope("class", <<>>))
  /\ Then(<<Task("methods", Arg)>>)
  /\ UNCHANGED <<program, functions, rejected, declared>>

MethodKinds == {"instance", "static", "construct"}

\* An initializer has a signature of its own.
Signature(symbol, kind) ==
  [symbol |-> symbol, isStatic |-> kind = "static", isInit |-> kind = "construct"]

Method(symbol, kind) ==
  /\ Doing("methods") /\ Costs(kind)
  /\ IF Signature(symbol, kind) \in Current.enclosingClass.symbols THEN Reject("duplicate")
     ELSE /\ compilers' = Put(compilers,
               [Current EXCEPT !.enclosingClass.inStatic = kind = "static",
                               !.enclosingClass.symbols = @ \cup {Signature(symbol, kind)}])
                 \o <<InitCompiler("method", <<>>, declared + 1)>>
          /\ scopes' = Append(scopes, Scope("method", <<Var(This, declared + 1)>>))
          /\ declared' = declared + 1
          /\ Then(<<Task("body", kind),
                    Task("method", [symbol |-> symbol, kind |-> kind, class |-> Arg])>> \o <<Head(todo)>>)
          /\ Rest

\* defineMethod(): the class is loaded for each of its methods.
DefineMethod(c, variable, isStatic) ==
  EmitOp(LoadVariable(c, variable, variable.means),
         IF isStatic THEN "METHOD_STATIC" ELSE "METHOD_INSTANCE", 0, 0)

ConstructorCode ==
  <<Instruction("CONSTRUCT", 0, 0), Instruction("CALL", 0, Module), Instruction("RETURN", 0, 0)>>

\* The end of method(): a constructor is an initializer and a static method
\* that makes the instance.
FinishMethod ==
  /\ Doing("method") /\ Free
  /\ LET d == Current.enclosingClass.definition
         isInit == Arg.kind = "construct"
         bound == DefineMethod(Current, Arg.class, Arg.kind = "static")
         Bound(isStatic, fn) == [symbol |-> Arg.symbol, isStatic |-> isStatic,
                                 isInit |-> isInit /\ ~isStatic, fn |-> fn]
         method == Bound(Arg.kind = "static", Len(functions))
     IN IF isInit
        THEN /\ Edit(DefineMethod(EmitOp(bound, "CLOSURE", Len(functions) + 1, 0), Arg.class, TRUE))
             /\ functions' = Append(functions,
                  [code |-> ConstructorCode, upvalues |-> <<>>, arity |-> 0,
                   maxSlots |-> 1, entry |-> <<Module>>])
             /\ definitions' = [definitions EXCEPT ![d].methods =
                                  @ \o <<method, Bound(TRUE, Len(functions) + 1)>>]
        ELSE /\ Edit(bound)
             /\ definitions' = [definitions EXCEPT ![d].methods = Append(@, method)]
             /\ UNCHANGED functions
  /\ Then(<<>>)
  /\ UNCHANGED <<program, rejected, ghosts>>

EndClass ==
  /\ Doing("methods") /\ Free
  /\ LET class == Current.enclosingClass
     IN /\ Edit(PopScope([Current EXCEPT !.enclosingClass = None,
                  !.code[class.at].arg = IF class.isForeign THEN Foreign ELSE class.fields]))
        /\ definitions' = IF class.isForeign THEN definitions
                          ELSE [definitions EXCEPT ![class.definition].fields = class.fields]
  /\ scopes' = Front(scopes)
  /\ Then(<<>>)
  /\ UNCHANGED <<program, functions, rejected, declared>>

-----------------------------------------------------------------------------
\* wrenCompile()
CompilerInit ==
  /\ program \in Programs
  /\ left = program.uses
  /\ todo = <<Task("definitions", 0), Task("finishBody", [kind |-> "script", isExpression |-> FALSE])>>
  /\ compilers = <<InitCompiler("script", <<>>, 1)>>
  /\ functions = <<>> /\ definitions = <<>> /\ rejected = None
  /\ scopes = <<Scope("script", <<Var(Receiver, 1)>>)>> /\ declared = 1

CompilerNext ==
  \/ Literal \/ Store \/ Call \/ ThisOrSuper \/ StoreField
  \/ \E isLoad \in BOOLEAN :
       Field(isLoad) \/ StaticField(isLoad) \/ \E name \in program.names : Name(name, isLoad)
  \/ \E args \in 0..2 : Operator(args)
  \/ \E args \in 1..2 : Collection(args)
  \/ StringInterpolation \/ Join \/ ImportVariable
  \/ Conditional \/ ConditionalThen \/ ConditionalElse \/ And \/ Patch
  \/ \E params \in {<<>>} \cup {<<n>> : n \in program.names} : BlockArgument(params)
  \/ \E name \in program.names :
       \/ ForStatement(name) \/ VariableDefinition(name) \/ Import(name)
       \/ \E isForeign \in BOOLEAN : ClassDefinition(name, isForeign)
  \/ ExpressionStatement \/ EmitPop \/ IfStatement \/ IfThen \/ EndIf
  \/ WhileStatement \/ WhileBody \/ EndWhile \/ ForLoop \/ EndFor \/ Break
  \/ ReturnStatement \/ EmitReturn \/ BlockStatement \/ EndBlock
  \/ Definitions \/ StatementDefinition \/ Declare \/ Body \/ EndCompiler
  \/ ClassBody \/ FinishMethod \/ EndClass
  \/ \E symbol \in program.names, kind \in MethodKinds : Method(symbol, kind)

Compiled == todo = <<>> /\ rejected = None

=============================================================================

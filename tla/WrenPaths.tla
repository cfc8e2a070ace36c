------------------------------ MODULE WrenPaths ------------------------------
(***************************************************************************)
(* How the host program names modules (wren_util.c): runFile() turns the    *)
(* path of a script into the name of its module, and resolveModule() the    *)
(* string of an import into the name of the imported one, from the name of  *)
(* the importer.  readModule() opens the file that has the module's name,   *)
(* with its extension, so a name is good if it leads, from the working      *)
(* directory, to the file that was meant.                                   *)
(*                                                                         *)
(* A path is a sequence of characters.  What it means is a place: the names *)
(* of the directories from the root of the file system to the file, and its *)
(* own.                                                                     *)
(*                                                                         *)
(* An operator X_Y is X with the mistake Y, which a property must notice;   *)
(* the specification itself never uses it.                                  *)
(***************************************************************************)
EXTENDS Integers, Sequences, SequencesExt, FiniteSetsExt

CONSTANTS
  Scripts,           (* paths of scripts the program is started with        *)
  Imports,           (* strings of import statements                        *)
  WorkingDirectory,  (* the place the program is started at                 *)
  MaxImports         (* how long the chain of imports gets                  *)

ASSUME PathsAssumption ==
  /\ WorkingDirectory \in Seq(Seq(STRING))
  /\ MaxImports \in Nat

VARIABLES
  name,              (* the name of the module that runs, or None before     *)
  place,             (* the place of the file that was meant                 *)
  outside,           (* whether the chain began with a script above or away  *)
                     (* from the working directory, or took an absolute path *)
  imported           (* how many imports led here                            *)

pathVars == <<name, place, outside, imported>>

Separator == "/"
Dot == <<".">>
DotDot == <<".", ".">>

\* What the name of a module is when trimPathPrefix() finds no separator: it
\* copies from an address near null.
Crash == <<"crash">>

-----------------------------------------------------------------------------
(* Paths.                                                                   *)

\* pathType(): a path that may be one of a file but need not is simple.
IsAbsolute(path) == path # <<>> /\ path[1] = Separator

IsRelative(path) ==
  \/ IsPrefix(Append(Dot, Separator), path)
  \/ IsPrefix(Append(DotDot, Separator), path)

IsSimple(path) == ~IsAbsolute(path) /\ ~IsRelative(path)

Separators(path) == {i \in 1..Len(path) : path[i] = Separator}

\* pathDirName(): also of a file in the root, "/a", it is the empty path.
DirName(path) ==
  IF Separators(path) = {} THEN <<>>
  ELSE SubSeq(path, 1, Max(Separators(path)) - 1)

\* pathRemoveExtension(): from the first dot of the last component.
RemoveExtension(path) ==
  LET dots == {i \in 1..Len(path) :
                 path[i] = "." /\ \A s \in Separators(path) : s < i}
  IN IF dots = {} THEN path ELSE SubSeq(path, 1, Min(dots) - 1)

\* trimPathPrefix(): what follows the first separator.
TrimPathPrefix(path) ==
  IF Separators(path) = {} THEN Crash
  ELSE SubSeq(path, Min(Separators(path)) + 1, Len(path))

\* pathJoin().
PathJoin(path, string) ==
  IF path # <<>> /\ Last(path) # Separator
  THEN Append(path, Separator) \o string
  ELSE path \o string

\* The parts of a path between separators, in order and none of them empty.
Components(path) ==
  SelectSeq(FoldLeft(LAMBDA parts, char :
                       IF char = Separator THEN Append(parts, <<>>)
                       ELSE [parts EXCEPT ![Len(parts)] = Append(@, char)],
                     <<<<>>>>, path),
            LAMBDA part : part # <<>>)

JoinedWith(parts) ==
  FoldLeft(LAMBDA path, part :
             IF path = <<>> THEN part ELSE Append(path, Separator) \o part,
           <<>>, parts)

\* pathNormalize(): drops "." and each component that a ".." walks out of, and
\* keeps the kind of the path.
WalkOut_ForgetsLeading(kept) ==
  IF kept.names # <<>> THEN [kept EXCEPT !.names = Front(@)] ELSE kept

WalkOut(kept) ==
  IF kept.names # <<>> THEN [kept EXCEPT !.names = Front(@)]
  ELSE [kept EXCEPT !.leading = Append(@, DotDot)]

PathNormalize(path) ==
  LET kept == FoldLeft(LAMBDA k, part :
                         CASE part = Dot -> k
                           [] part = DotDot -> WalkOut(k)
                           [] OTHER -> [k EXCEPT !.names = Append(@, part)],
                       [leading |-> <<>>, names |-> <<>>], Components(path))
      result ==
        IF IsAbsolute(path) THEN <<Separator>> \o JoinedWith(kept.names)
        ELSE IF kept.leading = <<>> /\ IsPrefix(Append(Dot, Separator), path)
        THEN JoinedWith(<<Dot>> \o kept.names)
        ELSE JoinedWith(kept.leading \o kept.names)
  IN IF result = <<>> THEN Dot ELSE result

\* resolveModule().
ResolveModule(importer, module) ==
  IF IsSimple(module) THEN module
  ELSE PathNormalize(PathJoin(DirName(importer), module))

\* The name runFile() gives the module of a script: a simple path is made
\* relative first, so that there is something to trim.
RunFileName(path) ==
  TrimPathPrefix(RemoveExtension(
    IF IsSimple(path) THEN PathJoin(Dot, path) ELSE path))

-----------------------------------------------------------------------------
(* Places: the file system leads from a directory along a path.             *)

Reach(directory, path) ==
  FoldLeft(LAMBDA at, part :
             CASE part = Dot -> at
               [] part = DotDot -> IF at = <<>> THEN at ELSE Front(at)
               [] OTHER -> Append(at, part),
           IF IsAbsolute(path) THEN <<>> ELSE directory, Components(path))

Directory(file) == IF file = <<>> THEN file ELSE Front(file)

PathsIdle ==
  /\ name = <<>> /\ place = WorkingDirectory
  /\ outside = FALSE /\ imported = MaxImports

\* runFile().
PathsInit ==
  \E path \in Scripts :
    /\ name = RunFileName(path)
    /\ place = Reach(WorkingDirectory, RemoveExtension(path))
    /\ outside = (IsAbsolute(path) \/ IsPrefix(DotDot, path))
    /\ imported = 0

\* The module that runs imports another one, whose body runs next.
Import(module) ==
  /\ imported < MaxImports
  /\ name' = ResolveModule(name, module)
  /\ place' = Reach(IF IsSimple(module) THEN WorkingDirectory
                    ELSE Directory(place), module)
  /\ outside' = (outside \/ IsAbsolute(module))
  /\ imported' = imported + 1

PathsNext == \E module \in Imports : Import(module)

-----------------------------------------------------------------------------
\* However the imports walk through directories, the name of a module leads to
\* the file its import meant, the one beside the importer for a relative import
\* (resolveModule), and the name of the script is never taken from a path
\* without a separator (trimPathPrefix).  Names of what lies outside the
\* working directory lose their beginning and are left out.
ResolvesBeside ==
  /\ name # Crash
  /\ ~outside => Reach(WorkingDirectory, name) = place
=============================================================================

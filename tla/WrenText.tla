------------------------------ MODULE WrenText -------------------------------
(***************************************************************************)
(* Strings of bytes as scripts see them: subscripts and ranges that may     *)
(* count from the end (wren_primitive.c), UTF-8 (wren_utils.c), the search  *)
(* of wrenStringFind() and the primitives of strings, lists and ranges that *)
(* use them (wren_core.c, wren_value.c), and on top of these String.split() *)
(* and String.replace(), which are loops written in Wren (wren_core.wren).  *)
(*                                                                         *)
(* A string is a sequence of bytes; as in the code, an index counts from 0. *)
(* A list is a sequence too, and its elements do not matter.                *)
(*                                                                         *)
(* An operator X_Y is X with the mistake Y, which a property must notice;   *)
(* the specification itself never uses it.                                  *)
(***************************************************************************)
EXTENDS Integers, Sequences, SequencesExt, FiniteSetsExt

CONSTANTS
  Texts,        (* strings that are searched and sliced                      *)
  Searches,     (* strings they are searched for, none of them empty         *)
  Substitute,   (* what replace() puts there                                 *)
  Junk,         (* a byte that was allocated and never written               *)
  Failed,       (* what a primitive returns that aborts the fiber            *)
  Undefined,    (* what is up to the contents of the memory                  *)
  Stop          (* `false`, from iterate(_)                                  *)

ByteMax == 255  (* UINT8_MAX                                                 *)

Bytes == 0..ByteMax

ASSUME TextAssumption ==
  /\ Texts \subseteq Seq(Bytes)
  /\ Searches \subseteq Seq(Bytes) \ {<<>>}
  /\ Substitute \in Seq(Bytes)
  /\ Junk \notin Bytes

VARIABLES
  method,       (* "split" or "replace"                                      *)
  returned,     (* whether it has returned                                   *)
  text,         (* `this`                                                    *)
  search,       (* `delimiter` or `from`                                     *)
  last,         (* `last`, where the rest of the text begins                 *)
  result        (* `result`, the list of pieces of split() and the one       *)
                (* string of replace()                                       *)

textVars == <<method, returned, text, search, last, result>>

At(s, index) == s[index + 1]
Indexes(s) == {i \in 0..Len(s) : i # Len(s)}

NotFound == -1

-----------------------------------------------------------------------------
(* Indexes and ranges.                                                      *)

FromEnd(value, count) == IF value < 0 THEN count + value ELSE value

\* validateIndexValue(), for integers.
ValidateIndex(value, count) ==
  LET index == FromEnd(value, count)
  IN IF index \in 0..(count - 1) THEN index ELSE Failed

\* The last index of an exclusive range, which ends one short of `to`.
LastOf_Increasing(from, to) == to - 1

LastOf(from, to) == IF to >= from THEN to - 1 ELSE to + 1

\* calculateRange(): the first index, how many there are, and the step.
CalculateRange(range, count) ==
  LET from == ValidateIndex(range.from, count)
      to == FromEnd(range.to, count)
      end == IF range.inclusive THEN to ELSE LastOf(from, to)
  IN IF /\ range.from = count
        /\ range.to = (IF range.inclusive THEN -1 ELSE count)
     THEN [start |-> 0, count |-> 0, step |-> 0]
     ELSE IF from = Failed THEN Failed
     ELSE IF ~range.inclusive /\ to = from
     THEN [start |-> from, count |-> 0, step |-> 0]
     ELSE IF end \notin 0..(count - 1) THEN Failed
     ELSE [start |-> from,
           count |-> (IF from < end THEN end - from ELSE from - end) + 1,
           step |-> IF from < end THEN 1 ELSE -1]

\* The indexes a slice takes, in order.
Taken(calculated) ==
  [n \in 1..calculated.count |-> calculated.start + (n - 1) * calculated.step]

\* list_subscript with a range.
ListSubscript(list, range) ==
  LET calculated == CalculateRange(range, Len(list)) IN
  IF calculated = Failed THEN Failed
  ELSE LET taken == Taken(calculated)
       IN [n \in DOMAIN taken |-> At(list, taken[n])]

\* range_iterate: what follows the iterator, or Stop.
RangeIterate(range, iterator) ==
  LET next == IF range.from < range.to THEN iterator + 1 ELSE iterator - 1 IN
  IF \/ IF range.from < range.to THEN next > range.to ELSE next < range.to
     \/ ~range.inclusive /\ next = range.to
  THEN Stop
  ELSE next

\* The values of a loop over the range; `MostSteps` turns are enough to leave
\* the strings and lists it is used on.
MostSteps == 2 + Max({Len(t) : t \in Texts})

RECURSIVE LoopFrom(_, _, _)
LoopFrom(range, iterator, steps) ==
  LET next == RangeIterate(range, iterator) IN
  <<iterator>> \o
    IF next = Stop \/ steps = 0 THEN <<>> ELSE LoopFrom(range, next, steps - 1)

LoopOver(range) ==
  IF range.from = range.to /\ ~range.inclusive THEN <<>>
  ELSE LoopFrom(range, range.from, MostSteps)

-----------------------------------------------------------------------------
(* UTF-8.  A test of high bits is one of the quotient by a power of two.    *)

IsContinuation(byte) == byte \div 64 = 2        \* 10xxxxxx

\* wrenUtf8DecodeNumBytes().
DecodeNumBytes(byte) ==
  CASE IsContinuation(byte) -> 0
    [] byte \div 8 = 30 -> 4
    [] byte \div 16 = 14 -> 3
    [] byte \div 32 = 6 -> 2
    [] OTHER -> 1

\* wrenUtf8EncodeNumBytes(), which has no answer above 0x10ffff.
EncodeNumBytes(value) ==
  CASE value <= 127 -> 1
    [] value \in 128..2047 -> 2
    [] value \in 2048..65535 -> 3
    [] value \in 65536..1114111 -> 4
    [] OTHER -> 0

\* wrenUtf8Encode().
Low(value, unit) == 128 + ((value \div unit) % 64)

Encode(value) ==
  CASE EncodeNumBytes(value) = 1 -> <<value>>
    [] EncodeNumBytes(value) = 2 -> <<192 + value \div 64, Low(value, 1)>>
    [] EncodeNumBytes(value) = 3 ->
         <<224 + value \div 4096, Low(value, 64), Low(value, 1)>>
    [] EncodeNumBytes(value) = 4 ->
         <<240 + value \div 262144, Low(value, 4096), Low(value, 64), Low(value, 1)>>
    [] OTHER -> Undefined

\* wrenUtf8Decode(): the code point that begins at the index, or -1 if none
\* does or the string ends before it does.
LeadBits(byte) ==
  CASE byte \div 32 = 6 -> byte % 32
    [] byte \div 16 = 14 -> byte % 16
    [] OTHER -> byte % 8

Decode(s, index) ==
  LET lead == At(s, index)
      size == DecodeNumBytes(lead)
      rest == SubSeq(s, index + 2, index + size)
  IN IF lead <= 127 THEN lead
     ELSE IF size < 2 \/ index + size > Len(s) THEN -1
     ELSE IF \E n \in DOMAIN rest : ~IsContinuation(rest[n]) THEN -1
     ELSE FoldLeft(LAMBDA value, byte : (value * 64) + (byte % 64),
                   LeadBits(lead), rest)

-----------------------------------------------------------------------------
(* Primitives of strings.                                                   *)

\* wrenStringCodePointAt(): a byte that begins no code point stands for itself.
CodePointAt(s, index) ==
  LET codePoint == Decode(s, index)
  IN IF codePoint = -1 THEN <<At(s, index)>> ELSE Encode(codePoint)

\* string_iterate: the next byte that is not in the middle of a code point.
StringIterate(s, index) ==
  LET next == {i \in Indexes(s) : i > index /\ ~IsContinuation(At(s, i))}
  IN IF next = {} THEN Stop ELSE Min(next)

RECURSIVE LoopChars(_, _)
LoopChars(s, index) ==
  IF index = Stop THEN <<>>
  ELSE <<CodePointAt(s, index)>> \o LoopChars(s, StringIterate(s, index))

\* What a loop over a string sees.
CharsOf(s) == LoopChars(s, IF s = <<>> THEN Stop ELSE 0)

\* wrenNewStringFromRange(): the first bytes of the range's code points tell
\* how long the result is, and those that can be decoded fill it.
NewStringFromRange(s, taken) ==
  LET length == FoldLeft(LAMBDA sum, i : sum + DecodeNumBytes(At(s, i)), 0, taken)
      written == FoldLeft(LAMBDA to, i :
                            IF to = Undefined \/ Decode(s, i) = -1 THEN to
                            ELSE IF Encode(Decode(s, i)) = Undefined THEN Undefined
                            ELSE to \o Encode(Decode(s, i)),
                          <<>>, taken)
  IN IF written = Undefined \/ Len(written) > length THEN Undefined
     ELSE written \o [n \in 1..(length - Len(written)) |-> Junk]

\* string_subscript with a range.
StringSubscript(s, range) ==
  LET calculated == CalculateRange(range, Len(s)) IN
  IF calculated = Failed THEN Failed
  ELSE NewStringFromRange(s, Taken(calculated))

\* wrenStringFind(): how far the window moves when its last byte is `byte`, by
\* a table of ByteMax entries, which has none for the greatest byte.
Shift_PastMatch(needle, byte) ==
  LET before == {i \in Indexes(needle) : i < Len(needle) - 1 /\ At(needle, i) = byte}
  IN IF before = {} THEN Len(needle) + 1 ELSE Len(needle) - 1 - Max(before)

Shift(needle, byte) ==
  LET before == {i \in Indexes(needle) : i < Len(needle) - 1 /\ At(needle, i) = byte}
  IN IF byte = ByteMax THEN Undefined
     ELSE IF before = {} THEN Len(needle) ELSE Len(needle) - 1 - Max(before)

Occurs(haystack, needle, index) ==
  /\ index + Len(needle) <= Len(haystack)
  /\ SubSeq(haystack, index + 1, index + Len(needle)) = needle

RECURSIVE Slide(_, _, _)
Slide(haystack, needle, index) ==
  IF index > Len(haystack) - Len(needle) THEN NotFound
  ELSE IF Occurs(haystack, needle, index) THEN index
  ELSE LET shift == Shift(needle, At(haystack, index + Len(needle) - 1))
       IN IF shift = Undefined THEN Undefined
          ELSE Slide(haystack, needle, index + shift)

\* A needle with the greatest byte before its end makes the code write past the
\* table before it looks at the haystack.
StringFind(haystack, needle, start) ==
  IF needle = <<>> THEN start
  ELSE IF \/ start + Len(needle) > Len(haystack)
          \/ start >= Len(haystack) THEN NotFound
  ELSE IF ByteMax \in Range(Front(needle)) THEN Undefined
  ELSE Slide(haystack, needle, start)

\* string_indexOf2, with a start that is not negative.
IndexOf(s, needle, start) ==
  IF ValidateIndex(start, Len(s)) = Failed THEN Failed
  ELSE StringFind(s, needle, start)

-----------------------------------------------------------------------------
(* split() and replace().                                                   *)

Exclusive(from, to) == [from |-> from, to |-> to, inclusive |-> FALSE]
Inclusive(from, to) == [from |-> from, to |-> to, inclusive |-> TRUE]

TextIdle ==
  /\ method = "split" /\ returned = TRUE
  /\ text = <<>> /\ search = <<>> /\ last = 0 /\ result = <<<<>>>>

TextInit ==
  /\ method \in {"split", "replace"} /\ returned = FALSE
  /\ text \in Texts /\ search \in Searches
  /\ last = 0 /\ result = <<>>

\* string_plus.
Plus(s, t) == IF Undefined \in {s, t} THEN Undefined ELSE s \o t

\* What the condition of the loop finds; an undefined search may find anything,
\* and the method is taken to return.
Searched == IF last < Len(text) THEN IndexOf(text, search, last) ELSE NotFound

SearchUndefined ==
  /\ ~returned /\ Searched = Undefined
  /\ returned' = TRUE /\ result' = Undefined
  /\ UNCHANGED <<method, text, search, last>>

\* A turn of the loop.
After(index) == index + Len(search)

SplitNext ==
  /\ ~returned /\ method = "split"
  /\ Searched \notin {NotFound, Undefined}
  /\ result' = Append(result, StringSubscript(text, Exclusive(last, Searched)))
  /\ last' = After(Searched)
  /\ UNCHANGED <<method, returned, text, search>>

ReplaceNext ==
  /\ ~returned /\ method = "replace"
  /\ Searched \notin {NotFound, Undefined}
  /\ result' = Plus(Plus(result, StringSubscript(text, Exclusive(last, Searched))),
                    Substitute)
  /\ last' = After(Searched)
  /\ UNCHANGED <<method, returned, text, search>>

\* A text that ends with the delimiter has an empty last piece.
TheRest ==
  IF last < Len(text) THEN StringSubscript(text, Inclusive(last, -1)) ELSE <<>>

SplitEnd ==
  /\ ~returned /\ method = "split" /\ Searched = NotFound
  /\ result' = Append(result, TheRest)
  /\ returned' = TRUE
  /\ UNCHANGED <<method, text, search, last>>

ReplaceEnd ==
  /\ ~returned /\ method = "replace" /\ Searched = NotFound
  /\ result' = Plus(result, TheRest)
  /\ returned' = TRUE
  /\ UNCHANGED <<method, text, search, last>>

TextNext == SplitNext \/ ReplaceNext \/ SearchUndefined \/ SplitEnd \/ ReplaceEnd

-----------------------------------------------------------------------------
\* A string of whole code points, each in as few bytes as it takes.
WellFormed(s) ==
  LET leads == {i \in Indexes(s) : ~IsContinuation(At(s, i))} IN
  /\ \A i \in leads :
       /\ Decode(s, i) # -1
       /\ EncodeNumBytes(Decode(s, i)) = DecodeNumBytes(At(s, i))
  /\ \A i \in Indexes(s) : \E j \in leads : i - j \in 0..(DecodeNumBytes(At(s, j)) - 1)

\* A slice (list_subscript, string_subscript) has the elements that a loop over
\* the same range visits, in its order, when ends that count from the end of
\* the sequence are counted from its beginning; it fails if the loop would
\* leave the sequence, except for the two ways of asking for an empty slice at
\* its end (calculateRange).  The slice of a well-formed string has the code
\* points that begin at the visited bytes, and no byte left unwritten.  A loop
\* over such a string sees all of it.
SlicesIterate ==
  LET count == Len(text)
      ends == -(count + 1) .. (count + 1)
      CharAt(i) == SubSeq(text, i + 1, i + DecodeNumBytes(At(text, i)))
  IN
  /\ \A range \in [from : ends, to : ends, inclusive : BOOLEAN] :
       LET visits == LoopOver([range EXCEPT !.from = FromEnd(@, count),
                                            !.to = FromEnd(@, count)])
           emptyAtEnd == /\ range.from = count
                         /\ range.to = IF range.inclusive THEN -1 ELSE count
           inside == /\ FromEnd(range.from, count) \in Indexes(text)
                     /\ Range(visits) \subseteq Indexes(text)
           slice == IF emptyAtEnd THEN <<>> ELSE visits
       IN IF emptyAtEnd \/ inside
          THEN /\ ListSubscript(text, range) = [n \in DOMAIN slice |-> At(text, slice[n])]
               /\ WellFormed(text) =>
                    StringSubscript(text, range)
                      = FlattenSeq([n \in DOMAIN slice |-> CharAt(slice[n])])
          ELSE /\ ListSubscript(text, range) = Failed
               /\ StringSubscript(text, range) = Failed
  /\ WellFormed(text) => FlattenSeq(CharsOf(text)) = text

\* The pieces of a string between the occurrences of `search`, from the left.
RECURSIVE PiecesOf(_)
PiecesOf(s) ==
  LET hits == {i \in Indexes(s) : Occurs(s, search, i)} IN
  IF hits = {} THEN <<s>>
  ELSE <<SubSeq(s, 1, Min(hits))>>
         \o PiecesOf(SubSeq(s, Min(hits) + Len(search) + 1, Len(s)))

Joined(pieces, between) ==
  Tail(FoldLeft(LAMBDA s, piece : s \o between \o piece, <<Junk>> \o Head(pieces), Tail(pieces)))

\* A search finds the first occurrence from where it starts, whatever its
\* shift table lets it skip (wrenStringFind), unless it meets the byte the
\* table has no entry for; and so split() cuts a well-formed string at each
\* occurrence, once, and replace() replaces each, with no byte lost or left
\* unwritten at the ends and between occurrences that touch.
SplitsAtFirst ==
  LET hits == {i \in Indexes(text) : i >= last /\ Occurs(text, search, i)} IN
  /\ ~returned =>
       \/ Searched = IF hits = {} THEN NotFound ELSE Min(hits)
       \/ Searched = Undefined /\ ByteMax \in Range(text) \cup Range(search)
  /\ returned /\ WellFormed(text) /\ WellFormed(search) =>
       result = IF method = "split" THEN PiecesOf(text)
                ELSE Joined(PiecesOf(text), Substitute)
=============================================================================

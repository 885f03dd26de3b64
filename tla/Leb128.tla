-------------------------------- MODULE Leb128 --------------------------------
(***************************************************************************)
(* Stream::read_leb and the readers of types that use it.  A byte holds a  *)
(* group of bits and says whether another one follows; a loop puts the     *)
(* groups together in the integer type it reads.  A block type that is no  *)
(* value type is read a second time, from one byte back.                   *)
(*                                                                         *)
(* The stream gives its bytes as they are read and may end at any.  The    *)
(* width of a group and of the integers are parameters: 7, and 8, 32 and   *)
(* 64 in the code.                                                         *)
(***************************************************************************)
EXTENDS Integers, Sequences, SequencesExt

CONSTANTS
  GroupBits,    \* the bits of a byte but the flag
  NarrowBits,   \* of uint8_t, in which Type is kept
  WordBits,     \* of uint32_t and int32_t
  LongBits,     \* of uint64_t and int64_t
  ValueTypes,   \* the codes of Type
  EmptyType     \* Type::empty

Widths == {NarrowBits, WordBits, LongBits}

\* 2^n.
Pow2[n \in Nat] == IF n = 0 THEN 1 ELSE 2 * Pow2[n - 1]

Group == Pow2[GroupBits]

Half == Group \div 2

ASSUME Leb128Assumption ==
  /\ GroupBits \in Nat \ {0, 1} /\ Widths \subseteq Nat
  /\ NarrowBits = GroupBits + 1 /\ NarrowBits < WordBits /\ WordBits < LongBits
  /\ \A w \in Widths : w % GroupBits # 0
  /\ EmptyType = Half
  /\ ValueTypes \subseteq (Half + 1)..(Group - 1)

VARIABLES
  bytes,     \* what the stream has given so far
  offset,    \* Stream::offset, at most Len(bytes)
  read,      \* the read_leb that runs, and what it is for
  count,     \* the groups it has taken
  result,    \* its result so far, as a pattern of bits
  status,    \* "reading", "done", or thrown: "ended", "refused"
  answer     \* what was read, when done

vars == <<bytes, offset, read, count, result, status, answer>>

Bytes == [bits : 0..(Group - 1), more : BOOLEAN]

Unsigned(width, purpose) == [signed |-> FALSE, width |-> width, purpose |-> purpose]

Reads ==
  {Unsigned(w, "value") : w \in Widths}
    \cup {[Unsigned(w, "value") EXCEPT !.signed = TRUE] : w \in {WordBits, LongBits}}
    \cup {Unsigned(WordBits, p) : p \in {"type", "blocktype"}}

Nothing == [what |-> "nothing", n |-> 0]

Init ==
  /\ bytes = <<>> /\ offset = 0
  /\ read \in Reads
  /\ count = 0 /\ result = 0
  /\ status = "reading" /\ answer = Nothing

-----------------------------------------------------------------------------
(* What becomes of a value when its last byte has been taken.              *)

Shift == count * GroupBits

AsSigned(pattern, width) ==
  IF pattern >= Pow2[width - 1] THEN pattern - Pow2[width] ELSE pattern

Answer(what, n) ==
  /\ status' = "done" /\ answer' = [what |-> what, n |-> n]
  /\ offset' = offset + 1
  /\ UNCHANGED <<read, count, result>>

Refuse ==
  /\ status' = "refused"
  /\ offset' = offset + 1
  /\ UNCHANGED <<read, count, result, answer>>

\* The cast to Type keeps the low bits.
AsType(value) == value % Pow2[NarrowBits]

ReadType(value) ==
  IF AsType(value) \in ValueTypes THEN Answer("type", AsType(value)) ELSE Refuse

\* Mutant: the byte is not given back before the index is read.
BackOneNot == offset + 1

\* skip(-1), after the last byte.
BackOne == offset

ReadIndex ==
  /\ read' = Unsigned(LongBits, "index")
  /\ count' = 0 /\ result' = 0
  /\ offset' = BackOne
  /\ UNCHANGED <<status, answer>>

\* Mutant: a block type that is empty is taken for an index.
ReadBlockTypeNoEmpty(value) ==
  IF AsType(value) \in ValueTypes THEN Answer("type", AsType(value)) ELSE ReadIndex

ReadBlockType(value) ==
  IF AsType(value) = EmptyType THEN Answer("empty", 0)
  ELSE IF AsType(value) \in ValueTypes THEN Answer("type", AsType(value))
  ELSE ReadIndex

Finish(value) ==
  CASE read.purpose = "value" -> Answer("value", value)
    [] read.purpose = "index" -> Answer("index", value)
    [] read.purpose = "type" -> ReadType(value)
    [] read.purpose = "blocktype" -> ReadBlockType(value)

GoOn(value) ==
  /\ count' = count + 1 /\ result' = value
  /\ offset' = offset + 1
  /\ UNCHANGED <<read, status, answer>>

-----------------------------------------------------------------------------
(* The loops, a byte at a step.                                            *)

\* A type narrower than int is promoted before it is shifted.
ShiftedLeft(bits) ==
  LET promoted == IF read.width < WordBits THEN WordBits ELSE read.width IN
  (bits * Pow2[Shift]) % Pow2[promoted]

\* Mutant: a last group that is too large loses its high bits.
TooLongOnly(b) == Shift > read.width

\* Mutant: the last group has to fit as a whole.
TooLongWhole(b) == Shift + GroupBits > read.width

TooLarge(b) == Shift > read.width \/ ShiftedLeft(b.bits) \div Pow2[Shift] # b.bits

TakeUnsigned(b) ==
  LET value == (result + ShiftedLeft(b.bits)) % Pow2[read.width] IN
  IF TooLarge(b) THEN Refuse
  ELSE IF b.more THEN GoOn(value) ELSE Finish(value)

SignExtension(b) ==
  IF Shift + GroupBits < read.width /\ b.bits >= Half
  THEN Pow2[read.width] - Pow2[Shift + GroupBits] ELSE 0

\* The bits of the last group from the sign of the result on: all alike.
SignAndUnused(b) ==
  (AsSigned(b.bits, GroupBits) * 2) \div Pow2[read.width - Shift]

TakeSigned(b) ==
  LET value == (result + b.bits * Pow2[Shift]) % Pow2[read.width] IN
  IF Shift >= read.width - GroupBits
  THEN IF b.more \/ SignAndUnused(b) \notin {0, -1} THEN Refuse
       ELSE Finish(AsSigned(value, read.width))
  ELSE IF b.more THEN GoOn(value)
       ELSE Finish(AsSigned(value + SignExtension(b), read.width))

\* The byte at the offset: one that was read before, or any.
Take(b) ==
  /\ status = "reading"
  /\ IF offset < Len(bytes) THEN b = bytes[offset + 1] /\ UNCHANGED bytes
                            ELSE bytes' = Append(bytes, b)
  /\ IF read.signed THEN TakeSigned(b) ELSE TakeUnsigned(b)

\* eof() before a byte is read.
End ==
  /\ status = "reading" /\ offset = Len(bytes)
  /\ status' = "ended"
  /\ UNCHANGED <<bytes, offset, read, count, result, answer>>

Next == End \/ \E b \in Bytes : Take(b)

Spec == Init /\ [][Next]_vars

-----------------------------------------------------------------------------
(* What the encoding means.                                                *)

\* The values of the first n bytes.
ValuesUpTo(bs) ==
  LET upTo[n \in 0..Len(bs)] ==
        IF n = 0 THEN 0 ELSE upTo[n - 1] + bs[n].bits * Pow2[(n - 1) * GroupBits]
  IN  upTo

UnsignedValue(bs) == ValuesUpTo(bs)[Len(bs)]

SignedValue(bs) ==
  IF Last(bs).bits >= Half THEN UnsignedValue(bs) - Pow2[Len(bs) * GroupBits]
                           ELSE UnsignedValue(bs)

Value(bs) == IF read.signed THEN SignedValue(bs) ELSE UnsignedValue(bs)

InRange(value) ==
  IF read.signed
  THEN -(Pow2[read.width - 1]) <= value /\ value < Pow2[read.width - 1]
  ELSE 0 <= value /\ value < Pow2[read.width]

\* As many bytes as the widest value needs.
MostBytes == (read.width + GroupBits - 1) \div GroupBits

Complete(bs) == bs # <<>> /\ ~Last(bs).more

\* A block type is a signed number: an index, or the code of a type.
BlockTypeMeaning(bs) ==
  LET v == SignedValue(bs) IN
  IF v >= 0 THEN [what |-> "index", n |-> v]
  ELSE IF v + Group = EmptyType THEN [what |-> "empty", n |-> 0]
  ELSE IF v + Group \in ValueTypes THEN [what |-> "type", n |-> v + Group]
  ELSE Nothing

-----------------------------------------------------------------------------
(* Properties.                                                             *)

\* A value that read_leb returns is the one its bytes encode, for every width
\* and sign (Stream.h:67-132).  Named exception: what does not fit is refused by
\* shifting it there and back, which a uint8_t survives because it is promoted
\* to int; there the value is cut to its low bits (Stream.h:85).
DecodesExactly ==
  status = "done" /\ read.purpose = "value" =>
    \/ answer.n = Value(bytes) /\ Len(bytes) <= MostBytes
    \/ /\ read.width = NarrowBits /\ Len(bytes) = MostBytes
       /\ answer.n = UnsignedValue(bytes) % Pow2[NarrowBits]

\* What read_leb refuses (Stream.h:83, 87, 119, 121) has no value of the type:
\* it is longer than the longest, or is complete and out of range.  Every value
\* can thus be read back, in its shortest and its padded encodings.
RefusesOnlyUnrepresentable ==
  status = "refused" /\ read.purpose = "value" =>
    \/ Len(bytes) > MostBytes
    \/ Len(bytes) = MostBytes /\ (Last(bytes).more \/ ~InRange(Value(bytes)))

\* Whatever is read, a block type read twice included (WasmFile.cpp:418), the
\* stream goes on after the whole encoding: no byte of it is read as the next
\* opcode and no opcode is taken for a part of it.
WholeEncodingRead ==
  status = "done" =>
    /\ offset = Len(bytes) /\ Complete(bytes)
    /\ \A k \in 1..(Len(bytes) - 1) : bytes[k].more

\* A type is the one its code names (Type.cpp:6), and a block type the type or
\* the index that its signed number means (WasmFile.cpp:408), provided it takes
\* one byte and is one that has a meaning.  An index of two bytes or more is read
\* as the type that its low bits name, or as its last byte alone.
ShortTypesRead ==
  status = "done" /\ Len(bytes) = 1 =>
    /\ read.purpose \in {"blocktype", "index"} =>
         BlockTypeMeaning(bytes) \in {answer, Nothing}
    /\ read.purpose = "type" => answer.n = bytes[1].bits
=============================================================================

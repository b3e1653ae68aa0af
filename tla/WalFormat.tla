----------------------------- MODULE WalFormat -----------------------------
(***************************************************************************)
(* The bytes of the write-ahead log: how records are framed, what the      *)
(* parser accepts and what ReplayFrom reads out of a file.  A byte has     *)
(* Base values and a length field Width bytes, least significant first;    *)
(* the code has 256 and 4.  Strings and files are sequences of bytes.      *)
(***************************************************************************)
EXTENDS Naturals, Sequences

CONSTANTS
  Base,             \* number of values of a byte
  Width,            \* sizeof(LengthType) and sizeof(SizeType)
  kMaxRecordLength, \* longest payload that is written or replayed
  Malformed         \* what the parser makes of a payload it rejects

ASSUME BytesAssumption == Base \in Nat \ {0, 1, 2} /\ Width \in Nat \ {0}

Byte == 0..(Base - 1)
SetOp == 1
DeleteOp == 2

EmptyMap == [key \in {} |-> {}]

\* What is left of a number without its lowest bytes.
Shifted(n, bytes) ==
  LET rest[i \in 0..bytes] == IF i = 0 THEN n ELSE rest[i - 1] \div Base
  IN  rest[bytes]

Fits(n, width) == n \in Nat /\ Shifted(n, width) = 0

\* The limit itself fits into a length field.
ASSUME LimitAssumption == Fits(kMaxRecordLength, Width)

\* The bytes of a number, least significant first.
Primitive(n, width) == [i \in 1..width |-> Shifted(n, i - 1) % Base]
Length(n) == Primitive(n, Width)

\* Mutant of PrimitiveAt: most significant byte first.
PrimitiveBigEndian(bytes, at, width) ==
  LET upTo[i \in 0..width] ==
        IF i = 0 THEN 0 ELSE Base * upTo[i - 1] + bytes[at + i]
  IN  upTo[width]

\* The number in the width bytes behind the first at bytes.
PrimitiveAt(bytes, at, width) ==
  LET from[i \in 0..width] ==
        IF i = width THEN 0 ELSE bytes[at + i + 1] + Base * from[i + 1]
  IN  from[0]
LengthAt(bytes, at) == PrimitiveAt(bytes, at, Width)

Sized(string) == Length(Len(string)) \o string

SetPayload(key, value) == <<SetOp>> \o Sized(key) \o Sized(value)
DeletePayload(key) == <<DeleteOp>> \o Sized(key)

Payload(operation) ==
  IF operation.op = SetOp THEN SetPayload(operation.key, operation.value)
                          ELSE DeletePayload(operation.key)

\* Mutant of WithinLimit: the limit itself is refused.
BelowLimit(payload) == Len(payload) < kMaxRecordLength

\* Mutant of WithinLimit: nothing is refused.
AnyLength(payload) == TRUE

\* checked_record_length, which throws before a byte is written.
WithinLimit(payload) == Len(payload) <= kMaxRecordLength

Frame(payload) == Sized(payload)

\* Mutant of ParseRecord: bytes behind the last field are tolerated.
ParseRecordLoosely(payload) ==
  LET length == Len(payload)
      keyEnd == 1 + Width + LengthAt(payload, 1)
      key == SubSeq(payload, 2 + Width, keyEnd)
      valueEnd == keyEnd + Width + LengthAt(payload, keyEnd)
      hasKey == length >= 1 + Width /\ keyEnd <= length
      isSet == payload[1] = SetOp /\ keyEnd + Width <= length
                 /\ valueEnd <= length
  IN  CASE hasKey /\ isSet ->
             [op |-> SetOp, key |-> key,
              value |-> SubSeq(payload, keyEnd + Width + 1, valueEnd)]
        [] hasKey /\ payload[1] = DeleteOp -> [op |-> DeleteOp, key |-> key]
        [] OTHER -> Malformed

\* What apply_record reads from a payload: the operation, or Malformed.
ParseRecord(payload) ==
  LET length == Len(payload)
      keyEnd == 1 + Width + LengthAt(payload, 1)
      key == SubSeq(payload, 2 + Width, keyEnd)
      valueEnd == keyEnd + Width + LengthAt(payload, keyEnd)
      hasKey == length >= 1 + Width /\ keyEnd <= length
      isSet == payload[1] = SetOp /\ keyEnd + Width <= length
                 /\ valueEnd = length
      isDelete == payload[1] = DeleteOp /\ keyEnd = length
  IN  CASE hasKey /\ isSet ->
             [op |-> SetOp, key |-> key,
              value |-> SubSeq(payload, keyEnd + Width + 1, valueEnd)]
        [] hasKey /\ isDelete -> [op |-> DeleteOp, key |-> key]
        [] OTHER -> Malformed

\* Mutant of ReplayFrom: a payload cut short is parsed as far as it goes.
ReplayShortPayloads(file, offset) ==
  LET End(at) == at + Width + LengthAt(file, at)
      Shorter(at) == IF End(at) <= Len(file) THEN End(at) ELSE Len(file)
      opsAt[at \in Nat] ==
        IF at + Width > Len(file) \/ LengthAt(file, at) > kMaxRecordLength
        THEN <<>>
        ELSE LET parsed == ParseRecord(SubSeq(file, at + Width + 1, Shorter(at)))
             IN  (IF parsed = Malformed THEN <<>> ELSE <<parsed>>)
                   \o opsAt[End(at)]
  IN  opsAt[offset]

\* Mutant of ReplayFrom: the loop ends at a payload that the parser rejects.
ReplayStopsAtGarbage(file, offset) ==
  LET End(at) == at + Width + LengthAt(file, at)
      Readable(at) == /\ at + Width <= Len(file)
                      /\ LengthAt(file, at) <= kMaxRecordLength
                      /\ End(at) <= Len(file)
      opsAt[at \in Nat] ==
        IF ~Readable(at) THEN <<>>
        ELSE LET parsed == ParseRecord(SubSeq(file, at + Width + 1, End(at)))
             IN  IF parsed = Malformed THEN <<>> ELSE <<parsed>> \o opsAt[End(at)]
  IN  opsAt[offset]

(***************************************************************************)
(* The loop of ReplayFrom: the operations it applies, in order.  It stops  *)
(* at a short length field, a length beyond the limit or a short payload,  *)
(* and passes over a payload that the parser rejects.                      *)
(***************************************************************************)
ReplayFrom(file, offset) ==
  LET End(at) == at + Width + LengthAt(file, at)
      Readable(at) == /\ at + Width <= Len(file)
                      /\ LengthAt(file, at) <= kMaxRecordLength
                      /\ End(at) <= Len(file)
      opsAt[at \in Nat] ==
        IF ~Readable(at) THEN <<>>
        ELSE LET parsed == ParseRecord(SubSeq(file, at + Width + 1, End(at)))
             IN  (IF parsed = Malformed THEN <<>> ELSE <<parsed>>)
                   \o opsAt[End(at)]
  IN  opsAt[offset]

\* store[key] = value, or store.erase(key).
Apply(map, operation) ==
  IF operation.op = SetOp
  THEN [key \in DOMAIN map \cup {operation.key} |->
          IF key = operation.key THEN operation.value ELSE map[key]]
  ELSE [key \in DOMAIN map \ {operation.key} |-> map[key]]

\* The operations applied to the map one by one.
Applied(map, operations) ==
  LET after[n \in 0..Len(operations)] ==
        IF n = 0 THEN map ELSE Apply(after[n - 1], operations[n])
  IN  after[Len(operations)]
=============================================================================

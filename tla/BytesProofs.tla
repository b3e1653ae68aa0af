----------------------------- MODULE BytesProofs -----------------------------
(***************************************************************************)
(* The store's files as bytes, for every width and limit, any strings and  *)
(* any number of appends.  Of the log: replay reads back the records that  *)
(* were appended, and only a fragment or a stale offset hides an answered  *)
(* write from it.  Of both files: startup rebuilds the map from them.      *)
(***************************************************************************)
EXTENDS SnapshotBytes, FormatProofs, FiniteSetTheorems

----------------------------------------------------------------------------
\* The log.  Nothing here rests on SizesAssumption or on the limits of the
\* snapshot: these are for the theorems about both files.

----------------------------------------------------------------------------
\* Operations, their frames and their effects.
LEMMA OperationType ==
  ASSUME NEW operation \in Operation
  PROVE  operation \in Record /\ operation # Malformed /\ operation # Torn
<1>1. operation \in Record
  BY StringsAssumption DEF Operation, Record
<1> QED
  BY <1>1, MarkersAssumption

LEMMA OperationFrame ==
  ASSUME NEW operation \in Operation
  PROVE  /\ Payload(operation) \in Seq(Byte)
         /\ Frame(Payload(operation)) \in Seq(Byte)
         /\ Len(Frame(Payload(operation))) \in Nat
         /\ Len(Frame(Payload(operation))) > 0
  BY OperationType, PayloadType, FrameType

----------------------------------------------------------------------------
\* The entries in the file.
LEMMA EntryType ==
  ASSUME LogInv
  PROVE  /\ file \in Seq(Byte) /\ Len(file) \in Nat /\ Len(entries) \in Nat
         /\ snap.offset \in Nat
         /\ \A n \in 0..Len(entries) : EndOf(n) \in Nat
         /\ \A n \in 1..Len(entries) :
              entries[n].what \in Operation \cup {Torn} /\ EndOf(n - 1) < EndOf(n)
<1>1. /\ file \in Seq(Byte) /\ Len(file) \in Nat /\ Len(entries) \in Nat
      /\ snap.offset \in Nat
  BY DEF LogInv, TypeOK
<1>2. ASSUME NEW n \in 1..Len(entries)
      PROVE  entries[n].what \in Operation \cup {Torn} /\ entries[n].end \in Nat
  <2> DEFINE E == [what: Operation \cup {Torn}, end: Nat]
  <2>1. entries \in Seq(E)
    BY DEF LogInv, TypeOK
  <2> HIDE DEF E
  <2>2. entries[n] \in E
    BY <2>1, ElementOfSeq
  <2> QED
    BY <2>2 DEF E
<1>3. \A n \in 0..Len(entries) : EndOf(n) \in Nat
  BY <1>1, <1>2 DEF EndOf
<1>4. \A n \in 1..Len(entries) : EndOf(n - 1) < EndOf(n)
  BY DEF LogInv, EntriesFillTheFile, EntryInFile
<1> QED
  BY <1>1, <1>2, <1>3, <1>4

LEMMA EndsIncrease ==
  ASSUME LogInv
  PROVE  \A m, n \in 0..Len(entries) : m < n => EndOf(m) < EndOf(n)
<1> DEFINE S == {k \in Nat : \A m \in 0..Len(entries) :
                   m + (k + 1) <= Len(entries) => EndOf(m) < EndOf(m + (k + 1))}
<1>1. 0 \in S
  <2> SUFFICES ASSUME NEW m \in 0..Len(entries), m + 1 <= Len(entries)
               PROVE  EndOf(m) < EndOf(m + 1)
    OBVIOUS
  <2>1. m + 1 \in 1..Len(entries) /\ (m + 1) - 1 = m
    BY EntryType
  <2> QED
    BY <2>1, EntryType
<1>2. ASSUME NEW k \in Nat, k \in S
      PROVE  k + 1 \in S
  <2> SUFFICES ASSUME NEW m \in 0..Len(entries), m + ((k + 1) + 1) <= Len(entries)
               PROVE  EndOf(m) < EndOf(m + ((k + 1) + 1))
    OBVIOUS
  <2> DEFINE n == m + (k + 1)
  <2>1. /\ m + ((k + 1) + 1) = n + 1 /\ n \in 0..Len(entries)
        /\ n + 1 \in 1..Len(entries) /\ n + 1 \in 0..Len(entries) /\ (n + 1) - 1 = n
    BY EntryType
  <2>2. EndOf(m) < EndOf(n)
    BY <1>2, <2>1
  <2> HIDE DEF n
  <2>3. EndOf(n) < EndOf(n + 1)
    BY <2>1, EntryType
  <2>4. EndOf(m) \in Nat /\ EndOf(n) \in Nat /\ EndOf(n + 1) \in Nat
    BY <2>1, EntryType
  <2> QED
    BY <2>1, <2>2, <2>3, <2>4
<1> HIDE DEF S
<1>3. \A k \in Nat : k \in S
  BY <1>1, <1>2, SetInduction
<1>4. ASSUME NEW m \in 0..Len(entries), NEW n \in 0..Len(entries), m < n
      PROVE  EndOf(m) < EndOf(n)
  <2>1. (n - m) - 1 \in Nat /\ m + (((n - m) - 1) + 1) = n
    BY <1>4
  <2>2. (n - m) - 1 \in S
    BY <1>3, <2>1
  <2> QED
    BY <2>1, <2>2, EntryType DEF S
<1> QED
  BY <1>4

LEMMA EndsInFile ==
  ASSUME LogInv, NEW n \in 0..Len(entries)
  PROVE  /\ EndOf(n) <= Len(file)
         /\ EndOf(n) = Len(file) => n = Len(entries)
<1>1. EndOf(Len(entries)) = Len(file) /\ Len(entries) \in 0..Len(entries)
  BY EntryType DEF LogInv, EntriesFillTheFile
<1>2. n = Len(entries) \/ n < Len(entries)
  BY EntryType
<1>3. n < Len(entries) => EndOf(n) < Len(file)
  BY <1>1, EndsIncrease
<1> QED
  BY <1>1, <1>2, <1>3, EntryType

\* A whole entry is read, and then what comes behind it, also in a file that has
\* only the log's first bytes.
BeginsLikeTheLog(bytes, n) ==
  /\ bytes \in Seq(Byte) /\ EndOf(n) <= Len(bytes)
  /\ \A i \in 1..EndOf(n) : bytes[i] = file[i]

LEMMA ReplayEntry ==
  ASSUME LogInv, NEW n \in 1..Len(entries), entries[n].what # Torn,
         NEW bytes, BeginsLikeTheLog(bytes, n)
  PROVE  ReplayFrom(bytes, EndOf(n - 1))
           = <<entries[n].what>> \o ReplayFrom(bytes, EndOf(n))
<1> DEFINE what == entries[n].what
           frame == Frame(Payload(what))
<1>1. /\ what \in Operation /\ WithinLimit(Payload(what)) /\ LiesAt(n, frame)
      /\ EndOf(n) = EndOf(n - 1) + Len(frame)
  BY DEF LogInv, EntriesFillTheFile, EntryInFile
<1>2. n - 1 \in 0..Len(entries) /\ n \in 0..Len(entries)
  BY EntryType
<1>3. /\ EndOf(n - 1) \in Nat /\ EndOf(n) \in Nat /\ EndOf(n) <= Len(bytes)
      /\ bytes \in Seq(Byte) /\ \A i \in 1..EndOf(n) : bytes[i] = file[i]
  BY <1>2, EntryType DEF BeginsLikeTheLog
<1>4. Len(frame) \in Nat
  BY <1>1, OperationFrame
<1> HIDE DEF frame
<1>5. EndOf(n) - EndOf(n - 1) = Len(frame)
  BY <1>1, <1>3, <1>4
<1>6. Holds(bytes, EndOf(n - 1), frame)
  <2>1. \A i \in 1..Len(frame) : EndOf(n - 1) + i \in 1..EndOf(n)
    BY <1>1, <1>3, <1>4
  <2> QED
    BY <1>1, <1>3, <1>5, <2>1 DEF Holds, LiesAt
<1> HIDE DEF what
<1>7. Payload(what) \in Seq(Byte) /\ ParseRecord(Payload(what)) = what
      /\ what # Malformed
  BY <1>1, OperationType, OperationFrame, ParsesPayload
<1>8. ReplayFrom(bytes, EndOf(n - 1))
        = Records(ParseRecord(Payload(what)))
            \o ReplayFrom(bytes, EndOf(n - 1) + Len(frame))
  BY <1>1, <1>3, <1>6, <1>7, ReplayFrame DEF frame
<1>9. Records(ParseRecord(Payload(what))) = <<what>>
  BY <1>7 DEF Records
<1>10. ReplayFrom(bytes, EndOf(n - 1)) = <<what>> \o ReplayFrom(bytes, EndOf(n))
  BY <1>1, <1>8, <1>9
<1> QED
  BY <1>10 DEF what

\* At a fragment at the end nothing is read.
LEMMA ReplayFragment ==
  ASSUME LogInv, NEW n \in 1..Len(entries), n = Len(entries),
         entries[n].what = Torn
  PROVE  ReplayFrom(file, EndOf(n - 1)) = <<>>
<1> DEFINE at == EndOf(n - 1)
<1>1. PICK operation \in Operation :
             /\ WithinLimit(Payload(operation))
             /\ LiesAt(n, Frame(Payload(operation)))
             /\ EndOf(n) < EndOf(n - 1) + Len(Frame(Payload(operation)))
  BY DEF LogInv, EntriesFillTheFile, EntryInFile
<1> DEFINE payload == Payload(operation)
<1>2. /\ payload \in Seq(Byte) /\ Len(payload) \in Nat
      /\ Len(Frame(payload)) = Width + Len(payload) /\ Width \in Nat
  BY OperationFrame, FrameType, BytesAssumption
<1>3. at \in Nat /\ file \in Seq(Byte) /\ EndOf(n) = Len(file) /\ Len(file) \in Nat
  <2>1. n - 1 \in 0..Len(entries)
    BY EntryType
  <2> QED
    BY <2>1, EntryType DEF LogInv, EntriesFillTheFile
<1>4. /\ WithinLimit(payload)
      /\ \A i \in 1..(Len(file) - at) : file[at + i] = Frame(payload)[i]
      /\ Len(file) < at + Len(Frame(payload))
  BY <1>1, <1>3 DEF LiesAt
<1> HIDE DEF at, payload
<1>5. Length(Len(payload)) \in Seq(Byte) /\ Len(Length(Len(payload))) = Width
  BY <1>2, LengthType
<1>6. ASSUME NEW other \in Seq(Byte), WithinLimit(other),
             Holds(file, at, Frame(other))
      PROVE  FALSE
  <2>1. Len(Frame(other)) = Width + Len(other) /\ Len(other) \in Nat
    BY FrameType
  <2>2. at + Len(Frame(other)) <= Len(file)
    BY <1>6 DEF Holds
  <2>3. LengthAt(file, at) = Len(other)
    <3>1. Length(Len(other)) \in Seq(Byte) /\ Len(Length(Len(other))) = Width
      BY <2>1, LengthType
    <3>2. Holds(file, at, Length(Len(other)))
      BY <1>3, <1>6, <3>1, HoldsConcat, Zenon DEF Frame, Sized
    <3>3. Fits(Len(other), Width)
      BY <1>6, <2>1, WithinLimitFits DEF WithinLimit
    <3> QED
      BY <1>3, <3>2, <3>3, LengthAtHeld
  <2>4. LengthAt(file, at) = Len(payload)
    <3>1. Holds(Frame(payload), 0, Length(Len(payload)))
      <4>1. Frame(payload) \in Seq(Byte)
        BY <1>2, FrameType
      <4>2. Holds(Frame(payload), 0, Frame(payload))
        BY <4>1, HoldsAll
      <4> QED
        BY <1>2, <1>5, <4>1, <4>2, HoldsConcat, 0 \in Nat, Zenon DEF Frame, Sized
    <3>2. \A i \in 1..Width : Frame(payload)[i] = Length(Len(payload))[i]
      BY <1>5, <3>1 DEF Holds
    <3>3. at + Width <= Len(file)
      BY <1>2, <1>3, <2>1, <2>2
    <3>4. \A i \in 1..Width : i \in 1..(Len(file) - at)
      BY <1>2, <1>3, <3>3
    <3>5. Holds(file, at, Length(Len(payload)))
      BY <1>4, <1>5, <3>2, <3>3, <3>4 DEF Holds
    <3>6. Fits(Len(payload), Width)
      BY <1>2, <1>4, WithinLimitFits DEF WithinLimit
    <3> QED
      BY <1>3, <3>5, <3>6, LengthAtHeld
  <2> QED
    BY <1>2, <1>3, <1>4, <2>1, <2>2, <2>3, <2>4
<1>7. ReplayFrom(file, at) = <<>>
  BY <1>3, <1>6, ReplayNothing
<1> QED
  BY <1>7 DEF at

LEMMA LastAppended ==
  ASSUME NEW S, NEW k \in Nat, NEW front \in Seq(S), Len(front) = k, NEW last \in S,
         NEW s \in Seq(S), Len(s) = k + 1,
         \A i \in 1..k : s[i] = front[i], s[k + 1] = last
  PROVE  s = front \o <<last>>
<1> DEFINE t == front \o <<last>>
<1>1. /\ t \in Seq(S) /\ Len(t) = k + 1
      /\ \A i \in 1..k : t[i] = front[i]
      /\ t[k + 1] = last
  OBVIOUS
<1> HIDE DEF t
<1>2. \A i \in 1..Len(s) : s[i] = t[i]
  BY <1>1
<1>3. s = t
  BY <1>1, <1>2, SeqEqual
<1> QED
  BY <1>3 DEF t

\* The operations of the entries behind the c-th, up to the n-th.
Appended(c, n) == [i \in 1..(n - c) |-> entries[c + i].what]

LEMMA AppendedType ==
  ASSUME LogInv, NEW c \in 0..Len(entries), NEW n \in c..Len(entries),
         \A i \in (c + 1)..n : entries[i].what # Torn
  PROVE  /\ Appended(c, n) \in Seq(Operation) /\ Len(Appended(c, n)) = n - c
         /\ \A i \in 1..(n - c) : Appended(c, n)[i] = entries[c + i].what
<1>1. Len(entries) \in Nat
  BY EntryType
<1>2. ASSUME NEW i \in 1..(n - c)
      PROVE  entries[c + i].what \in Operation
  <2>1. c + i \in (c + 1)..n /\ c + i \in 1..Len(entries)
    BY <1>1
  <2> QED
    BY <2>1, EntryType
<1>3. n - c \in Nat
  BY <1>1
<1> QED
  BY <1>2, <1>3 DEF Appended

LEMMA AppendedStep ==
  ASSUME LogInv, NEW c \in 0..Len(entries), NEW n \in c..Len(entries), c < n,
         \A i \in (c + 1)..n : entries[i].what # Torn
  PROVE  Appended(c, n) = Appended(c, n - 1) \o <<entries[n].what>>
<1> DEFINE s == Appended(c, n)
           front == Appended(c, n - 1)
           last == entries[n].what
           k == (n - 1) - c
<1>1. /\ k \in Nat /\ n - c = k + 1 /\ c + (k + 1) = n
      /\ n - 1 \in c..Len(entries) /\ n \in (c + 1)..n /\ n \in 1..Len(entries)
      /\ \A i \in (c + 1)..(n - 1) : i \in (c + 1)..n
  BY EntryType
<1>2. /\ s \in Seq(Operation) /\ Len(s) = k + 1
      /\ \A i \in 1..(k + 1) : s[i] = entries[c + i].what
  BY <1>1, AppendedType
<1>3. /\ front \in Seq(Operation) /\ Len(front) = k
      /\ \A i \in 1..k : front[i] = entries[c + i].what
  BY <1>1, AppendedType
<1>4. last \in Operation
  BY <1>1, EntryType
<1> HIDE DEF s, front, k
<1>5. s[k + 1] = last
  BY <1>1, <1>2
<1> HIDE DEF last
<1>6. ASSUME NEW i \in 1..k
      PROVE  s[i] = front[i]
  <2>1. i \in 1..(k + 1)
    BY <1>1
  <2> QED
    BY <1>2, <1>3, <2>1, Zenon
<1>7. s = front \o <<last>>
  BY <1>1, <1>2, <1>3, <1>4, <1>5, <1>6, LastAppended, Zenon
<1> QED
  BY <1>7 DEF s, front, last

LEMMA ReplayEntries ==
  ASSUME LogInv, NEW c \in 0..Len(entries), NEW n \in c..Len(entries),
         \A i \in (c + 1)..n : entries[i].what # Torn,
         NEW bytes, BeginsLikeTheLog(bytes, n)
  PROVE  ReplayFrom(bytes, EndOf(c)) = Appended(c, n) \o ReplayFrom(bytes, EndOf(n))
<1> DEFINE Read(m) == ReplayFrom(bytes, EndOf(m))
           S == {k \in Nat : c + k <= n => Read(c) = Appended(c, c + k) \o Read(c + k)}
<1>0. /\ bytes \in Seq(Byte) /\ Len(entries) \in Nat
      /\ \A m \in 0..Len(entries) : EndOf(m) \in Nat
      /\ n \in 0..Len(entries)
  BY EntryType DEF BeginsLikeTheLog
<1>1. \A m \in 0..Len(entries) : Read(m) \in Seq(Writable)
  BY <1>0, ReplayType
<1>2. 0 \in S
  <2>1. c + 0 = c /\ c - c = 0
    OBVIOUS
  <2>2. Appended(c, c + 0) = <<>>
    BY <2>1 DEF Appended
  <2>3. Read(c) = <<>> \o Read(c)
    BY <1>1, ConcatEmptySeq
  <2> HIDE DEF Read
  <2> QED
    BY <2>1, <2>2, <2>3
<1>3. ASSUME NEW k \in Nat, k \in S
      PROVE  k + 1 \in S
  <2> SUFFICES ASSUME c + (k + 1) <= n
               PROVE  Read(c) = Appended(c, c + (k + 1)) \o Read(c + (k + 1))
    OBVIOUS
  <2> DEFINE m == c + (k + 1)
             what == entries[m].what
  <2>1. /\ m \in 1..Len(entries) /\ m \in c..Len(entries) /\ m > c /\ m - 1 = c + k
        /\ m - 1 \in c..Len(entries) /\ m - 1 \in 0..Len(entries) /\ m \in 0..Len(entries)
        /\ \A i \in (c + 1)..m : i \in (c + 1)..n
        /\ \A i \in (c + 1)..(m - 1) : i \in (c + 1)..n
        /\ m \in (c + 1)..n
    BY <1>0
  <2>2. Read(c) = Appended(c, m - 1) \o Read(m - 1)
    BY <1>3, <2>1
  <2> HIDE DEF m
  <2>3. what # Torn /\ what \in Operation
    BY <2>1, EntryType
  <2>4. Read(m - 1) = <<what>> \o Read(m)
    <3>1. EndOf(m) \in Nat /\ EndOf(n) \in Nat /\ (m = n \/ m < n)
      BY <1>0, <2>1
    <3>2. EndOf(m) <= EndOf(n)
      <4>1. CASE m = n
        BY <3>1, <4>1
      <4>2. CASE m < n
        <5>1. n \in 0..Len(entries)
          BY <1>0
        <5>2. EndOf(m) < EndOf(n)
          BY <2>1, <4>2, <5>1, EndsIncrease, Zenon
        <5> QED
          BY <3>1, <5>2
      <4> QED
        BY <3>1, <4>1, <4>2
    <3>3. Len(bytes) \in Nat /\ EndOf(n) <= Len(bytes)
      BY <1>0 DEF BeginsLikeTheLog
    <3>4. BeginsLikeTheLog(bytes, m)
      BY <3>1, <3>2, <3>3 DEF BeginsLikeTheLog
    <3> QED
      BY <2>1, <2>3, <3>4, ReplayEntry
  <2>5. Appended(c, m) = Appended(c, m - 1) \o <<what>>
    BY <2>1, AppendedStep
  <2>6. Appended(c, m - 1) \in Seq(Operation)
    BY <2>1, AppendedType
  <2>8. Read(m) \in Seq(Operation \cup Writable) /\ <<what>> \in Seq(Operation \cup Writable)
        /\ Appended(c, m - 1) \in Seq(Operation \cup Writable)
    <3>1. Read(m) \in Seq(Writable)
      BY <1>1, <2>1
    <3> HIDE DEF Read, what
    <3> QED
      BY <2>3, <2>6, <3>1, SeqMonotonic
  <2> HIDE DEF Read, what
  <2>9. Appended(c, m - 1) \o Read(m - 1) = Appended(c, m) \o Read(m)
    <3> DEFINE front == Appended(c, m - 1)
               last == <<what>>
               rest == Read(m)
               T == Operation \cup Writable
    <3>1. front \in Seq(T) /\ last \in Seq(T) /\ rest \in Seq(T)
      BY <2>8
    <3> HIDE DEF front, last, rest, T
    <3>2. (front \o last) \o rest = front \o (last \o rest)
      BY <3>1, ConcatAssociative
    <3> QED
      BY <2>4, <2>5, <3>2 DEF front, last, rest
  <2>10. Read(c) = Appended(c, m) \o Read(m)
    BY <2>2, <2>9
  <2> QED
    BY <2>10 DEF m
<1> HIDE DEF S
<1>4. \A k \in Nat : k \in S
  BY <1>2, <1>3, SetInduction
<1>5. n - c \in Nat /\ c + (n - c) = n
  BY <1>0
<1>6. Read(c) = Appended(c, n) \o Read(n)
  <2>1. n - c \in S
    BY <1>4, <1>5
  <2> QED
    BY <1>5, <2>1 DEF S
<1> QED
  BY <1>6

\* Behind the last entry nothing is read.
LEMMA ReplayEnd ==
  ASSUME LogInv
  PROVE  ReplayFrom(file, EndOf(Len(entries))) = <<>>
<1>1. EndOf(Len(entries)) = Len(file) /\ file \in Seq(Byte) /\ Len(file) \in Nat
  BY EntryType DEF LogInv, EntriesFillTheFile
<1> QED
  BY <1>1, ReplayAtEnd

USE DEF FileInv

\* The snapshot covers whole entries, and up to the first torn one the entries
\* behind it are whole.
LEMMA CoveredIs ==
  ASSUME LogInv, OffsetBetweenEntries, ~stale
  PROVE  /\ Covered \in 0..Len(entries) /\ EndOf(Covered) = snap.offset
         /\ \A n \in 0..Len(entries) : snap.offset < EndOf(n) <=> Covered < n
<1>1. Covered \in 0..Len(entries) /\ EndOf(Covered) = snap.offset
  BY Zenon DEF OffsetBetweenEntries, Covered
<1>2. ASSUME NEW n \in 0..Len(entries)
      PROVE  snap.offset < EndOf(n) <=> Covered < n
  <2>1. /\ Covered < n => EndOf(Covered) < EndOf(n)
        /\ n < Covered => EndOf(n) < EndOf(Covered)
    BY <1>1, EndsIncrease
  <2>2. EndOf(n) \in Nat /\ EndOf(Covered) \in Nat /\ Len(entries) \in Nat
    BY <1>1, EntryType
  <2>3. n = Covered \/ n < Covered \/ Covered < n
    BY <1>1, <2>2
  <2> QED
    BY <1>1, <2>1, <2>2, <2>3
<1> QED
  BY <1>1, <1>2

LEMMA LastWholeIs ==
  ASSUME LogInv, OffsetBetweenEntries, ~stale
  PROVE  /\ LastWhole \in Covered..Len(entries)
         /\ \A i \in (Covered + 1)..LastWhole : entries[i].what # Torn
         /\ LastWhole = Len(entries) \/ LastWhole + 1 \in TornAt
<1> DEFINE IsLastWhole(n) ==
             /\ TornAt \cap 1..n = {}
             /\ n = Len(entries) \/ n + 1 \in TornAt
<1>1. Covered \in 0..Len(entries) /\ Len(entries) \in Nat
  BY CoveredIs, EntryType
<1>2. \E n \in Covered..Len(entries) : IsLastWhole(n)
  <2>1. CASE TornAt = {}
    BY <1>1, <2>1
  <2>2. CASE TornAt # {}
    <3>1. TornAt \in SUBSET Nat
      BY <1>1 DEF TornAt
    <3>2. PICK t \in TornAt : \A other \in TornAt : t <= other
      BY <2>2, <3>1, LeastNatural
    <3>3. t - 1 \in Covered..Len(entries) /\ (t - 1) + 1 = t /\ t \in Nat
      <4>1. t \in 1..Len(entries) /\ t \in 0..Len(entries) /\ snap.offset < EndOf(t)
        BY <1>1, <3>2 DEF TornAt
      <4>2. Covered < t
        BY <4>1, CoveredIs
      <4> QED
        BY <1>1, <4>1, <4>2
    <3>4. TornAt \cap 1..(t - 1) = {}
      BY <3>1, <3>2, <3>3
    <3>5. IsLastWhole(t - 1)
      BY <3>2, <3>3, <3>4
    <3> HIDE DEF IsLastWhole
    <3> QED
      BY <3>3, <3>5
  <2> QED
    BY <2>1, <2>2
<1>3. LastWhole \in Covered..Len(entries) /\ IsLastWhole(LastWhole)
  BY <1>2, Zenon DEF LastWhole
<1>4. ASSUME NEW i \in (Covered + 1)..LastWhole
      PROVE  entries[i].what # Torn
  <2>1. i \in 1..LastWhole /\ i \in (Covered + 1)..Len(entries)
    BY <1>1, <1>3
  <2>2. i \notin TornAt
    BY <1>3, <2>1
  <2>3. i \in 1..Len(entries) /\ i \in 0..Len(entries) /\ Covered < i
    BY <1>1, <2>1
  <2>4. snap.offset < EndOf(i)
    BY <2>3, CoveredIs
  <2> QED
    BY <2>2, <2>3, <2>4 DEF TornAt
<1> QED
  BY <1>3, <1>4

\* ReplayReadsTheRecords follows from how the entries lie in the file.
LEMMA ReplayReads ==
  ASSUME LogInv, OffsetBetweenEntries
  PROVE  ReplayReadsTheRecords
<1> SUFFICES ASSUME ~stale
             PROVE  /\ IsPrefix(Whole, ReplayFrom(file, snap.offset))
                    /\ TornAt \subseteq {Len(entries)}
                         => ReplayFrom(file, snap.offset) = Whole
  BY DEF ReplayReadsTheRecords
<1> DEFINE c == Covered
           n == LastWhole
           rest == ReplayFrom(file, EndOf(n))
<1>1. /\ c \in 0..Len(entries) /\ EndOf(c) = snap.offset
      /\ n \in c..Len(entries)
      /\ \A i \in (c + 1)..n : entries[i].what # Torn
      /\ n = Len(entries) \/ n + 1 \in TornAt
  BY CoveredIs, LastWholeIs
<1>2. Whole = Appended(c, n)
  BY DEF Whole, Appended
<1>3. Len(entries) \in Nat /\ file \in Seq(Byte) /\ n \in 0..Len(entries)
      /\ EndOf(n) \in Nat
  BY <1>1, EntryType
<1> HIDE DEF c, n
<1>4. ReplayFrom(file, snap.offset) = Whole \o rest
  <2>1. BeginsLikeTheLog(file, n)
    BY <1>3, EndsInFile DEF BeginsLikeTheLog
  <2> QED
    BY <1>1, <1>2, <2>1, ReplayEntries
<1>5. Whole \in Seq(Operation)
  BY <1>1, <1>2, AppendedType
<1>6. rest \in Seq(Writable)
  BY <1>3, ReplayType
<1> DEFINE T == Operation \cup Writable
<1>7. Whole \in Seq(T) /\ rest \in Seq(T)
  BY <1>5, <1>6, SeqMonotonic
<1>8. ASSUME TornAt \subseteq {Len(entries)}
      PROVE  rest = <<>>
  <2>1. CASE n = Len(entries)
    BY <2>1, ReplayEnd
  <2>2. CASE n + 1 \in TornAt
    <3>1. n + 1 = Len(entries) /\ n + 1 \in 1..Len(entries) /\ (n + 1) - 1 = n
      BY <1>3, <1>8, <2>2
    <3>2. entries[n + 1].what = Torn
      BY <2>2 DEF TornAt
    <3> QED
      BY <3>1, <3>2, ReplayFragment
  <2> QED
    BY <1>1, <2>1, <2>2
<1> HIDE DEF rest, T
<1>9. Whole \o <<>> = Whole /\ <<>> \in Seq(T)
  BY <1>7, ConcatEmptySeq
<1>10. IsPrefix(Whole \o <<>>, Whole \o rest)
  BY <1>7, <1>9, EmptyIsPrefix, PrefixBehind
<1> QED
  BY <1>4, <1>8, <1>9, <1>10

\* What was answered last is replayed when it is in the files and they are not
\* damaged.
LEMMA FilesGiveBack ==
  LogInv /\ OffsetBetweenEntries /\ ~Damaged /\ AckedInFiles
    => Apply(Recovered, acked.what) = Recovered
<1> SUFFICES ASSUME LogInv, OffsetBetweenEntries, ~Damaged, AckedInFiles
             PROVE  Apply(Recovered, acked.what) = Recovered
  OBVIOUS
<1> DEFINE c == Covered
           w == LastWhole
<1>1. ~stale /\ TornAt \subseteq {Len(entries)} /\ Len(entries) \in Nat
  BY EntryType DEF Damaged
<1>2. /\ c \in 0..Len(entries) /\ EndOf(c) = snap.offset
      /\ \A n \in 0..Len(entries) : snap.offset < EndOf(n) <=> c < n
      /\ w \in c..Len(entries) /\ \A i \in (c + 1)..w : entries[i].what # Torn
      /\ w = Len(entries) \/ w + 1 \in TornAt
  BY <1>1, CoveredIs, LastWholeIs
<1>3. Recovered = Applied(snap.map, Appended(c, w))
  BY <1>1, ReplayReads
     DEF ReplayReadsTheRecords, Recovered, RecoveredFrom, Whole, Appended
<1> HIDE DEF c, w
<1>4. PICK n \in 0..Len(entries) :
        /\ \A i \in (n + 1)..Len(entries) : entries[i].what = Torn
        /\ \/ EndOf(n) = snap.offset /\ Apply(snap.map, acked.what) = snap.map
           \/ /\ n > 0 /\ entries[n] = acked /\ acked.what # Torn
              /\ snap.offset < EndOf(n)
  BY DEF AckedInFiles
<1>5. w <= n \/ c = w
  <2> SUFFICES ASSUME n < w, c < w PROVE FALSE
    BY <1>1, <1>2, <1>4
  <2>1. w \in (n + 1)..Len(entries) /\ w \in (c + 1)..w
    BY <1>1, <1>2
  <2> QED
    BY <1>2, <1>4, <2>1
<1>6. CASE EndOf(n) = snap.offset /\ Apply(snap.map, acked.what) = snap.map
  <2>1. ~(c < n)
    <3>1. EndOf(n) \in Nat
      BY EntryType
    <3> QED
      BY <1>2, <1>6, <3>1
  <2>2. c = w
    BY <1>1, <1>2, <1>5, <2>1
  <2>3. Appended(c, w) = <<>>
    BY <1>2, <2>2 DEF Appended
  <2> QED
    BY <1>3, <1>6, <2>3, AppliedNothing
<1>7. CASE n > 0 /\ entries[n] = acked /\ acked.what # Torn /\ snap.offset < EndOf(n)
  <2>1. n \in 1..Len(entries) /\ c < n
    BY <1>1, <1>2, <1>7
  <2>2. w = n
    <3>1. CASE w = Len(entries)
      BY <1>1, <1>2, <1>5, <2>1, <3>1
    <3>2. CASE w + 1 \in TornAt
      <4>1. w + 1 = Len(entries) /\ entries[w + 1].what = Torn
        BY <1>1, <3>2 DEF TornAt
      <4>2. n # w + 1
        BY <1>7, <4>1
      <4> QED
        BY <1>1, <1>2, <1>5, <2>1, <4>1, <4>2
    <3> QED
      BY <1>2, <3>1, <3>2
  <2>3. /\ n - 1 \in c..Len(entries) /\ n \in c..Len(entries) /\ n \in (c + 1)..n
        /\ \A i \in (c + 1)..(n - 1) : i \in (c + 1)..n
    BY <1>1, <1>2, <2>1
  <2>4. \A i \in (c + 1)..n : entries[i].what # Torn
    BY <1>2, <2>2
  <2>5. Appended(c, n) = Appended(c, n - 1) \o <<acked.what>>
    BY <1>2, <1>7, <2>1, <2>3, <2>4, AppendedStep
  <2>6. Appended(c, n - 1) \in Seq(Operation)
    BY <1>2, <2>3, <2>4, AppendedType
  <2>7. acked.what \in Operation
    BY <1>7, <2>1, EntryType
  <2>8. Recovered = Apply(Applied(snap.map, Appended(c, n - 1)), acked.what)
    BY <1>3, <2>2, <2>5, <2>6, <2>7, AppliedStep
  <2> QED
    BY <2>8, ApplyTwice
<1> QED
  BY <1>4, <1>6, <1>7

\* The same of the files that a step leaves behind.
LEMMA FilesGiveBackNext ==
  (LogInv /\ OffsetBetweenEntries /\ ~Damaged /\ AckedInFiles
     => Apply(Recovered, acked.what) = Recovered)'
  BY FilesGiveBack, PTL

\* AckedUnlessDamaged follows.
LEMMA AckedIsReplayed ==
  ASSUME FileInv
  PROVE  AckedUnlessDamaged
  BY FilesGiveBack
     DEF AckedUnlessDamaged, AckedWriteIsReplayed, KeepsAcked, AckedIsKept

\* A step that leaves fragments behind it at most: where the answered operation
\* is, and what startup makes of it.
LEMMA AckedAfterStart ==
  ASSUME FileInv, LogInv', OffsetBetweenEntries', snap' = snap, acked' = acked,
         data' = RecoveredFrom(file)',
         acked # None /\ ~atRisk' => ~atRisk /\ ~Damaged' /\ AckedInFiles'
  PROVE  AckedIsKept'
<1> SUFFICES ASSUME acked # None, ~atRisk'
             PROVE  ~Damaged' /\ Apply(data', acked'.what) = data' /\ AckedInFiles'
  BY Zenon DEF AckedIsKept
<1>1. Apply(Recovered', acked'.what) = Recovered'
  BY FilesGiveBackNext
<1>2. data' = Recovered'
  BY DEF Recovered
<1> QED
  BY <1>1, <1>2

----------------------------------------------------------------------------
\* FileInv is inductive.
LEMMA InitFile == Init => FileInv
<1> SUFFICES ASSUME Init PROVE FileInv
  OBVIOUS
<1>1. Len(entries) = 0 /\ Len(file) = 0 /\ EndOf(0) = 0
  BY DEF Init, EndOf
<1>2. TypeOK
  <2>1. /\ <<>> \in Seq(Byte) /\ <<>> \in Seq([what: Operation \cup {Torn}, end: Nat])
        /\ FALSE \in BOOLEAN /\ 0 \in Nat
    BY EmptySeq, Zenon
  <2>2. snap.offset = 0 /\ file = <<>> /\ entries = <<>> /\ stale = FALSE
    BY DEF Init
  <2> QED
    BY <2>1, <2>2, Zenon DEF TypeOK
<1>3. EntriesFillTheFile
  BY <1>1 DEF EntriesFillTheFile
<1>4. OffsetBetweenEntries
  BY <1>1 DEF Init, OffsetBetweenEntries
<1>5. AckedIsKept
  BY DEF Init, AckedIsKept
<1> QED
  BY <1>2, <1>3, <1>4, <1>5 DEF FileInv, LogInv

EntrySet == [what: Operation \cup {Torn}, end: Nat]

\* A frame or a fragment at the end of the log.
LEMMA EntryAppended ==
  ASSUME LogInv, NEW operation \in Operation, WithinLimit(Payload(operation)),
         NEW m \in 1..Len(Frame(Payload(operation))), NEW what,
         file' \in Seq(Byte), Len(file') = Len(file) + m,
         \A i \in 1..Len(file) : file'[i] = file[i],
         \A i \in 1..m : file'[Len(file) + i] = Frame(Payload(operation))[i],
         entries' \in Seq(EntrySet), Len(entries') = Len(entries) + 1,
         \A n \in 1..Len(entries) : entries'[n] = entries[n],
         entries'[Len(entries) + 1] = [what |-> what, end |-> Len(file')],
         IF what = Torn THEN m < Len(Frame(Payload(operation)))
         ELSE what = operation /\ m = Len(Frame(Payload(operation)))
  PROVE  /\ \A n \in 0..Len(entries) : EndOf(n)' = EndOf(n)
         /\ entries'[Len(entries')].what = what
         /\ EntriesFillTheFile'
<1> DEFINE frame == Frame(Payload(operation))
<1>1. PICK last \in Nat : last = Len(entries) + 1 /\ Len(entries) \in Nat
  BY EntryType
<1>2. frame \in Seq(Byte) /\ Len(frame) \in Nat
  BY OperationFrame
<1>5. IF what = Torn THEN m < Len(frame) ELSE what = operation /\ m = Len(frame)
  OBVIOUS
<1>6. m \in Nat /\ m > 0
  OBVIOUS
<1>7. /\ file \in Seq(Byte) /\ Len(file) \in Nat
      /\ \A n \in 0..Len(entries) : EndOf(n) \in Nat /\ EndOf(n) <= Len(file)
      /\ EndOf(Len(entries)) = Len(file)
  BY EntryType, EndsInFile DEF LogInv, EntriesFillTheFile
<1>8. /\ Len(file') = Len(file) + m
      /\ \A i \in 1..Len(file) : file'[i] = file[i]
      /\ \A i \in 1..m : file'[Len(file) + i] = frame[i]
  OBVIOUS
<1> HIDE DEF frame
<1>13. /\ Len(entries') = last
       /\ entries'[last].what = what /\ entries'[last].end = Len(file')
       /\ \A n \in 1..Len(entries) : entries'[n] = entries[n]
  BY <1>1
<1>14. \A n \in 0..Len(entries) : EndOf(n)' = EndOf(n)
  BY <1>13 DEF EndOf
<1>15. EndOf(last)' = Len(file')
  BY <1>1, <1>13 DEF EndOf
<1>16. ASSUME NEW n \in 1..Len(entries)
       PROVE  EntryInFile(n)'
  <2>1. PICK other \in Operation :
               /\ WithinLimit(Payload(other)) /\ LiesAt(n, Frame(Payload(other)))
               /\ IF entries[n].what = Torn
                  THEN EndOf(n) < EndOf(n - 1) + Len(Frame(Payload(other)))
                  ELSE /\ entries[n].what = other
                       /\ EndOf(n) = EndOf(n - 1) + Len(Frame(Payload(other)))
    BY DEF LogInv, EntriesFillTheFile, EntryInFile
  <2>2. n - 1 \in 0..Len(entries) /\ n \in 0..Len(entries) /\ EndOf(n - 1) < EndOf(n)
    BY <1>1 DEF LogInv, EntriesFillTheFile, EntryInFile
  <2>3. EndOf(n)' = EndOf(n) /\ EndOf(n - 1)' = EndOf(n - 1)
        /\ entries'[n].what = entries[n].what
    BY <1>13, <1>14, <2>2
  <2>4. LiesAt(n, Frame(Payload(other)))'
    <3> SUFFICES ASSUME NEW i \in 1..(EndOf(n) - EndOf(n - 1))
                 PROVE  file'[EndOf(n - 1) + i] = Frame(Payload(other))[i]
      BY <2>3 DEF LiesAt
    <3>1. /\ EndOf(n - 1) \in Nat /\ EndOf(n) \in Nat /\ EndOf(n) <= Len(file)
          /\ EndOf(n - 1) < EndOf(n)
      BY <1>7, <2>2
    <3>2. EndOf(n - 1) + i \in 1..Len(file)
      BY <1>7, <3>1
    <3> QED
      BY <1>8, <2>1, <3>2 DEF LiesAt
  <2> QED
    BY <2>1, <2>2, <2>3, <2>4 DEF EntryInFile
<1>17. EntryInFile(last)'
  <2>1. last - 1 \in 0..Len(entries) /\ last - 1 = Len(entries)
    BY <1>1
  <2>2. EndOf(last - 1)' = Len(file)
    <3>1. EndOf(last - 1)' = EndOf(last - 1)
      BY <1>14, <2>1
    <3> QED
      BY <1>7, <2>1, <3>1
  <2>3. EndOf(last)' = Len(file) + m
    BY <1>8, <1>15
  <2>4. LiesAt(last, frame)'
    <3>1. (Len(file) + m) - Len(file) = m
      BY <1>6, <1>7
    <3>2. \A i \in 1..m : file'[Len(file) + i] = frame[i]
      BY <1>8
    <3> QED
      BY <2>2, <2>3, <3>1, <3>2 DEF LiesAt, frame
  <2>5. entries'[last].what = what
    BY <1>13
  <2>6. EndOf(last - 1)' < EndOf(last)'
    BY <1>6, <1>7, <2>2, <2>3
  <2>7. IF what = Torn THEN Len(file) + m < Len(file) + Len(frame)
        ELSE what = operation /\ Len(file) + m = Len(file) + Len(frame)
    <3>1. m < Len(frame) => Len(file) + m < Len(file) + Len(frame)
      BY <1>2, <1>6, <1>7
    <3> QED
      BY <1>5, <3>1, Zenon
  <2>8. IF entries'[last].what = Torn
        THEN EndOf(last)' < EndOf(last - 1)' + Len(frame)
        ELSE /\ entries'[last].what = operation
             /\ EndOf(last)' = EndOf(last - 1)' + Len(frame)
    BY <2>2, <2>3, <2>5, <2>7
  <2> QED
    BY <2>4, <2>6, <2>8 DEF EntryInFile, frame
<1>18. EntriesFillTheFile'
  <2>1. \A n \in 1..last : n \in 1..Len(entries) \/ n = last
    BY <1>1
  <2>2. \A n \in 1..last : EntryInFile(n)'
    BY <1>16, <1>17, <2>1
  <2> QED
    BY <1>13, <1>15, <2>2 DEF EntriesFillTheFile
<1>19. entries'[Len(entries')].what = what
  BY <1>13
<1> QED
  BY <1>14, <1>18, <1>19

\* An entry's place does not change when the file changes elsewhere.
LEMMA EntryKept ==
  ASSUME LogInv, NEW n \in 1..Len(entries), NEW kept \in Nat, n <= kept,
         \A i \in 1..Len(file) : i <= EndOf(n) => file'[i] = file[i],
         \A k \in 1..Len(entries) : k <= kept => entries'[k] = entries[k]
  PROVE  EntryInFile(n)'
<1>1. Len(entries) \in Nat /\ Len(file) \in Nat
  BY EntryType
<1>2. PICK operation \in Operation :
             /\ WithinLimit(Payload(operation)) /\ LiesAt(n, Frame(Payload(operation)))
             /\ IF entries[n].what = Torn
                THEN EndOf(n) < EndOf(n - 1) + Len(Frame(Payload(operation)))
                ELSE /\ entries[n].what = operation
                     /\ EndOf(n) = EndOf(n - 1) + Len(Frame(Payload(operation)))
  BY DEF LogInv, EntriesFillTheFile, EntryInFile
<1>3. n - 1 \in 0..Len(entries) /\ n \in 0..Len(entries) /\ EndOf(n - 1) < EndOf(n)
  BY <1>1 DEF LogInv, EntriesFillTheFile, EntryInFile
<1>4. /\ EndOf(n - 1) \in Nat /\ EndOf(n) \in Nat /\ EndOf(n) <= Len(file)
  BY <1>3, EntryType, EndsInFile
<1>5. EndOf(n)' = EndOf(n) /\ entries'[n].what = entries[n].what
  BY <1>1 DEF EndOf
<1>6. EndOf(n - 1)' = EndOf(n - 1)
  <2>1. n - 1 = 0 \/ (n - 1 \in 1..Len(entries) /\ n - 1 <= kept)
    BY <1>1
  <2> QED
    BY <2>1 DEF EndOf
<1>7. LiesAt(n, Frame(Payload(operation)))'
  <2> SUFFICES ASSUME NEW i \in 1..(EndOf(n) - EndOf(n - 1))
               PROVE  file'[EndOf(n - 1) + i] = Frame(Payload(operation))[i]
    BY <1>5, <1>6 DEF LiesAt
  <2>1. EndOf(n - 1) + i \in 1..Len(file) /\ EndOf(n - 1) + i <= EndOf(n)
    BY <1>1, <1>3, <1>4
  <2> QED
    BY <1>2, <2>1 DEF LiesAt
<1> QED
  BY <1>2, <1>3, <1>5, <1>6, <1>7 DEF EntryInFile

\* The file loses an end, and with it some entries and a part of one.
LEMMA EntriesCut ==
  ASSUME LogInv, NEW n \in 0..(Len(file) - 1), NEW kept \in 0..(Len(entries) - 1),
         EndOf(kept) <= n, n < EndOf(kept + 1),
         Len(file') = n, \A i \in 1..n : file'[i] = file[i],
         \A k \in 1..kept : entries'[k] = entries[k],
         IF EndOf(kept) = n THEN Len(entries') = kept
         ELSE /\ Len(entries') = kept + 1
              /\ entries'[kept + 1] = [what |-> Torn, end |-> n]
  PROVE  /\ \A k \in 0..kept : EndOf(k)' = EndOf(k)
         /\ kept <= Len(entries')
         /\ EntriesFillTheFile'
<1>1. /\ Len(entries) \in Nat /\ Len(file) \in Nat /\ n \in Nat /\ kept \in Nat
      /\ kept + 1 \in 1..Len(entries) /\ kept \in 0..Len(entries)
      /\ (kept + 1) - 1 = kept /\ kept + 1 \in 0..Len(entries)
  BY EntryType
<1>2. EndOf(kept) \in Nat /\ EndOf(kept + 1) \in Nat
  BY <1>1, EntryType
<1>3. \A k \in 0..kept : EndOf(k)' = EndOf(k)
  BY <1>1 DEF EndOf
<1>4. ASSUME NEW k \in 1..kept
      PROVE  EntryInFile(k)'
  <2>1. k \in 1..Len(entries) /\ k <= kept /\ k \in 0..Len(entries)
    BY <1>1
  <2>2. k = kept \/ EndOf(k) < EndOf(kept)
    BY <1>1, <2>1, EndsIncrease
  <2>3. EndOf(k) \in Nat /\ EndOf(k) <= n
    BY <1>1, <1>2, <2>1, <2>2, EntryType
  <2>4. \A i \in 1..Len(file) : i <= EndOf(k) => file'[i] = file[i]
    BY <1>1, <2>3
  <2>5. \A j \in 1..Len(entries) : j <= kept => entries'[j] = entries[j]
    BY <1>1
  <2> QED
    BY <1>1, <2>1, <2>4, <2>5, EntryKept
<1>5. CASE EndOf(kept) = n
  <2>1. Len(entries') = kept /\ EndOf(kept)' = n
    BY <1>1, <1>3, <1>5
  <2> QED
    BY <1>1, <1>3, <1>4, <2>1 DEF EntriesFillTheFile
<1>6. CASE EndOf(kept) # n
  <2>1. /\ Len(entries') = kept + 1
        /\ entries'[kept + 1].what = Torn /\ entries'[kept + 1].end = n
    BY <1>6
  <2>2. EndOf(kept + 1)' = n /\ EndOf((kept + 1) - 1)' = EndOf(kept)
    BY <1>1, <1>3, <2>1 DEF EndOf
  <2>3. PICK operation \in Operation :
               /\ WithinLimit(Payload(operation))
               /\ LiesAt(kept + 1, Frame(Payload(operation)))
               /\ \/ EndOf(kept + 1) < EndOf(kept) + Len(Frame(Payload(operation)))
                  \/ EndOf(kept + 1) = EndOf(kept) + Len(Frame(Payload(operation)))
    BY <1>1 DEF LogInv, EntriesFillTheFile, EntryInFile
  <2>4. LiesAt(kept + 1, Frame(Payload(operation)))'
    <3> SUFFICES ASSUME NEW i \in 1..(n - EndOf(kept))
                 PROVE  file'[EndOf(kept) + i] = Frame(Payload(operation))[i]
      BY <2>2 DEF LiesAt
    <3>1. EndOf(kept) + i \in 1..n /\ i \in 1..(EndOf(kept + 1) - EndOf(kept))
      BY <1>1, <1>2
    <3>2. file[EndOf(kept) + i] = Frame(Payload(operation))[i]
      BY <1>1, <2>3, <3>1 DEF LiesAt
    <3> QED
      BY <3>1, <3>2
  <2>5. EndOf(kept) < n
    BY <1>1, <1>2, <1>6
  <2>6. n < EndOf(kept) + Len(Frame(Payload(operation)))
    BY <1>1, <1>2, <2>3, OperationFrame
  <2>7. EntryInFile(kept + 1)'
    BY <2>1, <2>2, <2>3, <2>4, <2>5, <2>6 DEF EntryInFile
  <2>8. \A k \in 1..(kept + 1) : k \in 1..kept \/ k = kept + 1
    BY <1>1
  <2>9. \A k \in 1..(kept + 1) : EntryInFile(k)'
    BY <1>4, <2>7, <2>8
  <2> QED
    BY <1>1, <1>3, <2>1, <2>2, <2>9 DEF EntriesFillTheFile
<1> QED
  BY <1>5, <1>6

\* The log gets a frame or a fragment of one, and nothing happens to the snapshot.
LogGets(part, what) ==
  /\ file' = file \o part
  /\ entries' = Append(entries, Entry(what, file'))
  /\ UNCHANGED <<snap, stale>>

LEMMA PartBehind ==
  ASSUME NEW before \in Seq(Byte), NEW part \in Seq(Byte)
  PROVE  /\ before \o part \in Seq(Byte) /\ Len(before \o part) = Len(before) + Len(part)
         /\ \A i \in 1..Len(before) : (before \o part)[i] = before[i]
         /\ Holds(before \o part, Len(before), part)
  BY DEF Holds

LEMMA EntryAdded ==
  ASSUME NEW log \in Seq(EntrySet), NEW entry \in EntrySet
  PROVE  /\ Append(log, entry) \in Seq(EntrySet) /\ Len(Append(log, entry)) = Len(log) + 1
         /\ Append(log, entry)[Len(log) + 1] = entry
         /\ \A n \in 1..Len(log) : Append(log, entry)[n] = log[n]
  OBVIOUS

LEMMA LogLonger ==
  ASSUME LogInv, OffsetBetweenEntries, NEW operation \in Operation, WithinLimit(Payload(operation)),
         NEW m \in 1..Len(Frame(Payload(operation))),
         NEW part \in Seq(Byte), Len(part) = m,
         \A i \in 1..m : part[i] = Frame(Payload(operation))[i],
         NEW what,
         IF what = Torn THEN m < Len(Frame(Payload(operation)))
         ELSE what = operation /\ m = Len(Frame(Payload(operation))),
         LogGets(part, what)
  PROVE  /\ TypeOK' /\ EntriesFillTheFile' /\ OffsetBetweenEntries'
         /\ Len(file') = Len(file) + m
         /\ Len(entries') = Len(entries) + 1
         /\ entries'[Len(entries')] = Entry(what, file')
         /\ \A n \in 1..Len(entries) : entries'[n] = entries[n]
         /\ \A n \in 0..Len(entries) : EndOf(n)' = EndOf(n)
<1> DEFINE longer == file \o part
           entry == [what |-> what, end |-> Len(longer)]
           more == Append(entries, entry)
<1>1. file \in Seq(Byte) /\ Len(file) \in Nat /\ entries \in Seq(EntrySet)
      /\ snap.offset \in Nat /\ stale \in BOOLEAN /\ Len(entries) \in Nat
  BY EntryType DEF FileInv, LogInv, TypeOK, EntrySet
<1>2. /\ file' = longer /\ entries' = more /\ snap' = snap /\ stale' = stale
  BY Zenon DEF LogGets, Entry
<1>3. /\ longer \in Seq(Byte) /\ Len(longer) = Len(file) + m
      /\ \A i \in 1..Len(file) : longer[i] = file[i]
      /\ \A i \in 1..m : longer[Len(file) + i] = Frame(Payload(operation))[i]
  <2>1. /\ longer \in Seq(Byte) /\ Len(longer) = Len(file) + Len(part)
        /\ \A i \in 1..Len(file) : longer[i] = file[i]
        /\ Holds(longer, Len(file), part)
    BY <1>1, PartBehind, Zenon
  <2> HIDE DEF longer
  <2> QED
    BY <2>1 DEF Holds
<1> HIDE DEF longer
<1>4. Len(longer) \in Nat
  BY <1>1, <1>3
<1>5. entry \in EntrySet
  <2>1. what \in Operation \cup {Torn}
    BY Zenon
  <2> QED
    BY <1>4, <2>1, Zenon DEF EntrySet
<1> HIDE DEF entry
<1>6. /\ more \in Seq(EntrySet) /\ Len(more) = Len(entries) + 1
      /\ more[Len(entries) + 1] = entry
      /\ \A n \in 1..Len(entries) : more[n] = entries[n]
  <2>1. entries \in Seq(EntrySet)
    BY <1>1
  <2> QED
    BY <1>5, <2>1
<1> HIDE DEF more
<1>7. /\ \A n \in 0..Len(entries) : EndOf(n)' = EndOf(n)
      /\ entries'[Len(entries')].what = what
      /\ EntriesFillTheFile'
  <2>1. /\ file' \in Seq(Byte) /\ Len(file') = Len(file) + m
        /\ \A i \in 1..Len(file) : file'[i] = file[i]
        /\ \A i \in 1..m : file'[Len(file) + i] = Frame(Payload(operation))[i]
    BY <1>2, <1>3
  <2>2. /\ entries' \in Seq(EntrySet) /\ Len(entries') = Len(entries) + 1
        /\ \A n \in 1..Len(entries) : entries'[n] = entries[n]
        /\ entries'[Len(entries) + 1] = [what |-> what, end |-> Len(file')]
    BY <1>2, <1>6 DEF entry
  <2> QED
    BY <2>1, <2>2, EntryAppended
<1>8. TypeOK'
  BY <1>1, <1>2, <1>3, <1>6 DEF TypeOK, EntrySet
<1>9. OffsetBetweenEntries'
  <2> SUFFICES ASSUME ~stale PROVE \E n \in 0..Len(entries') : EndOf(n)' = snap.offset
    BY <1>2 DEF OffsetBetweenEntries
  <2>1. PICK n \in 0..Len(entries) : EndOf(n) = snap.offset
    BY DEF FileInv, LogInv, OffsetBetweenEntries
  <2>2. n \in 0..Len(entries')
    BY <1>1, <1>2, <1>6
  <2> QED
    BY <1>7, <2>1, <2>2
<1>10. entries'[Len(entries')] = Entry(what, file')
  BY <1>2, <1>6 DEF Entry, entry
<1> QED
  BY <1>2, <1>3, <1>6, <1>7, <1>8, <1>9, <1>10

LEMMA StepWrite ==
  ASSUME FileInv, NEW operation \in Operation, Write(operation)
  PROVE  FileInv'
<1> DEFINE frame == Frame(Payload(operation))
<1>1. /\ WithinLimit(Payload(operation)) /\ LogGets(frame, operation)
      /\ data' = Apply(data, operation) /\ acked' = Entry(operation, file')
      /\ snap' = snap /\ stale' = stale /\ atRisk' = Damaged'
  BY Zenon DEF Write, LogGets
<1>2. /\ frame \in Seq(Byte) /\ Len(frame) \in 1..Len(frame) /\ Len(frame) > 0
      /\ Len(frame) \in Nat
  BY OperationFrame
<1>3. IF operation = Torn THEN Len(frame) < Len(frame)
      ELSE operation = operation /\ Len(frame) = Len(frame)
  BY OperationType, Zenon
<1>4. /\ TypeOK' /\ EntriesFillTheFile' /\ OffsetBetweenEntries'
      /\ Len(file') = Len(file) + Len(frame)
      /\ Len(entries') = Len(entries) + 1
      /\ entries'[Len(entries')] = Entry(operation, file')
  BY <1>1, <1>2, <1>3, LogLonger, Zenon
<1> HIDE DEF frame
<1>5. ASSUME ~atRisk'
      PROVE  AckedInFiles'
  <2>1. ~stale
    BY <1>1, <1>5 DEF Damaged
  <2>2. snap.offset <= Len(file)
    <3>1. PICK n \in 0..Len(entries) : EndOf(n) = snap.offset
      BY <2>1 DEF FileInv, LogInv, OffsetBetweenEntries
    <3> QED
      BY <3>1, EndsInFile
  <2>3. snap.offset < Len(file')
    BY <1>2, <1>4, <2>2, EntryType
  <2>0. PICK last \in Nat : last = Len(entries')
    BY <1>4, EntryType
  <2>4. last \in 0..last /\ last > 0 /\ \A i \in (last + 1)..last : FALSE
    BY <1>4, <2>0, EntryType
  <2>5. entries'[last] = acked' /\ acked'.what = operation
    BY <1>1, <1>4, <2>0 DEF Entry
  <2>6. EndOf(last)' = Len(file')
    BY <1>4, <2>0 DEF EntriesFillTheFile
  <2>7. acked'.what # Torn /\ snap'.offset < EndOf(last)'
    BY <1>1, <2>3, <2>5, <2>6, OperationType
  <2> QED
    BY <2>0, <2>4, <2>5, <2>7 DEF AckedInFiles
<1>6. AckedIsKept'
  <2>1. Apply(data', acked'.what) = data'
    <3>1. acked'.what = operation
      BY <1>1 DEF Entry
    <3> QED
      BY <1>1, <3>1, ApplyTwice
  <2> QED
    BY <1>1, <1>5, <2>1 DEF AckedIsKept
<1> QED
  BY <1>4, <1>6 DEF FileInv, LogInv

LEMMA StepTornWrite ==
  ASSUME FileInv, NEW operation \in Operation, TornWrite(operation)
  PROVE  FileInv'
<1> DEFINE frame == Frame(Payload(operation))
<1>1. PICK n \in 1..(Len(frame) - 1) : file' = file \o SubSeq(frame, 1, n)
  BY Zenon DEF TornWrite
<1> DEFINE part == SubSeq(frame, 1, n)
<1>2. /\ WithinLimit(Payload(operation)) /\ LogGets(part, Torn) /\ acked' = acked
      /\ snap' = snap /\ atRisk' = (atRisk \/ Damaged') /\ data' = RecoveredFrom(file')
  BY <1>1, Zenon DEF TornWrite, LogGets
<1>3. /\ frame \in Seq(Byte) /\ Len(frame) \in Nat /\ n \in 0..Len(frame)
      /\ n \in 1..Len(frame) /\ n < Len(frame)
  BY OperationFrame
<1>4. part \in Seq(Byte) /\ Len(part) = n /\ \A i \in 1..n : part[i] = frame[i]
  BY <1>3, CutElements, Zenon
<1> HIDE DEF part
<1>5. /\ TypeOK' /\ EntriesFillTheFile' /\ OffsetBetweenEntries'
      /\ Len(entries') = Len(entries) + 1
      /\ entries'[Len(entries')] = Entry(Torn, file')
      /\ \A k \in 1..Len(entries) : entries'[k] = entries[k]
      /\ \A k \in 0..Len(entries) : EndOf(k)' = EndOf(k)
  BY <1>2, <1>3, <1>4, LogLonger, Zenon
<1>6. ASSUME AckedInFiles
      PROVE  AckedInFiles'
  <2>1. PICK k \in 0..Len(entries) :
          /\ \A i \in (k + 1)..Len(entries) : entries[i].what = Torn
          /\ \/ EndOf(k) = snap.offset /\ Apply(snap.map, acked.what) = snap.map
             \/ /\ k > 0 /\ entries[k] = acked /\ acked.what # Torn
                /\ snap.offset < EndOf(k)
    BY <1>6 DEF AckedInFiles
  <2>2. Len(entries) \in Nat /\ k \in 0..Len(entries')
    BY <1>5, EntryType
  <2>3. ASSUME NEW i \in (k + 1)..Len(entries')
        PROVE  entries'[i].what = Torn
    <3>1. i \in (k + 1)..Len(entries) \/ i = Len(entries')
      BY <1>5, <2>2
    <3>2. i \in (k + 1)..Len(entries) => i \in 1..Len(entries)
      BY <2>2
    <3> QED
      BY <1>5, <2>1, <3>1, <3>2 DEF Entry
  <2>4. EndOf(k)' = EndOf(k) /\ (k > 0 => entries'[k] = entries[k])
    BY <1>5, <2>2
  <2> QED
    BY <1>2, <2>1, <2>2, <2>3, <2>4 DEF AckedInFiles
<1>7. AckedIsKept'
  <2>1. data' = RecoveredFrom(file)'
    BY <1>2 DEF RecoveredFrom
  <2>2. acked # None /\ ~atRisk' => ~atRisk /\ ~Damaged' /\ AckedInFiles'
    BY <1>2, <1>6 DEF AckedIsKept
  <2> QED
    BY <1>2, <1>5, <2>1, <2>2, AckedAfterStart DEF LogInv
<1> QED
  BY <1>5, <1>7 DEF FileInv, LogInv

\* Nothing happens to the log and to the snapshot.
LEMMA FilesKept ==
  ASSUME LogInv, file' = file, entries' = entries
  PROVE  /\ \A n \in 0..Len(entries) : EndOf(n)' = EndOf(n)
         /\ EntriesFillTheFile'
  BY DEF LogInv, EntriesFillTheFile, EntryInFile, LiesAt, EndOf

LEMMA StepRestart ==
  ASSUME FileInv, Restart
  PROVE  FileInv'
<1>1. UNCHANGED <<file, entries, snap, stale, acked, atRisk>> /\ data' = Recovered
  BY DEF Restart
<1>2. TypeOK' /\ EntriesFillTheFile' /\ \A n \in 0..Len(entries) : EndOf(n)' = EndOf(n)
  BY <1>1, FilesKept DEF FileInv, LogInv, TypeOK
<1>3. OffsetBetweenEntries'
  BY <1>1, FilesKept DEF FileInv, LogInv, OffsetBetweenEntries
<1>4. Damaged' = Damaged /\ AckedInFiles' = AckedInFiles
  <2>1. TornAt' = TornAt
    BY <1>1 DEF TornAt, EndOf
  <2> QED
    BY <1>1, <2>1 DEF Damaged, AckedInFiles, EndOf
<1>5. AckedIsKept'
  <2>1. data' = RecoveredFrom(file)'
    BY <1>1 DEF RecoveredFrom, Recovered
  <2>2. acked # None /\ ~atRisk' => ~atRisk /\ ~Damaged' /\ AckedInFiles'
    BY <1>1, <1>4 DEF AckedIsKept
  <2> QED
    BY <1>1, <1>2, <1>3, <2>1, <2>2, AckedAfterStart DEF LogInv
<1> QED
  BY <1>2, <1>3, <1>5 DEF FileInv, LogInv

LEMMA StepSaveSnapshot ==
  ASSUME FileInv, SaveSnapshot
  PROVE  FileInv'
<1>1. /\ UNCHANGED <<file, entries, data, acked>> /\ stale' = FALSE
      /\ snap'.offset = Len(file) /\ snap'.map = data
      /\ atRisk' = (atRisk /\ ~KeepsAcked(data))
  BY DEF SaveSnapshot
<1>2. Len(file) \in Nat /\ Len(entries) \in 0..Len(entries)
  BY EntryType
<1>3. TypeOK' /\ EntriesFillTheFile'
  BY <1>1, <1>2, FilesKept DEF FileInv, LogInv, TypeOK
<1>4. OffsetBetweenEntries'
  <2>1. EndOf(Len(entries))' = Len(file)
    BY <1>1, <1>2, FilesKept DEF FileInv, LogInv, EntriesFillTheFile
  <2> QED
    BY <1>1, <1>2, <2>1 DEF OffsetBetweenEntries
<1>5. EndOf(Len(entries))' = Len(file)
  BY <1>1, <1>2, FilesKept DEF FileInv, LogInv, EntriesFillTheFile
<1>6. ~Damaged'
  <2>1. ASSUME NEW n \in TornAt' PROVE FALSE
    <3>1. n \in 1..Len(entries) /\ n \in 0..Len(entries) /\ Len(file) < EndOf(n)'
      BY <1>1, <1>2, <2>1 DEF TornAt
    <3>2. EndOf(n)' = EndOf(n) /\ EndOf(n) <= Len(file) /\ EndOf(n) \in Nat
      BY <1>1, <3>1, EndsInFile, EntryType DEF EndOf
    <3> QED
      BY <1>2, <3>1, <3>2
  <2> QED
    BY <1>1, <2>1 DEF Damaged
<1>7. AckedIsKept'
  <2> SUFFICES ASSUME acked # None, ~atRisk'
               PROVE  Apply(data, acked.what) = data /\ AckedInFiles'
    BY <1>1, <1>6, Zenon DEF AckedIsKept
  <2>1. Apply(data, acked.what) = data
    BY <1>1 DEF KeepsAcked, AckedIsKept
  <2>2. \A i \in (Len(entries) + 1)..Len(entries) : FALSE
    BY <1>2
  <2> QED
    BY <1>1, <1>2, <1>5, <2>1, <2>2 DEF AckedInFiles
<1> QED
  BY <1>3, <1>4, <1>7 DEF FileInv, LogInv

\* The log is truncated: no entry is left.
LEMMA LogEmptied ==
  ASSUME file' = <<>>, entries' = <<>>
  PROVE  /\ EntriesFillTheFile' /\ 0 \in 0..Len(entries') /\ EndOf(0)' = 0
         /\ file' \in Seq(Byte)
         /\ entries' \in Seq([what: Operation \cup {Torn}, end: Nat])
<1>1. Len(entries') = 0 /\ Len(file') = 0 /\ EndOf(0)' = 0
  BY DEF EndOf
<1>2. file' \in Seq(Byte) /\ entries' \in Seq([what: Operation \cup {Torn}, end: Nat])
  BY EmptySeq, Zenon
<1> QED
  BY <1>1, <1>2 DEF EntriesFillTheFile

LEMMA StepClearPersistence ==
  ASSUME FileInv, ClearPersistence
  PROVE  FileInv'
<1>1. /\ file' = <<>> /\ entries' = <<>> /\ stale' = FALSE /\ acked' = None
      /\ snap'.offset = 0
  BY DEF ClearPersistence, ForgetAcked
<1>2. TypeOK' /\ EntriesFillTheFile' /\ OffsetBetweenEntries'
  <2>1. stale' \in BOOLEAN
    BY <1>1, FALSE \in BOOLEAN, Zenon
  <2>2. /\ EntriesFillTheFile' /\ 0 \in 0..Len(entries') /\ EndOf(0)' = snap'.offset
        /\ file' \in Seq(Byte) /\ entries' \in Seq([what: Operation \cup {Torn}, end: Nat])
    BY <1>1, LogEmptied
  <2>3. snap'.offset \in Nat
    BY <1>1
  <2> QED
    BY <2>1, <2>2, <2>3, Zenon DEF TypeOK, OffsetBetweenEntries
<1>3. AckedIsKept'
  BY <1>1 DEF AckedIsKept
<1> QED
  BY <1>2, <1>3 DEF FileInv, LogInv

LEMMA StepClearCutShort ==
  ASSUME FileInv, ClearCutShort
  PROVE  FileInv'
<1>1. /\ file' = <<>> /\ entries' = <<>> /\ acked' = None
      /\ snap' = snap /\ stale' = (snap.offset > 0)
  BY DEF ClearCutShort, ForgetAcked
<1>2. stale' \in BOOLEAN /\ (~stale' => snap'.offset = 0) /\ snap'.offset \in Nat
  <2>1. snap'.offset = snap.offset /\ snap.offset \in Nat
    BY <1>1, EntryType
  <2>2. snap.offset > 0 \/ snap.offset = 0
    BY <2>1
  <2>3. (snap.offset > 0) \in BOOLEAN
    OBVIOUS
  <2> QED
    BY <1>1, <2>1, <2>2, <2>3, Zenon
<1>3. TypeOK' /\ EntriesFillTheFile' /\ OffsetBetweenEntries'
  <2>1. /\ EntriesFillTheFile' /\ 0 \in 0..Len(entries') /\ EndOf(0)' = 0
        /\ file' \in Seq(Byte) /\ entries' \in Seq([what: Operation \cup {Torn}, end: Nat])
    BY <1>1, LogEmptied
  <2> QED
    BY <1>2, <2>1, Zenon DEF TypeOK, OffsetBetweenEntries
<1>4. AckedIsKept'
  BY <1>1 DEF AckedIsKept
<1> QED
  BY <1>3, <1>4 DEF FileInv, LogInv

LEMMA StepPowerLoss ==
  ASSUME FileInv, PowerLoss
  PROVE  FileInv'
<1>1. PICK n \in 0..(Len(file) - 1), kept \in 0..(Len(entries) - 1) :
        /\ EndOf(kept) <= n /\ n < EndOf(kept + 1)
        /\ file' = SubSeq(file, 1, n)
        /\ entries' = IF EndOf(kept) = n THEN SubSeq(entries, 1, kept)
                      ELSE Append(SubSeq(entries, 1, kept), Entry(Torn, file'))
  BY Zenon DEF PowerLoss
<1>2. /\ stale' = (stale \/ snap.offset > Len(file')) /\ acked' = acked /\ snap' = snap
      /\ data' = RecoveredFrom(file') /\ atRisk' = (atRisk \/ Damaged' \/ AckedCutOff')
  BY DEF PowerLoss
<1>3. /\ file \in Seq(Byte) /\ Len(file) \in Nat /\ entries \in Seq(EntrySet)
      /\ Len(entries) \in Nat /\ snap.offset \in Nat /\ stale \in BOOLEAN
      /\ n \in 0..Len(file) /\ kept \in 0..Len(entries) /\ n \in Nat /\ kept \in Nat
      /\ kept + 1 \in 0..Len(entries)
  BY EntryType DEF FileInv, LogInv, TypeOK, EntrySet
<1>4. /\ file' \in Seq(Byte) /\ Len(file') = n /\ \A i \in 1..n : file'[i] = file[i]
  BY <1>1, <1>3, CutElements, Zenon
<1> DEFINE cut == SubSeq(entries, 1, kept)
           torn == [what |-> Torn, end |-> n]
           more == Append(cut, torn)
<1>5. cut \in Seq(EntrySet) /\ Len(cut) = kept /\ \A k \in 1..kept : cut[k] = entries[k]
  BY <1>3, CutElements, Zenon
<1>6. entries' = IF EndOf(kept) = n THEN cut ELSE more
  BY <1>1, <1>4, Zenon DEF Entry
<1> HIDE DEF cut
<1>7. torn \in EntrySet
  <2>1. Torn \in Operation \cup {Torn}
    OBVIOUS
  <2> QED
    BY <1>3, <2>1, Zenon DEF EntrySet
<1> HIDE DEF torn
<1>8. /\ more \in Seq(EntrySet) /\ Len(more) = Len(cut) + 1 /\ more[Len(cut) + 1] = torn
      /\ \A k \in 1..Len(cut) : more[k] = cut[k]
  BY <1>5, <1>7
<1> HIDE DEF more
<1>9. /\ entries' \in Seq(EntrySet)
      /\ \A k \in 1..kept : entries'[k] = entries[k]
      /\ IF EndOf(kept) = n THEN Len(entries') = kept
         ELSE Len(entries') = kept + 1 /\ entries'[kept + 1] = [what |-> Torn, end |-> n]
  BY <1>3, <1>5, <1>6, <1>8 DEF torn
<1>10. /\ \A k \in 0..kept : EndOf(k)' = EndOf(k)
       /\ kept <= Len(entries')
       /\ EntriesFillTheFile'
  BY <1>1, <1>4, <1>9, EntriesCut, Zenon
<1>11. stale' \in BOOLEAN /\ snap'.offset \in Nat
  BY <1>2, <1>3
<1>12. TypeOK'
  BY <1>4, <1>9, <1>11, Zenon DEF TypeOK, EntrySet
<1>13. OffsetBetweenEntries'
  <2> SUFFICES ASSUME ~stale'
               PROVE  \E k \in 0..Len(entries') : EndOf(k)' = snap'.offset
    BY DEF OffsetBetweenEntries
  <2>1. ~stale /\ snap.offset <= n /\ snap'.offset = snap.offset
    <3>1. ~stale /\ ~(snap.offset > n) /\ snap' = snap
      BY <1>2, <1>4
    <3> QED
      BY <1>3, <3>1
  <2>2. PICK k \in 0..Len(entries) : EndOf(k) = snap.offset
    BY <2>1 DEF FileInv, LogInv, OffsetBetweenEntries
  <2>3. k <= kept
    <3>1. k = kept + 1 \/ kept + 1 < k => EndOf(kept + 1) <= EndOf(k)
      <4>1. EndOf(k) \in Nat /\ EndOf(kept + 1) \in Nat
        BY <1>3, EntryType
      <4> QED
        BY <1>3, <4>1, EndsIncrease
    <3>2. n < EndOf(kept + 1) /\ EndOf(kept + 1) \in Nat /\ EndOf(k) <= n
      BY <1>1, <1>3, <2>1, <2>2, EntryType
    <3> QED
      BY <1>3, <2>1, <2>2, <3>1, <3>2
  <2>4. k \in 0..kept
    BY <1>3, <2>3
  <2>5. Len(entries') \in Nat
    BY <1>3, <1>9
  <2>6. k \in 0..Len(entries')
    BY <1>3, <1>10, <2>4, <2>5
  <2>7. EndOf(k)' = snap'.offset
    BY <1>10, <2>1, <2>2, <2>4
  <2> QED
    BY <2>6, <2>7
<1>14. ASSUME acked # None, ~atRisk', AckedInFiles
       PROVE  AckedInFiles'
  <2>1. PICK k \in 0..Len(entries) :
          /\ \A i \in (k + 1)..Len(entries) : entries[i].what = Torn
          /\ \/ EndOf(k) = snap.offset /\ Apply(snap.map, acked.what) = snap.map
             \/ /\ k > 0 /\ entries[k] = acked /\ acked.what # Torn
                /\ snap.offset < EndOf(k)
    BY <1>14 DEF AckedInFiles
  <2>2. EndOf(k) \in Nat /\ k \in Nat
    BY <1>3, EntryType
  <2>3. EndOf(k) <= n
    <3>1. CASE EndOf(k) = snap.offset
      <4>1. ~stale'
        BY <1>2, <1>14 DEF Damaged
      <4>2. ~(snap.offset > n)
        BY <1>2, <1>4, <4>1
      <4> QED
        BY <1>3, <3>1, <4>2
    <3>2. CASE k > 0 /\ entries[k] = acked /\ snap.offset < EndOf(k)
      <4>1. EndOf(k) = acked.end
        BY <2>2, <3>2 DEF EndOf
      <4>2. ~(snap.offset < acked.end /\ n < acked.end)
        BY <1>2, <1>4, <1>14 DEF AckedCutOff
      <4> QED
        BY <1>3, <2>2, <3>2, <4>1, <4>2
    <3> QED
      BY <2>1, <3>1, <3>2
  <2>4. k <= kept
    <3>1. kept + 1 < k => EndOf(kept + 1) < EndOf(k)
      BY <1>3, EndsIncrease
    <3>2. n < EndOf(kept + 1) /\ EndOf(kept + 1) \in Nat
      BY <1>1, <1>3, EntryType
    <3>3. k = kept + 1 \/ kept + 1 < k \/ k <= kept
      BY <1>3, <2>2
    <3> QED
      BY <1>3, <2>2, <2>3, <3>1, <3>2, <3>3
  <2>5. k \in 0..kept /\ Len(entries') \in Nat /\ kept <= Len(entries')
    BY <1>3, <1>9, <1>10, <2>2, <2>4
  <2>6. ASSUME NEW i \in (k + 1)..Len(entries')
        PROVE  entries'[i].what = Torn
    <3>1. i \in 1..kept \/ (i = kept + 1 /\ i = Len(entries'))
      BY <1>3, <1>9, <2>2, <2>5
    <3>2. CASE i \in 1..kept
      <4>1. i \in (k + 1)..Len(entries)
        BY <1>3, <2>2, <3>2
      <4> QED
        BY <1>9, <2>1, <3>2, <4>1
    <3>3. CASE i = kept + 1 /\ i = Len(entries')
      <4>1. Len(entries') # kept
        BY <1>3, <3>3
      <4>2. entries'[i] = [what |-> Torn, end |-> n]
        BY <1>9, <3>3, <4>1
      <4> QED
        BY <4>2
    <3> QED
      BY <3>1, <3>2, <3>3
  <2>7. EndOf(k)' = EndOf(k) /\ (k > 0 => entries'[k] = entries[k])
    BY <1>9, <1>10, <2>2, <2>5
  <2>8. k \in 0..Len(entries')
    BY <1>3, <2>2, <2>5
  <2> QED
    BY <1>2, <2>1, <2>6, <2>7, <2>8 DEF AckedInFiles
<1>15. AckedIsKept'
  <2>1. data' = RecoveredFrom(file)'
    BY <1>2 DEF RecoveredFrom
  <2>2. acked # None /\ ~atRisk' => ~atRisk /\ ~Damaged' /\ AckedInFiles'
    BY <1>2, <1>14 DEF AckedIsKept
  <2> QED
    BY <1>2, <1>10, <1>12, <1>13, <2>1, <2>2, AckedAfterStart DEF LogInv
<1> QED
  BY <1>10, <1>12, <1>13, <1>15 DEF FileInv, LogInv

LEMMA FileStep == FileInv /\ [Next]_vars => FileInv'
<1> SUFFICES ASSUME FileInv, [Next]_vars PROVE FileInv'
  OBVIOUS
<1>1. ASSUME NEW operation \in Operation, Write(operation) PROVE FileInv'
  BY <1>1, StepWrite
<1>2. ASSUME NEW operation \in Operation, TornWrite(operation) PROVE FileInv'
  BY <1>2, StepTornWrite
<1>3. CASE Restart
  BY <1>3, StepRestart
<1>4. CASE SaveSnapshot
  BY <1>4, StepSaveSnapshot
<1>5. CASE ClearPersistence
  BY <1>5, StepClearPersistence
<1>6. CASE ClearCutShort
  BY <1>6, StepClearCutShort
<1>7. CASE PowerLoss
  BY <1>7, StepPowerLoss
<1>8. CASE UNCHANGED vars
  <2>1. UNCHANGED <<file, snap, data, acked, entries, stale, atRisk>>
    BY <1>8 DEF vars
  <2>2. ASSUME NEW n
        PROVE  EndOf(n)' = EndOf(n)
    BY <2>1 DEF EndOf
  <2>3. ASSUME NEW n, NEW frame
        PROVE  LiesAt(n, frame)' = LiesAt(n, frame)
    BY <2>1, <2>2 DEF LiesAt
  <2>4. ASSUME NEW n
        PROVE  EntryInFile(n)' = EntryInFile(n)
    BY <2>1, <2>2, <2>3 DEF EntryInFile
  <2>5. EntriesFillTheFile'
    BY <2>1, <2>2, <2>4 DEF FileInv, LogInv, EntriesFillTheFile
  <2>6. TypeOK' /\ OffsetBetweenEntries'
    BY <2>1 DEF FileInv, LogInv, TypeOK, OffsetBetweenEntries, EndOf
  <2>7. TornAt' = TornAt
    BY <2>1, <2>2 DEF TornAt
  <2>8. Damaged' = Damaged /\ AckedInFiles' = AckedInFiles
    BY <2>1, <2>2, <2>7 DEF Damaged, AckedInFiles
  <2>9. AckedIsKept'
    BY <2>1, <2>8 DEF AckedIsKept
  <2> QED
    BY <2>5, <2>6, <2>9 DEF FileInv, LogInv
<1> QED
  BY <1>1, <1>2, <1>3, <1>4, <1>5, <1>6, <1>7, <1>8 DEF Next

----------------------------------------------------------------------------
\* However appends, clears and power losses are cut short: the log is frames
\* and fragments that writers wrote, one behind the other, a snapshot's offset
\* lies between two of them unless it is stale, and the last answered operation
\* is behind it or in it unless it is at risk (WriteAheadLog::AppendSet,
\* KVStore::SaveSnapshot).
THEOREM FileInvTheorem == Spec => []FileInv
  BY InitFile, FileStep, PTL DEF Spec

\* Replay reads exactly the records that were appended behind the snapshot's
\* offset, those before a fragment, and none at a fragment at the end
\* (WriteAheadLog::ReplayFrom).
THEOREM ReplayTheorem == Spec => []ReplayReadsTheRecords
  BY FileInvTheorem, ReplayReads, PTL

\* What was answered last is found again by every recovery, through deaths,
\* power failures and restarts, until a CLEAR forgets it.  The exceptions are
\* those of atRisk: it or a later append went behind a fragment, the snapshot's
\* offset was stale, or a power failure took a record that no snapshot held
\* (kv_store.cpp, KVStore::Set; wal.cpp, AppendRecord; main's startup).
THEOREM AckedTheorem == Spec => []AckedUnlessDamaged
  BY FileInvTheorem, AckedIsReplayed, PTL

----------------------------------------------------------------------------
\* The snapshot and the log together.

----------------------------------------------------------------------------
\* Maps and the operations on them.
LEMMA RecordableType ==
  /\ \A key \in Recordable(Keys) : key \in Loadable /\ key \in Keys
  /\ \A value \in Recordable(Values) : value \in Loadable
<1>1. ASSUME NEW string \in Seq(Byte), Len(string) <= kMaxRecordLength
      PROVE  string \in Loadable
  <2>1. kMaxRecordLength \in Nat /\ kMaxSnapshotFieldLength \in Nat
    BY LimitAssumption, SnapshotAssumption DEF Fits
  <2>2. Len(string) \in Nat
    OBVIOUS
  <2>3. Len(string) <= kMaxSnapshotFieldLength
    BY <1>1, <2>1, <2>2, SizesAssumption
  <2> QED
    BY <2>3 DEF Loadable
<1> QED
  BY <1>1, StringsAssumption DEF Recordable

LEMMA MapsType ==
  ASSUME NEW map
  PROVE  map \in Maps <=> /\ DOMAIN map \subseteq Recordable(Keys) /\ IsMap(map)
                          /\ \A key \in DOMAIN map : map[key] \in Recordable(Values)
<1>1. ASSUME map \in Maps
      PROVE  /\ DOMAIN map \subseteq Recordable(Keys) /\ IsMap(map)
             /\ \A key \in DOMAIN map : map[key] \in Recordable(Values)
  <2>1. PICK keys \in SUBSET Recordable(Keys) : map \in [keys -> Recordable(Values)]
    BY <1>1 DEF Maps
  <2> QED
    BY <2>1 DEF IsMap
<1>2. ASSUME DOMAIN map \subseteq Recordable(Keys), IsMap(map),
             \A key \in DOMAIN map : map[key] \in Recordable(Values)
      PROVE  map \in Maps
  <2>1. map \in [DOMAIN map -> Recordable(Values)]
    BY <1>2 DEF IsMap
  <2> QED
    BY <1>2, <2>1 DEF Maps
<1> QED
  BY <1>1, <1>2

LEMMA EmptyMapType == EmptyMap \in Maps
  BY DEF Maps, EmptyMap

\* A record that is written names a key and a value that the maps may hold.
LEMMA WrittenFits ==
  ASSUME NEW operation \in Operation, WithinLimit(Payload(operation))
  PROVE  /\ operation.key \in Recordable(Keys)
         /\ operation.op = SetOp => operation.value \in Recordable(Values)
<1> DEFINE payload == Payload(operation)
           key == operation.key
           value == operation.value
<1>1. Width \in Nat /\ kMaxRecordLength \in Nat
  BY BytesAssumption, LimitAssumption DEF Fits
<1>2. Len(payload) <= kMaxRecordLength
  BY DEF WithinLimit
<1>3. CASE operation \in [op: {SetOp}, key: Keys, value: Values]
  <2>1. key \in Keys /\ value \in Values /\ key \in Seq(Byte) /\ value \in Seq(Byte)
    BY <1>3, StringsAssumption
  <2>2. payload = SetPayload(key, value)
    BY <1>3 DEF Payload
  <2> HIDE DEF payload, key, value
  <2>3. Len(payload) = 1 + (Width + Len(key)) + (Width + Len(value))
    BY <2>1, <2>2, SetPayloadType
  <2>4. Len(key) \in Nat /\ Len(value) \in Nat
    BY <2>1
  <2>5. key \in Recordable(Keys) /\ value \in Recordable(Values)
    BY <1>1, <1>2, <2>1, <2>3, <2>4 DEF Recordable
  <2> QED
    BY <2>5 DEF key, value
<1>4. CASE operation \in [op: {DeleteOp}, key: Keys]
  <2>1. key \in Keys /\ key \in Seq(Byte) /\ operation.op # SetOp
    BY <1>4, StringsAssumption DEF SetOp, DeleteOp
  <2>2. payload = DeletePayload(key)
    BY <2>1 DEF Payload
  <2> HIDE DEF payload, key
  <2>3. Len(payload) = 1 + (Width + Len(key))
    BY <2>1, <2>2, DeletePayloadType
  <2>4. Len(key) \in Nat
    BY <2>1
  <2>5. key \in Recordable(Keys)
    BY <1>1, <1>2, <2>1, <2>3, <2>4 DEF Recordable
  <2> QED
    BY <2>1, <2>5 DEF key
<1> QED
  BY <1>3, <1>4 DEF Operation

LEMMA ApplyType ==
  ASSUME NEW map \in Maps, NEW operation \in Operation, WithinLimit(Payload(operation))
  PROVE  Apply(map, operation) \in Maps
<1>1. /\ DOMAIN map \subseteq Recordable(Keys)
      /\ \A key \in DOMAIN map : map[key] \in Recordable(Values)
  BY MapsType
<1>2. /\ operation.key \in Recordable(Keys)
      /\ operation.op = SetOp => operation.value \in Recordable(Values)
  BY WrittenFits
<1> DEFINE after == Apply(map, operation)
<1>3. IsMap(after)
  BY ApplyEffect
<1>4. /\ DOMAIN after \subseteq DOMAIN map \cup {operation.key}
      /\ \A key \in DOMAIN after :
           \/ key \in DOMAIN map /\ after[key] = map[key]
           \/ operation.op = SetOp /\ after[key] = operation.value
  BY DEF Apply
<1> HIDE DEF after
<1>5. after \in Maps
  BY <1>1, <1>2, <1>3, <1>4, MapsType
<1> QED
  BY <1>5 DEF after

LEMMA AppliedType ==
  ASSUME NEW map \in Maps, NEW operations, Len(operations) \in Nat,
         \A n \in 1..Len(operations) :
           operations[n] \in Operation /\ WithinLimit(Payload(operations[n]))
  PROVE  Applied(map, operations) \in Maps
<1>1. PICK count \in Nat : count = Len(operations)
  OBVIOUS
<1>2. PICK f : /\ Applied(map, operations) = f[count] /\ f[0] = map
               /\ \A n \in 1..count : f[n] = Apply(f[n - 1], operations[n])
  BY <1>1, AppliedUnrolled
<1> DEFINE T == {n \in Nat : n <= count => f[n] \in Maps}
<1>3. 0 \in T
  BY <1>2
<1>4. ASSUME NEW n \in Nat, n \in T
      PROVE  n + 1 \in T
  <2> SUFFICES ASSUME n + 1 <= count PROVE f[n + 1] \in Maps
    OBVIOUS
  <2>1. n + 1 \in 1..count /\ (n + 1) - 1 = n /\ f[n] \in Maps
    BY <1>4
  <2>2. f[n + 1] = Apply(f[n], operations[n + 1])
    BY <1>2, <2>1
  <2> QED
    BY <1>1, <2>1, <2>2, ApplyType
<1> HIDE DEF T
<1>5. count \in T
  BY <1>3, <1>4, SetInduction
<1> QED
  BY <1>2, <1>5 DEF T

----------------------------------------------------------------------------
\* The entries of a map: they can be saved, and make up the map again.
LEMMA KeysOf ==
  ASSUME NEW map \in Maps, NEW keys \in SetToSeqs(DOMAIN map)
  PROVE  /\ Cardinality(DOMAIN map) \in Nat /\ Cardinality(DOMAIN map) < kSnapshotMagic
         /\ keys \in [1..Cardinality(DOMAIN map) -> DOMAIN map]
         /\ \A key \in DOMAIN map : \E n \in 1..Cardinality(DOMAIN map) : keys[n] = key
<1> DEFINE S == DOMAIN map
           D == 1..Cardinality(S)
<1>1. IsFiniteSet(S) /\ Cardinality(S) \in Nat /\ Cardinality(S) < kSnapshotMagic
  <2>1. S \subseteq Keys
    BY MapsType, RecordableType
  <2>2. IsFiniteSet(S) /\ Cardinality(S) <= Cardinality(Keys)
    BY <2>1, SizesAssumption, FS_Subset
  <2>3. Cardinality(S) \in Nat /\ Cardinality(Keys) \in Nat /\ kSnapshotMagic \in Nat
    BY <2>2, SizesAssumption, FS_CardinalityType, Widths DEF Fits
  <2> QED
    BY <2>2, <2>3, SizesAssumption
<1>2. keys \in [D -> S] /\ \A i, j \in D : i # j => keys[i] # keys[j]
  BY DEF SetToSeqs
<1> HIDE DEF S
<1>3. keys \in Injection(D, S)
  BY <1>2 DEF Injection, IsInjective
<1>4. IsFiniteSet(D) /\ Cardinality(D) = Cardinality(S)
  BY <1>1, FS_Interval
<1>5. keys \in Surjection(D, S)
  BY <1>1, <1>3, <1>4, FS_Injection
<1>6. \A key \in S : \E n \in D : keys[n] = key
  BY <1>5 DEF Surjection
<1> QED
  BY <1>1, <1>2, <1>6 DEF S

LEMMA EntriesOfType ==
  ASSUME NEW map \in Maps, NEW pairs \in EntriesOf(map)
  PROVE  /\ pairs \in Seq(Pair) /\ Len(pairs) \in Nat
         /\ Len(pairs) < kSnapshotMagic /\ Fits(Len(pairs), Width)
         /\ \A n \in 1..Len(pairs) :
              pairs[n][1] \in DOMAIN map /\ pairs[n][2] = map[pairs[n][1]]
         /\ \A key \in DOMAIN map : \E n \in 1..Len(pairs) : pairs[n][1] = key
<1>1. PICK keys \in SetToSeqs(DOMAIN map) :
             pairs = [i \in DOMAIN keys |-> <<keys[i], map[keys[i]]>>]
  BY DEF EntriesOf
<1>2. PICK count \in Nat : count = Cardinality(DOMAIN map)
  BY <1>1, KeysOf
<1>3. /\ count < kSnapshotMagic /\ keys \in [1..count -> DOMAIN map]
      /\ \A key \in DOMAIN map : \E n \in 1..count : keys[n] = key
  BY <1>1, <1>2, KeysOf
<1>4. \A n \in 1..count : keys[n] \in Loadable /\ map[keys[n]] \in Loadable
  <2>1. /\ DOMAIN map \subseteq Recordable(Keys)
        /\ \A key \in DOMAIN map : map[key] \in Recordable(Values)
    BY MapsType
  <2> QED
    BY <1>3, <2>1, RecordableType
<1>5. pairs = [i \in 1..count |-> <<keys[i], map[keys[i]]>>]
  BY <1>1, <1>3
<1>6. \A n \in 1..count : pairs[n] = <<keys[n], map[keys[n]]>> /\ pairs[n] \in Pair
  BY <1>4, <1>5 DEF Pair
<1>7. pairs \in [1..count -> Pair]
  BY <1>5, <1>6
<1>8. pairs \in Seq(Pair) /\ Len(pairs) = count
  <2>1. pairs \in Seq(Pair)
    BY <1>7, SeqDef
  <2>2. DOMAIN pairs = 1..count
    BY <1>5
  <2> QED
    BY <2>1, <2>2, LenProperties
<1>9. Fits(count, Width)
  <2>1. /\ count <= kSnapshotMagic /\ kSnapshotMagic \in Nat /\ Width \in Nat
        /\ Shifted(kSnapshotMagic, Width) = 0
    BY <1>3, Widths DEF Fits
  <2>2. /\ Shifted(count, Width) <= Shifted(kSnapshotMagic, Width)
        /\ Shifted(count, Width) \in Nat
    BY <2>1, ShiftedMonotone, ShiftedType, Zenon
  <2> QED
    BY <2>1, <2>2 DEF Fits
<1>10. \A n \in 1..count : pairs[n][1] = keys[n] /\ pairs[n][2] = map[keys[n]]
  BY <1>6
<1> QED
  BY <1>3, <1>8, <1>9, <1>10

LEMMA EntriesMakeTheMap ==
  ASSUME NEW map \in Maps, NEW pairs \in EntriesOf(map)
  PROVE  MapOf(pairs) = map
<1>1. PICK count \in Nat : count = Len(pairs)
  BY EntriesOfType
<1> DEFINE operations == [n \in 1..Len(pairs) |->
                            [op |-> SetOp, key |-> pairs[n][1], value |-> pairs[n][2]]]
<1>2. MapOf(pairs) = Applied(EmptyMap, operations)
  BY DEF MapOf
<1>3. /\ Len(operations) = count
      /\ \A n \in 1..count : /\ operations[n].op = SetOp
                             /\ operations[n].key = pairs[n][1]
                             /\ operations[n].value = pairs[n][2]
  BY <1>1
<1> HIDE DEF operations
<1>4. PICK f : /\ Applied(EmptyMap, operations) = f[count] /\ f[0] = EmptyMap
               /\ \A n \in 1..count : f[n] = Apply(f[n - 1], operations[n])
  <2>1. Len(operations) \in Nat
    BY <1>3
  <2> DEFINE map0 == EmptyMap
  <2> HIDE DEF map0
  <2>2. \E g : /\ Applied(map0, operations) = g[Len(operations)] /\ g[0] = map0
              /\ \A n \in 1..Len(operations) : g[n] = Apply(g[n - 1], operations[n])
    BY <2>1, AppliedUnrolled
  <2> QED
    BY <1>3, <2>2 DEF map0
<1> DEFINE Named(n) == {pairs[i][1] : i \in 1..n}
           Part(n) == /\ IsMap(f[n]) /\ DOMAIN f[n] = Named(n)
                      /\ \A key \in Named(n) : f[n][key] = map[key]
           T == {n \in Nat : n <= count => Part(n)}
<1>5. 0 \in T
  BY <1>4 DEF EmptyMap, IsMap
<1>6. ASSUME NEW n \in Nat, n \in T
      PROVE  n + 1 \in T
  <2> SUFFICES ASSUME n + 1 <= count PROVE Part(n + 1)
    BY DEF T
  <2>1. Part(n) /\ n + 1 \in 1..count /\ (n + 1) - 1 = n
    BY <1>6
  <2> DEFINE operation == operations[n + 1]
             next == pairs[n + 1][1]
  <2>2. f[n + 1] = Apply(f[n], operation)
    BY <1>4, <2>1
  <2>3. operation.op = SetOp /\ operation.key = next /\ operation.value = map[next]
    BY <1>1, <1>3, <2>1, EntriesOfType
  <2>4. Named(n + 1) = Named(n) \cup {next}
    <3>1. 1..(n + 1) = 1..n \cup {n + 1}
      OBVIOUS
    <3> QED
      BY <3>1
  <2> HIDE DEF operation, next, Named, T
  <2>5. f[n + 1] = [key \in DOMAIN f[n] \cup {next} |->
                      IF key = next THEN map[next] ELSE f[n][key]]
    BY <2>2, <2>3 DEF Apply
  <2> QED
    BY <2>1, <2>4, <2>5 DEF IsMap
<1> HIDE DEF T
<1>7. count \in T
  BY <1>5, <1>6, SetInduction
<1>8. Part(count)
  BY <1>7 DEF T
<1>9. Named(count) = DOMAIN map
  <2>1. /\ \A n \in 1..count : pairs[n][1] \in DOMAIN map
        /\ \A key \in DOMAIN map : \E n \in 1..count : pairs[n][1] = key
    BY <1>1, EntriesOfType
  <2> QED
    BY <2>1
<1> HIDE DEF Named
<1>10. f[count] = map
  BY <1>8, <1>9, MapsType DEF IsMap
<1> QED
  BY <1>2, <1>4, <1>10

\* A map saved in either layout stands in the image.
LEMMA SavedStandsFor ==
  ASSUME NEW map \in Maps, NEW pairs \in EntriesOf(map), NEW offset \in Nat,
         Fits(offset, OffsetWidth), NEW bytes, bytes = Saved(pairs, offset)
  PROVE  /\ bytes \in Seq(Byte) /\ ~(Len(bytes) < Width)
         /\ StandsFor(bytes, map, offset)
<1>1. pairs \in Seq(Pair) /\ Fits(Len(pairs), Width) /\ MapOf(pairs) = map
  BY EntriesOfType, EntriesMakeTheMap
<1> DEFINE content == [entries |-> pairs, offset |-> offset]
<1>2. content \in Content /\ content.entries = pairs /\ content.offset = offset
  BY <1>1 DEF Content
<1> HIDE DEF content
<1>3. /\ bytes \in Seq(Byte)
      /\ Len(bytes) = 3 * Width + OffsetWidth + Len(write_entries(pairs))
  BY <1>1, SavedType
<1>4. ~(Len(bytes) < Width)
  BY <1>1, <1>3, Widths, EntriesType, Len(write_entries(pairs)) \in Nat
<1>5. Holds(bytes, 0, Saved(content.entries, content.offset))
  <2>1. Holds(bytes, 0, bytes)
    BY <1>3, HoldsAll
  <2> QED
    BY <1>2, <2>1
<1>6. Stands(bytes, content)
  BY <1>2, <1>3, <1>5, StandsSaved
<1>7. Load(bytes) = content
  BY <1>2, <1>3, <1>6, LoadHeld
<1>8. IsCurrent(bytes)
  <2>1. Holds(bytes, 0, Length(kSnapshotMagic))
    BY <1>1, <1>2, <1>3, <1>5, SavedHeld, Zenon
  <2> QED
    BY <1>3, <2>1, FirstField, Widths DEF Fits
<1>9. content \notin {NotLoaded, Refused}
  BY <1>2, ContentType
<1> QED
  BY <1>1, <1>2, <1>3, <1>4, <1>7, <1>8, <1>9 DEF StandsFor

LEMMA LegacyStandsFor ==
  ASSUME NEW map \in Maps, NEW pairs \in EntriesOf(map),
         NEW bytes, bytes = SavedLegacy(pairs)
  PROVE  /\ bytes \in Seq(Byte) /\ ~(Len(bytes) < Width)
         /\ StandsFor(bytes, map, 0)
<1>1. /\ pairs \in Seq(Pair) /\ Fits(Len(pairs), Width) /\ MapOf(pairs) = map
      /\ Len(pairs) \in Nat /\ Len(pairs) # kSnapshotMagic
  BY EntriesOfType, EntriesMakeTheMap, Widths DEF Fits
<1> DEFINE content == [entries |-> pairs, offset |-> 0]
<1>2. content \in Content /\ content.entries = pairs /\ content.offset = 0
  BY <1>1 DEF Content
<1> HIDE DEF content
<1>3. bytes \in Seq(Byte) /\ Len(bytes) = Width + Len(write_entries(pairs))
  BY <1>1, LegacyType
<1>4. ~(Len(bytes) < Width)
  BY <1>1, <1>3, Widths, EntriesType, Len(write_entries(pairs)) \in Nat
<1>5. Holds(bytes, 0, SavedLegacy(content.entries))
  <2>1. Holds(bytes, 0, bytes)
    BY <1>3, HoldsAll
  <2> QED
    BY <1>2, <2>1
<1>6. Stands(bytes, content)
  BY <1>1, <1>2, <1>3, <1>5, StandsLegacy
<1>7. Load(bytes) = content
  BY <1>2, <1>3, <1>6, LoadHeld
<1>8. ~IsCurrent(bytes)
  <2>1. Holds(bytes, 0, Length(Len(pairs)))
    BY <1>1, <1>2, <1>3, <1>5, LegacyHeld, Zenon
  <2> QED
    BY <1>1, <1>3, <2>1, FirstField
<1>9. content \notin {NotLoaded, Refused}
  BY <1>2, ContentType
<1> QED
  BY <1>1, <1>2, <1>3, <1>4, <1>7, <1>8, <1>9 DEF StandsFor

\* An image that lost its end does not load.
LEMMA ShortImage ==
  ASSUME NEW bytes, Len(bytes) < Width
  PROVE  Load(bytes) = NotLoaded
  BY DEF Load

LEMMA StandsBefore ==
  ASSUME NEW left \in Seq(Byte), NEW tail \in Seq(Byte), NEW content \in Content,
         Stands(left, content)
  PROVE  /\ left \o tail \in Seq(Byte) /\ Stands(left \o tail, content)
         /\ WrittenAs(left \o tail, content) = WrittenAs(left, content)
  BY StandsLonger

LEMMA LoadsAtMostItself ==
  ASSUME NEW left \in Seq(Byte), NEW tail \in Seq(Byte), NEW bytes, bytes = left \o tail,
         NEW map, NEW offset, StandsFor(bytes, map, offset),
         Load(left) \notin {NotLoaded, Refused}
  PROVE  Holds(left, 0, bytes)
<1>1. PICK content : content = Load(left)
  OBVIOUS
<1>2. content \in Content /\ Stands(left, content)
  BY <1>1, LoadRead
<1>3. /\ Load(bytes) = content /\ WrittenAs(bytes, content) = WrittenAs(left, content)
      /\ Holds(left, 0, WrittenAs(left, content))
  <2>1. /\ bytes \in Seq(Byte) /\ Stands(bytes, content)
        /\ WrittenAs(bytes, content) = WrittenAs(left, content)
    BY <1>2, StandsBefore
  <2>2. Load(bytes) = content
    BY <1>2, <2>1, LoadHeld
  <2>3. Holds(left, 0, WrittenAs(left, content))
    BY <1>2, StandsWritten
  <2> QED
    BY <2>1, <2>2, <2>3
<1>4. bytes = WrittenAs(bytes, content)
  BY <1>3 DEF StandsFor, WrittenAs
<1> QED
  BY <1>3, <1>4

LEMMA CutLoadsNothing ==
  ASSUME NEW left \in Seq(Byte), NEW tail \in Seq(Byte), Len(tail) > 0,
         NEW bytes, bytes = left \o tail,
         NEW map, NEW offset, StandsFor(bytes, map, offset)
  PROVE  Load(left) \in {NotLoaded, Refused}
<1> SUFFICES ASSUME Load(left) \notin {NotLoaded, Refused}
             PROVE  FALSE
  OBVIOUS
<1>1. Holds(left, 0, bytes)
  BY LoadsAtMostItself
<1>2. Len(bytes) = Len(left) + Len(tail) /\ Len(left) \in Nat /\ Len(tail) \in Nat
  BY ConcatElements
<1>3. Len(bytes) <= Len(left)
  BY <1>1, <1>2 DEF Holds
<1> QED
  BY <1>2, <1>3

LEMMA CutImage ==
  ASSUME NEW bytes \in Seq(Byte), NEW map, NEW offset, StandsFor(bytes, map, offset),
         NEW n \in 0..(Len(bytes) - 1)
  PROVE  Load(SubSeq(bytes, 1, n)) \in {NotLoaded, Refused}
<1>1. PICK left \in Seq(Byte), tail \in Seq(Byte) :
        left = SubSeq(bytes, 1, n) /\ bytes = left \o tail /\ Len(tail) > 0
  <2> DEFINE front == SubSeq(bytes, 1, n)
             back == SubSeq(bytes, n + 1, Len(bytes))
  <2>1. /\ front \in Seq(Byte) /\ back \in Seq(Byte) /\ Len(back) > 0
        /\ bytes = front \o back
    OBVIOUS
  <2> HIDE DEF front, back
  <2> QED
    BY <2>1 DEF front
<1>2. Load(left) \in {NotLoaded, Refused}
  BY <1>1, CutLoadsNothing
<1> QED
  BY <1>1, <1>2

----------------------------------------------------------------------------
\* BytesInv is inductive.
LEMMA Facts ==
  ASSUME BytesInv
  PROVE  /\ LogInv /\ ~stale /\ OffsetBetweenEntries
         /\ image \in Seq(Byte) /\ data \in Maps /\ snap.map \in Maps
         /\ snap = [map |-> snap.map, offset |-> snap.offset] /\ snap.offset \in Nat
         /\ Len(file) \in Nat /\ Len(entries) \in Nat
         /\ \A n \in 1..Len(entries) : entries[n].what # Torn
<1>1. /\ LogInv /\ ~stale /\ image \in Seq(Byte) /\ data \in Maps
      /\ \A n \in 1..Len(entries) : entries[n].what # Torn
  BY DEF BytesInv, BytesType, LogIsWhole
<1>2. snap \in [map: Maps, offset: Nat]
  BY DEF BytesInv, BytesType
<1>3. Len(file) \in Nat /\ Len(entries) \in Nat
  BY <1>1, EntryType
<1>4. \E n \in 0..Len(entries) : EndOf(n) = snap.offset
  <2>1. EndOf(0) = 0 /\ 0 \in 0..Len(entries)
    BY <1>3 DEF EndOf
  <2> QED
    BY <2>1 DEF BytesInv, SavedBetweenEntries
<1>5. OffsetBetweenEntries
  BY <1>4 DEF OffsetBetweenEntries
<1>6. /\ snap = [map |-> snap.map, offset |-> snap.offset]
      /\ snap.offset \in Nat /\ snap.map \in Maps
  BY <1>2
<1> QED
  BY <1>1, <1>3, <1>5, <1>6

\* The log's length fits into the offset's field.
LEMMA OffsetFits ==
  ASSUME BytesInv
  PROVE  Fits(Len(file), OffsetWidth)
<1> DEFINE most == MaxEntries * (Width + kMaxRecordLength)
           now == Len(entries) * (Width + kMaxRecordLength)
<1>1. Width \in Nat /\ kMaxRecordLength \in Nat /\ MaxEntries \in Nat /\ OffsetWidth \in Nat
  BY BytesAssumption, LimitAssumption, SizesAssumption, Widths DEF Fits
<1>2. ASSUME NEW m \in Nat, NEW n \in Nat, m <= n, NEW c \in Nat
      PROVE  m * c <= n * c /\ m * c \in Nat /\ n * c \in Nat
  BY <1>2
<1>3. PICK c \in Nat : c = Width + kMaxRecordLength
  BY <1>1
<1>4. now <= most /\ now \in Nat /\ most \in Nat
  BY <1>1, <1>2, <1>3, Facts DEF BytesInv, LogIsWhole
<1>5. Len(file) <= now /\ Len(file) \in Nat
  BY Facts DEF BytesInv, LogIsWhole
<1>6. Fits(most, OffsetWidth)
  BY SizesAssumption
<1> HIDE DEF now, most
<1>7. Len(file) <= most
  BY <1>4, <1>5
<1>8. /\ Shifted(Len(file), OffsetWidth) <= Shifted(most, OffsetWidth)
      /\ Shifted(Len(file), OffsetWidth) \in Nat
  BY <1>1, <1>4, <1>5, <1>7, ShiftedMonotone, ShiftedType, Zenon
<1> QED
  BY <1>5, <1>6, <1>8 DEF Fits

LEMMA InitBytes == BytesInit => BytesInv
<1> SUFFICES ASSUME BytesInit PROVE BytesInv
  OBVIOUS
<1>1. LogInv
  BY InitFile DEF BytesInit, FileInv
<1>2. /\ Len(entries) = 0 /\ Len(file) = 0 /\ Len(image) = 0 /\ EndOf(0) = 0
      /\ ~stale /\ ~isCut /\ isCut \in BOOLEAN /\ savedAt = 0 /\ image = <<>>
      /\ data = EmptyMap /\ snap = [map |-> EmptyMap, offset |-> 0]
  BY DEF BytesInit, Init, EndOf
<1>3. BytesType
  BY <1>2, EmptyMapType DEF BytesType
<1>4. LogIsWhole
  BY <1>2, SizesAssumption, BytesAssumption, LimitAssumption DEF LogIsWhole, Fits
<1>5. SavedBetweenEntries
  BY <1>2 DEF SavedBetweenEntries
<1>6. ImageStands
  BY <1>2, Widths DEF ImageStands
<1> QED
  BY <1>1, <1>3, <1>4, <1>5, <1>6 DEF BytesInv

LEMMA StepBytesWrite ==
  ASSUME BytesInv, BytesWrite
  PROVE  BytesInv'
<1>1. PICK operation \in Operation : Write(operation)
  BY DEF BytesWrite
<1> DEFINE frame == Frame(Payload(operation))
<1>2. /\ WithinLimit(Payload(operation)) /\ LogGets(frame, operation)
      /\ data' = Apply(data, operation) /\ snap' = snap /\ stale' = stale
      /\ Len(entries) < MaxEntries
      /\ image' = image /\ isCut' = isCut /\ savedAt' = savedAt
      /\ entries' = Append(entries, Entry(operation, file'))
  BY <1>1, Zenon DEF Write, LogGets, BytesWrite
<1>3. /\ frame \in Seq(Byte) /\ Len(frame) \in 1..Len(frame) /\ Len(frame) \in Nat
      /\ Len(frame) <= Width + kMaxRecordLength
  <2>1. Payload(operation) \in Seq(Byte) /\ Len(Payload(operation)) \in Nat
    BY OperationFrame
  <2>2. Len(frame) = Width + Len(Payload(operation))
    BY <2>1, FrameType
  <2>3. Len(Payload(operation)) <= kMaxRecordLength
    BY <1>2 DEF WithinLimit
  <2>4. Width \in Nat /\ kMaxRecordLength \in Nat
    BY BytesAssumption, LimitAssumption DEF Fits
  <2>5. /\ frame \in Seq(Byte) /\ Len(frame) \in Nat /\ Len(frame) > 0
    BY OperationFrame
  <2> HIDE DEF frame
  <2> QED
    BY <2>1, <2>2, <2>3, <2>4, <2>5
<1>4. IF operation = Torn THEN Len(frame) < Len(frame)
      ELSE operation = operation /\ Len(frame) = Len(frame)
  BY OperationType, Zenon
<1>5. LogInv /\ OffsetBetweenEntries /\ entries \in Seq(EntrySet) /\ Len(entries) \in Nat
  BY Facts DEF LogInv, TypeOK, EntrySet
<1>6. /\ TypeOK' /\ EntriesFillTheFile'
      /\ Len(file') = Len(file) + Len(frame)
      /\ Len(entries') = Len(entries) + 1
      /\ entries'[Len(entries')] = Entry(operation, file')
      /\ \A n \in 1..Len(entries) : entries'[n] = entries[n]
      /\ \A n \in 0..Len(entries) : EndOf(n)' = EndOf(n)
  BY <1>2, <1>3, <1>4, <1>5, LogLonger, Zenon
<1>7. entries'[Len(entries')].what = operation
  BY <1>6 DEF Entry
<1> HIDE DEF frame
<1>9. BytesType'
  <2>1. data \in Maps /\ data' \in Maps
    BY <1>2, Facts, ApplyType
  <2> QED
    BY <1>2, <2>1 DEF BytesInv, BytesType
<1>10. LogIsWhole'
  <2>1. ~stale'
    BY <1>2, Facts
  <2>2. ASSUME NEW n \in 1..Len(entries')
        PROVE  entries'[n].what # Torn
    <3>1. n \in 1..Len(entries) \/ n = Len(entries')
      BY <1>5, <1>6
    <3> QED
      BY <1>6, <1>7, <3>1, Facts, OperationType
  <2>3. Len(entries') <= MaxEntries
    BY <1>2, <1>5, <1>6, SizesAssumption
  <2>4. Len(file') <= Len(entries') * (Width + kMaxRecordLength)
    <3>1. ASSUME NEW l \in Nat, NEW c \in Nat PROVE (l + 1) * c = l * c + c /\ l * c \in Nat
      BY <3>1
    <3>2. PICK c \in Nat : c = Width + kMaxRecordLength
      BY BytesAssumption, LimitAssumption DEF Fits
    <3>3. PICK m \in Nat : m = Len(entries) * c
      BY <1>5, <3>1
    <3>4. Len(entries') * c = m + c
      BY <1>5, <1>6, <3>1, <3>3
    <3>5. Len(file) <= m /\ Len(file) \in Nat
      BY <3>2, <3>3, Facts DEF BytesInv, LogIsWhole
    <3>6. Len(file) + Len(frame) <= m + c
      BY <1>3, <3>2, <3>5
    <3> QED
      BY <1>6, <3>2, <3>4, <3>6
  <2> QED
    BY <2>1, <2>2, <2>3, <2>4 DEF LogIsWhole
<1>11. SavedBetweenEntries'
  <2>1. PICK n \in 0..Len(entries) : EndOf(n) = savedAt
    BY DEF BytesInv, SavedBetweenEntries
  <2>2. n \in 0..Len(entries') /\ EndOf(n)' = savedAt
    BY <1>5, <1>6, <2>1
  <2> QED
    BY <1>2, <2>2 DEF BytesInv, SavedBetweenEntries
<1>12. ImageStands'
  BY <1>2 DEF BytesInv, ImageStands
<1> QED
  BY <1>6, <1>9, <1>10, <1>11, <1>12 DEF BytesInv, LogInv

LEMMA StepBytesSave ==
  ASSUME BytesInv, BytesSave
  PROVE  BytesInv'
<1>1. PICK pairs \in EntriesOf(data) : image' = Saved(pairs, Len(file))
  BY DEF BytesSave
<1>2. /\ snap' = [map |-> data, offset |-> Len(file)] /\ stale' = FALSE
      /\ file' = file /\ data' = data /\ entries' = entries
      /\ isCut' = FALSE /\ savedAt' = Len(file)
  BY DEF BytesSave, SaveSnapshot
<1>3. snap'.map = data /\ snap'.offset = Len(file)
  BY <1>2
<1>4. /\ image' \in Seq(Byte) /\ ~(Len(image') < Width)
      /\ StandsFor(image', data, Len(file))
  BY <1>1, Facts, OffsetFits, SavedStandsFor
<1>5. TypeOK' /\ EntriesFillTheFile'
  <2>1. FALSE \in BOOLEAN
    OBVIOUS
  <2> QED
    BY <1>2, <1>3, <2>1, Facts, FilesKept DEF LogInv, TypeOK
<1>6. BytesType'
  <2>1. snap' \in [map: Maps, offset: Nat]
    BY <1>2, Facts
  <2> QED
    BY <1>2, <1>4, <2>1, Facts DEF BytesType
<1>7. LogIsWhole'
  BY <1>2 DEF BytesInv, LogIsWhole
<1>8. SavedBetweenEntries'
  <2>1. Len(entries) \in 0..Len(entries) /\ EndOf(Len(entries)) = Len(file)
    BY Facts DEF LogInv, EntriesFillTheFile
  <2>2. \A n \in 0..Len(entries) : EndOf(n)' = EndOf(n)
    BY <1>2, Facts, FilesKept
  <2> QED
    BY <1>2, <1>3, <2>1, <2>2 DEF SavedBetweenEntries
<1>9. ImageStands'
  BY <1>2, <1>3, <1>4 DEF ImageStands
<1> QED
  BY <1>5, <1>6, <1>7, <1>8, <1>9 DEF BytesInv, LogInv

LEMMA StepLegacySave ==
  ASSUME BytesInv, LegacySave
  PROVE  BytesInv'
<1>1. PICK pairs \in EntriesOf(data) : image' = SavedLegacy(pairs)
  BY DEF LegacySave
<1>2. /\ snap' = [map |-> data, offset |-> 0]
      /\ file' = file /\ data' = data /\ entries' = entries /\ stale' = stale
      /\ isCut' = FALSE /\ savedAt' = Len(file)
  BY DEF LegacySave
<1>3. snap'.map = data /\ snap'.offset = 0
  BY <1>2
<1>4. /\ image' \in Seq(Byte) /\ ~(Len(image') < Width)
      /\ StandsFor(image', data, 0)
  BY <1>1, Facts, LegacyStandsFor
<1>5. TypeOK' /\ EntriesFillTheFile'
  BY <1>2, <1>3, Facts, FilesKept DEF LogInv, TypeOK
<1>6. BytesType'
  <2>1. snap' \in [map: Maps, offset: Nat]
    BY <1>2, Facts
  <2> QED
    BY <1>2, <1>4, <2>1, Facts DEF BytesType
<1>7. LogIsWhole'
  BY <1>2 DEF BytesInv, LogIsWhole
<1>8. SavedBetweenEntries'
  <2>1. Len(entries) \in 0..Len(entries) /\ EndOf(Len(entries)) = Len(file)
    BY Facts DEF LogInv, EntriesFillTheFile
  <2>2. \A n \in 0..Len(entries) : EndOf(n)' = EndOf(n)
    BY <1>2, Facts, FilesKept
  <2> QED
    BY <1>2, <1>3, <2>1, <2>2 DEF SavedBetweenEntries
<1>9. ImageStands'
  BY <1>2, <1>3, <1>4 DEF ImageStands
<1> QED
  BY <1>5, <1>6, <1>7, <1>8, <1>9 DEF BytesInv, LogInv

LEMMA StepBytesClear ==
  ASSUME BytesInv, BytesClear
  PROVE  BytesInv'
<1>1. /\ file' = <<>> /\ entries' = <<>> /\ stale' = FALSE /\ data' = data
      /\ snap' = [map |-> EmptyMap, offset |-> 0]
      /\ image' = <<>> /\ isCut' = FALSE /\ savedAt' = 0
  BY DEF BytesClear, ClearPersistence
<1>2. snap'.map = EmptyMap /\ snap'.offset = 0 /\ FALSE \in BOOLEAN
  BY <1>1
<1>3. /\ EntriesFillTheFile' /\ 0 \in 0..Len(entries') /\ EndOf(0)' = 0
      /\ file' \in Seq(Byte)
      /\ entries' \in Seq([what: Operation \cup {Torn}, end: Nat])
  BY <1>1, LogEmptied
<1>4. TypeOK'
  BY <1>1, <1>2, <1>3, 0 \in Nat, Zenon DEF TypeOK
<1>5. BytesType'
  <2>1. image' \in Seq(Byte)
    BY <1>1, EmptySeq
  <2>2. snap' \in [map: Maps, offset: Nat]
    BY <1>1, EmptyMapType
  <2> QED
    BY <1>1, <1>2, <2>1, <2>2, Facts DEF BytesType
<1>6. Len(entries') = 0 /\ Len(file') = 0 /\ Len(image') = 0
  BY <1>1
<1>7. LogIsWhole'
  BY <1>1, <1>6, SizesAssumption, BytesAssumption, LimitAssumption DEF LogIsWhole, Fits
<1>8. SavedBetweenEntries'
  BY <1>1, <1>2, <1>3 DEF SavedBetweenEntries
<1>9. ImageStands'
  BY <1>1, <1>6, Widths DEF ImageStands
<1> QED
  BY <1>3, <1>4, <1>5, <1>7, <1>8, <1>9 DEF BytesInv, LogInv

LEMMA StepCut ==
  ASSUME BytesInv, Cut
  PROVE  BytesInv'
<1>1. PICK n \in 0..(Len(image) - 1) : image' = SubSeq(image, 1, n)
  BY DEF Cut
<1>2. /\ file' = file /\ entries' = entries /\ snap' = snap /\ stale' = stale
      /\ data' = data /\ savedAt' = savedAt /\ ~isCut /\ isCut' = TRUE
  BY DEF Cut, vars
<1>3. image \in Seq(Byte) /\ Len(image) \in Nat
  BY Facts
<1>4. image' \in Seq(Byte) /\ Len(image') = n
  <2>1. n \in 0..Len(image)
    BY <1>3
  <2> QED
    BY <1>1, <1>3, <2>1, CutElements, Zenon
<1>5. Load(image') \in {NotLoaded, Refused}
  <2>1. CASE Len(image) < Width
    <3>1. Len(image') < Width
      BY <1>3, <1>4, <2>1, Widths
    <3> QED
      BY <3>1, ShortImage
  <2>2. CASE ~(Len(image) < Width)
    <3>1. StandsFor(image, snap.map, snap.offset)
      BY <1>2, <2>2 DEF BytesInv, ImageStands
    <3>2. Load(SubSeq(image, 1, n)) \in {NotLoaded, Refused}
      BY <1>3, <3>1, CutImage, Zenon
    <3> QED
      BY <1>1, <3>2, Zenon
  <2> QED
    BY <2>1, <2>2
<1>6. LogInv'
  BY <1>2, Facts, FilesKept DEF LogInv, TypeOK
<1>7. BytesType'
  BY <1>2, <1>4 DEF BytesInv, BytesType
<1>8. LogIsWhole'
  BY <1>2 DEF BytesInv, LogIsWhole
<1>9. SavedBetweenEntries'
  BY <1>2, Facts, FilesKept DEF BytesInv, SavedBetweenEntries
<1>10. ImageStands'
  BY <1>2, <1>5 DEF ImageStands
<1> QED
  BY <1>6, <1>7, <1>8, <1>9, <1>10 DEF BytesInv

\* What a new process loads.
LEMMA LoadedIs ==
  ASSUME BytesInv, Load(image) # Refused
  PROVE  IF isCut THEN Loaded = [map |-> EmptyMap, offset |-> 0] /\ Len(image) < Width
         ELSE Loaded = snap
<1>1. CASE isCut
  <2>1. Load(image) = NotLoaded
    BY <1>1 DEF BytesInv, ImageStands
  <2> QED
    BY <1>1, <2>1, Facts, NotLoadedIsShort DEF Loaded
<1>2. CASE ~isCut /\ Len(image) < Width
  BY <1>2, ShortImage DEF BytesInv, ImageStands, Loaded
<1>3. CASE ~isCut /\ ~(Len(image) < Width)
  <2>1. /\ Load(image) # NotLoaded
        /\ MapOf(Load(image).entries) = snap.map /\ Load(image).offset = snap.offset
    BY <1>3 DEF BytesInv, ImageStands, StandsFor
  <2>2. Loaded = [map |-> snap.map, offset |-> snap.offset]
    BY <2>1 DEF Loaded
  <2> QED
    BY <1>3, <2>2, Facts
<1> QED
  BY <1>1, <1>2, <1>3

\* Replay from the end of an entry reads what was appended behind it.
LEMMA ReplayWhole ==
  ASSUME BytesInv, NEW c \in 0..Len(entries)
  PROVE  /\ ReplayFrom(file, EndOf(c)) = Appended(c, Len(entries))
         /\ Appended(c, Len(entries)) \in Seq(Operation)
         /\ \A n \in 1..Len(Appended(c, Len(entries))) :
              /\ Appended(c, Len(entries))[n] \in Operation
              /\ WithinLimit(Payload(Appended(c, Len(entries))[n]))
<1> DEFINE replayed == Appended(c, Len(entries))
<1>1. /\ LogInv /\ Len(entries) \in c..Len(entries) /\ Len(entries) \in 0..Len(entries)
      /\ \A n \in (c + 1)..Len(entries) : entries[n].what # Torn
      /\ file \in Seq(Byte) /\ EndOf(c) \in Nat
  BY Facts, EntryType
<1>2. replayed \in Seq(Operation)
  BY <1>1, AppendedType
<1>3. ReplayFrom(file, EndOf(c)) = replayed
  <2>1. BeginsLikeTheLog(file, Len(entries))
    BY <1>1, EndsInFile DEF BeginsLikeTheLog
  <2>2. ReplayFrom(file, EndOf(c)) = replayed \o ReplayFrom(file, EndOf(Len(entries)))
    BY <1>1, <2>1, ReplayEntries, Zenon
  <2>3. ReplayFrom(file, EndOf(Len(entries))) = <<>>
    BY <1>1, ReplayEnd
  <2> HIDE DEF replayed
  <2>4. replayed \o <<>> = replayed
    BY <1>2, ConcatEmptySeq
  <2> QED
    BY <2>2, <2>3, <2>4
<1>4. replayed \in Seq(Writable)
  BY <1>1, <1>3, ReplayType
<1> HIDE DEF replayed
<1>5. \A n \in 1..Len(replayed) : replayed[n] \in Operation /\ replayed[n] \in Writable
  BY <1>2, <1>4, ElementOfSeq
<1> QED
  BY <1>2, <1>3, <1>5 DEF replayed, Writable

LEMMA StartedType ==
  ASSUME BytesInv, Load(image) # Refused
  PROVE  Started \in Maps
<1>1. /\ Loaded.map \in Maps
      /\ \E c \in 0..Len(entries) : EndOf(c) = Loaded.offset
  <2>1. CASE isCut
    <3>1. EndOf(0) = 0 /\ 0 \in 0..Len(entries)
      BY Facts DEF EndOf
    <3> QED
      BY <2>1, <3>1, LoadedIs, EmptyMapType
  <2>2. CASE ~isCut
    BY <2>2, LoadedIs, Facts DEF OffsetBetweenEntries
  <2> QED
    BY <2>1, <2>2
<1>2. PICK c \in 0..Len(entries) : EndOf(c) = Loaded.offset
  BY <1>1
<1> DEFINE replayed == ReplayFrom(file, Loaded.offset)
<1>3. /\ Len(replayed) \in Nat
      /\ \A n \in 1..Len(replayed) :
           replayed[n] \in Operation /\ WithinLimit(Payload(replayed[n]))
  <2> DEFINE appended == Appended(c, Len(entries))
  <2>1. /\ replayed = appended /\ appended \in Seq(Operation)
        /\ \A n \in 1..Len(appended) :
             appended[n] \in Operation /\ WithinLimit(Payload(appended[n]))
    BY <1>2, ReplayWhole
  <2> HIDE DEF replayed, appended
  <2> QED
    BY <2>1
<1> HIDE DEF replayed
<1>4. Applied(Loaded.map, replayed) \in Maps
  BY <1>1, <1>3, AppliedType
<1> QED
  BY <1>4 DEF Started, replayed

LEMMA StepBytesRestart ==
  ASSUME BytesInv, BytesRestart
  PROVE  BytesInv'
<1>1. /\ data' = Started /\ snap' = Loaded /\ isCut' = FALSE
      /\ savedAt' = IF isCut THEN 0 ELSE savedAt
      /\ file' = file /\ entries' = entries /\ stale' = stale /\ image' = image
      /\ Load(image) # Refused
  BY DEF BytesRestart
<1>2. IF isCut THEN snap' = [map |-> EmptyMap, offset |-> 0] /\ Len(image) < Width
      ELSE snap' = snap
  BY <1>1, LoadedIs
<1>3. snap' \in [map: Maps, offset: Nat] /\ snap'.offset \in Nat
  <2>1. CASE isCut
    BY <1>2, <2>1, EmptyMapType
  <2>2. CASE ~isCut
    BY <1>2, <2>2, Facts
  <2> QED
    BY <2>1, <2>2
<1>4. LogInv'
  BY <1>1, <1>3, Facts, FilesKept DEF LogInv, TypeOK
<1>5. BytesType'
  <2>1. data' \in Maps
    BY <1>1, StartedType
  <2> QED
    BY <1>1, <1>3, <2>1, Facts DEF BytesType
<1>6. LogIsWhole'
  BY <1>1 DEF BytesInv, LogIsWhole
<1>7. \A n \in 0..Len(entries) : EndOf(n)' = EndOf(n)
  BY <1>1, Facts, FilesKept
<1>8. SavedBetweenEntries'
  <2>1. CASE isCut
    <3>1. EndOf(0) = 0 /\ 0 \in 0..Len(entries)
      BY Facts DEF EndOf
    <3> QED
      BY <1>1, <1>2, <1>7, <2>1, <3>1 DEF SavedBetweenEntries
  <2>2. CASE ~isCut
    BY <1>1, <1>2, <1>7, <2>2 DEF BytesInv, SavedBetweenEntries
  <2> QED
    BY <2>1, <2>2
<1>9. ImageStands'
  BY <1>1, <1>2 DEF BytesInv, ImageStands
<1> QED
  BY <1>4, <1>5, <1>6, <1>8, <1>9 DEF BytesInv

LEMMA BytesStep == BytesInv /\ [BytesNext]_bytesVars => BytesInv'
<1> SUFFICES ASSUME BytesInv, [BytesNext]_bytesVars PROVE BytesInv'
  OBVIOUS
<1>1. CASE BytesWrite
  BY <1>1, StepBytesWrite
<1>2. CASE BytesSave
  BY <1>2, StepBytesSave
<1>3. CASE LegacySave
  BY <1>3, StepLegacySave
<1>4. CASE BytesClear
  BY <1>4, StepBytesClear
<1>5. CASE Cut
  BY <1>5, StepCut
<1>6. CASE BytesRestart
  BY <1>6, StepBytesRestart
<1>7. CASE UNCHANGED bytesVars
  <2>1. UNCHANGED <<file, snap, data, entries, stale, image, isCut, savedAt>>
    BY <1>7 DEF bytesVars, vars
  <2>2. LogInv'
    BY <2>1, Facts, FilesKept DEF LogInv, TypeOK
  <2>3. BytesType' /\ LogIsWhole' /\ ImageStands'
    BY <2>1 DEF BytesInv, BytesType, LogIsWhole, ImageStands
  <2>4. SavedBetweenEntries'
    BY <2>1, Facts, FilesKept DEF BytesInv, SavedBetweenEntries
  <2> QED
    BY <2>2, <2>3, <2>4 DEF BytesInv
<1> QED
  BY <1>1, <1>2, <1>3, <1>4, <1>5, <1>6, <1>7 DEF BytesNext

----------------------------------------------------------------------------
\* What a snapshot that was saved whole loads as.
LEMMA SavedLoads ==
  ASSUME BytesInv
  PROVE  SavedSnapshotLoads
<1> SUFFICES ASSUME ~isCut PROVE Load(image) # Refused
  BY DEF SavedSnapshotLoads
<1>1. CASE Len(image) < Width
  BY <1>1, ShortImage, OutcomesAssumption
<1>2. CASE ~(Len(image) < Width)
  BY <1>2 DEF BytesInv, ImageStands, StandsFor
<1> QED
  BY <1>1, <1>2

\* The log of a cut snapshot makes up for it.
LEMMA CutIsMadeUpFor ==
  ASSUME BytesInv, LogCoversSnapshot, Loaded = [map |-> EmptyMap, offset |-> 0]
  PROVE  Started = Recovered
<1>1. PICK m \in 0..Len(entries) : EndOf(m) = savedAt
  BY DEF BytesInv, SavedBetweenEntries
<1> DEFINE prefix == SubSeq(file, 1, savedAt)
           covered == Appended(0, m)
           rest == ReplayFrom(file, savedAt)
<1>2. /\ LogInv /\ file \in Seq(Byte) /\ EndOf(0) = 0 /\ 0 \in 0..Len(entries)
      /\ m \in 0..Len(entries) /\ \A n \in (0 + 1)..m : entries[n].what # Torn
      /\ savedAt \in Nat /\ savedAt <= Len(file)
  BY <1>1, Facts, EntryType, EndsInFile DEF EndOf
<1>3. ReplayFrom(file, 0) = covered \o rest
  <2>1. BeginsLikeTheLog(file, m)
    BY <1>1, <1>2 DEF BeginsLikeTheLog
  <2>2. ReplayFrom(file, EndOf(0)) = covered \o ReplayFrom(file, EndOf(m))
    BY <1>2, <2>1, ReplayEntries, Zenon
  <2> QED
    BY <1>1, <1>2, <2>2, Zenon
<1>4. covered \in Seq(Operation)
  BY <1>2, AppendedType
<1>5. rest \in Seq(Operation)
  BY <1>1, ReplayWhole
<1>6. ReplayFrom(prefix, 0) = covered
  <2>1. prefix \in Seq(Byte) /\ Len(prefix) = savedAt /\ \A i \in 1..savedAt : prefix[i] = file[i]
    <3>1. savedAt \in 0..Len(file)
      BY <1>2
    <3> QED
      BY <1>2, <3>1, CutElements, Zenon
  <2> HIDE DEF prefix
  <2>2. BeginsLikeTheLog(prefix, m)
    BY <1>1, <1>2, <2>1 DEF BeginsLikeTheLog
  <2>3. ReplayFrom(prefix, EndOf(0)) = covered \o ReplayFrom(prefix, EndOf(m))
    BY <1>2, <2>2, ReplayEntries, Zenon
  <2>4. ReplayFrom(prefix, savedAt) = <<>>
    BY <1>2, <2>1, ReplayAtEnd
  <2> HIDE DEF covered
  <2>5. covered \o <<>> = covered
    BY <1>4, ConcatEmptySeq
  <2> QED
    BY <1>1, <1>2, <2>3, <2>4, <2>5, Zenon
<1> HIDE DEF prefix, covered, rest
<1>7. Applied(EmptyMap, covered) = snap.map
  BY <1>6 DEF LogCoversSnapshot, prefix
<1>8. Started = Applied(EmptyMap, covered \o rest)
  BY <1>3 DEF Started
<1>9. \A map : Applied(map, covered \o rest) = Applied(Applied(map, covered), rest)
  <2> SUFFICES ASSUME NEW map
               PROVE  Applied(map, covered \o rest) = Applied(Applied(map, covered), rest)
    OBVIOUS
  <2> QED
    BY <1>4, <1>5, AppliedConcat
<1>10. Started = Applied(snap.map, rest)
  BY <1>7, <1>8, <1>9
<1>11. CASE snap.offset = savedAt
  BY <1>10, <1>11 DEF Recovered, RecoveredFrom, rest
<1>12. CASE snap.offset = 0
  <2>1. Recovered = Applied(Applied(snap.map, covered), rest)
    BY <1>3, <1>9, <1>12 DEF Recovered, RecoveredFrom
  <2>2. Applied(snap.map, covered) = snap.map
    <3>1. IsMap(EmptyMap)
      BY DEF IsMap, EmptyMap
    <3> QED
      BY <1>4, <1>7, <3>1, AppliedTwice
  <2> QED
    BY <1>10, <2>1, <2>2
<1> QED
  BY <1>11, <1>12 DEF BytesInv, SavedBetweenEntries

LEMMA Rebuilds ==
  ASSUME BytesInv
  PROVE  StartupRebuilds
<1> SUFFICES ASSUME Load(image) # Refused, ~isCut \/ LogCoversSnapshot
             PROVE  Started = Recovered
  BY DEF StartupRebuilds
<1>1. CASE ~isCut
  BY <1>1, LoadedIs DEF Started, Recovered, RecoveredFrom
<1>2. CASE isCut
  BY <1>2, LoadedIs, CutIsMadeUpFor
<1> QED
  BY <1>1, <1>2

----------------------------------------------------------------------------
\* The snapshot file's bytes are those of its map and offset and of no others,
\* or a part of them that does not load, and the offset lies behind the
\* record that was the log's last one (Snapshot::Save, KVStore::SaveSnapshot).
THEOREM BytesInvTheorem == BytesSpec => []BytesInv
  BY InitBytes, BytesStep, PTL DEF BytesSpec

\* A snapshot that was saved whole loads (Snapshot::Load).
THEOREM SavedTheorem == BytesSpec => []SavedSnapshotLoads
  BY BytesInvTheorem, SavedLoads, PTL

\* Startup rebuilds from the bytes the map that snapshot and log stand for, also
\* from a snapshot that lost its end and a log that has everything (main's
\* startup).
THEOREM StartupTheorem == BytesSpec => []StartupRebuilds
  BY BytesInvTheorem, Rebuilds, PTL
=============================================================================

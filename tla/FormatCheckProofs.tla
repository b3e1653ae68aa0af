-------------------------- MODULE FormatCheckProofs --------------------------
(***************************************************************************)
(* What WalFormatCheck and SnapshotFormatCheck say of the files that TLC   *)
(* enumerates, for every base and width of their bytes, every limit and    *)
(* files of any length.                                                    *)
(***************************************************************************)
EXTENDS SnapshotFormatCheck, FormatProofs

\* The file of the runs is a sequence of bytes.
LEMMA FileType == Spec => [](file \in Seq(Byte))
<1>1. Init => file \in Seq(Byte)
  BY DEF Init
<1>2. file \in Seq(Byte) /\ [Grow]_file => (file \in Seq(Byte))'
  BY DEF Grow
<1> QED
  BY <1>1, <1>2, PTL DEF Spec

\* ParserInvertsWriter for a file of any bytes.
LEMMA ParserInverts == file \in Seq(Byte) => ParserInvertsWriter
<1> SUFFICES ASSUME file \in Seq(Byte)
             PROVE  ParserInvertsWriter
  OBVIOUS
<1>1. \A n \in 0..Len(file) :
        SubSeq(file, 1, n) \in Seq(Byte) /\ SubSeq(file, n + 1, Len(file)) \in Seq(Byte)
  OBVIOUS
<1>2. ASSUME NEW operation \in Operations
      PROVE  operation \in Record
  <2>1. CASE operation = [op |-> DeleteOp, key |-> file]
    BY <2>1 DEF Record
  <2>2. CASE \E n \in 0..Len(file) :
               operation = [op |-> SetOp, key |-> SubSeq(file, 1, n),
                            value |-> SubSeq(file, n + 1, Len(file))]
    <3>1. PICK n \in 0..Len(file) :
                 operation = [op |-> SetOp, key |-> SubSeq(file, 1, n),
                              value |-> SubSeq(file, n + 1, Len(file))]
      BY <2>2
    <3> DEFINE key == SubSeq(file, 1, n)
               value == SubSeq(file, n + 1, Len(file))
    <3>2. /\ operation = [op |-> SetOp, key |-> key, value |-> value]
          /\ key \in Seq(Byte) /\ value \in Seq(Byte)
      BY <1>1, <3>1
    <3> HIDE DEF key, value
    <3> QED
      BY <3>2 DEF Record
  <2> QED
    BY <2>1, <2>2 DEF Operations
<1> QED
  BY <1>2, ParsesPayload, ParsedIsEncoded DEF ParserInvertsWriter

\* The parser accepts a payload just when a writer produces it, and reads the
\* operation that was written, for payloads of any length (apply_record
\* against AppendSet and AppendDelete).
THEOREM ParserTheorem == Spec => []ParserInvertsWriter
  BY FileType, ParserInverts, PTL

\* A crash cuts off a tail of the file, and with it a tail of the operations:
\* what is read from the shorter file is read from the longer one, in the same
\* order (ReplayFrom stops, it never reads on behind a cut).
THEOREM CutTheorem == Spec => CutLosesOnlyTheTail
<1>1. file \in Seq(Byte) /\ [Grow]_file =>
        [\A offset \in 0..Len(file) :
           IsPrefix(ReplayFrom(file, offset), ReplayFrom(file', offset))]_file
  <2> SUFFICES ASSUME file \in Seq(Byte), Grow, NEW offset \in 0..Len(file)
               PROVE  IsPrefix(ReplayFrom(file, offset), ReplayFrom(file', offset))
    OBVIOUS
  <2>1. PICK b \in Byte : file' = Append(file, b)
    BY DEF Grow
  <2>2. <<b>> \in Seq(Byte) /\ file' = file \o <<b>> /\ offset \in Nat
    BY <2>1
  <2> QED
    BY <2>2, ReplayLonger, Zenon
<1> QED
  BY <1>1, FileType, PTL DEF Spec, CutLosesOnlyTheTail

\* A payload within the limit is passed over as a whole, whatever it holds and
\* however long it is: the records behind it are still found (DESIGN.md:60).
THEOREM GarbageTheorem == Spec => []FramedGarbageIsSkipped
<1>1. file \in Seq(Byte) => FramedGarbageIsSkipped
  <2> SUFFICES ASSUME file \in Seq(Byte), WithinLimit(file)
               PROVE  ReplayFrom(Frame(file) \o Frame(DeletePayload(<<1>>)), 0)
                        = ReplayFrom(Frame(file), 0)
                            \o ReplayFrom(Frame(DeletePayload(<<1>>)), 0)
    BY DEF FramedGarbageIsSkipped
  <2>1. <<1>> \in Seq(Byte)
    BY BytesAssumption DEF Byte
  <2> DEFINE next == Frame(DeletePayload(<<1>>))
  <2>2. next \in Seq(Byte)
    BY <2>1, DeletePayloadType, FrameType
  <2> HIDE DEF next
  <2> DEFINE first == Frame(file)
             both == first \o next
  <2>3. first \in Seq(Byte) /\ Len(first) \in Nat
    BY FrameType
  <2>4. Holds(first, 0, first)
    BY <2>3, HoldsAll
  <2>5. both \in Seq(Byte)
    BY <2>2, <2>3, ConcatProperties, Zenon
  <2>6. Holds(both, 0, first)
    BY <2>2, <2>3, <2>4, HeldLonger
  <2>7. ReplayFrom(both, 0)
          = Records(ParseRecord(file)) \o ReplayFrom(both, 0 + Len(first))
    BY <2>5, <2>6, ReplayFrame
  <2>8. ReplayFrom(both, Len(first) + 0) = ReplayFrom(next, 0)
    BY <2>2, <2>3, ReplayBehind
  <2>9. 0 + Len(first) = Len(first) + 0
    BY <2>3
  <2>10. ReplayFrom(first, 0) = Records(ParseRecord(file))
    BY ReplayFramed
  <2> HIDE DEF both, first
  <2>11. ReplayFrom(both, 0) = ReplayFrom(first, 0) \o ReplayFrom(next, 0)
    BY <2>7, <2>8, <2>9, <2>10
  <2> QED
    BY <2>11 DEF both, first, next
<1> QED
  BY <1>1, FileType, PTL

\* Writer and reader agree on the limit, whatever it is: a record that the
\* writer accepts is replayed, one that it refuses would not be (wal.cpp:28).
THEOREM LimitsTheorem == Spec => []LimitsAligned
<1>1. file \in Seq(Byte) => LimitsAligned
  <2> SUFFICES ASSUME file \in Seq(Byte), ParseRecord(file) # Malformed
               PROVE  WithinLimit(file)
                        <=> ReplayFrom(Frame(file), 0) = <<ParseRecord(file)>>
    BY DEF LimitsAligned
  <2>1. ASSUME WithinLimit(file)
        PROVE  ReplayFrom(Frame(file), 0) = <<ParseRecord(file)>>
    BY <2>1, ReplayFramed DEF Records
  <2>2. ASSUME ReplayFrom(Frame(file), 0) = <<ParseRecord(file)>>
        PROVE  WithinLimit(file)
    <3>1. <<ParseRecord(file)>> \in Seq(Writable)
      BY <2>2, FrameType, ReplayType
    <3> DEFINE parsed == <<ParseRecord(file)>>
    <3>2. 1 \in 1..Len(parsed) /\ parsed[1] = ParseRecord(file)
      OBVIOUS
    <3> HIDE DEF parsed
    <3>3. ParseRecord(file) \in Writable
      BY <3>1, <3>2, ElementOfSeq DEF parsed
    <3> QED
      BY <3>3, ParsedIsEncoded DEF Writable
  <2> QED
    BY <2>1, <2>2
<1> QED
  BY <1>1, FileType, PTL

LEMMA PrefixHeld ==
  ASSUME NEW bytes \in Seq(Byte), NEW string \in Seq(Byte), Holds(bytes, 0, string)
  PROVE  IsPrefix(string, bytes)
<1>1. Len(string) <= Len(bytes) /\ \A i \in 1..Len(string) : string[i] = bytes[i]
  BY Len(string) \in Nat DEF Holds
<1> QED
  BY <1>1, PrefixElements

\* What loads as a snapshot was written as one, in the present or the legacy
\* layout, up to bytes behind the last entry (Snapshot::Load against Save).
THEOREM WrittenTheorem == Spec => []OnlyWrittenFilesLoad
<1>1. file \in Seq(Byte) => OnlyWrittenFilesLoad
  <2> SUFFICES ASSUME file \in Seq(Byte), Load(file) \notin {NotLoaded, Refused}
               PROVE  IF IsCurrent(file)
                      THEN IsPrefix(Saved(Load(file).entries, Load(file).offset), file)
                      ELSE /\ Load(file).offset = 0
                           /\ IsPrefix(SavedLegacy(Load(file).entries), file)
    BY DEF OnlyWrittenFilesLoad
  <2> DEFINE content == Load(file)
  <2>1. content \in Content /\ Stands(file, content)
    BY LoadRead
  <2> HIDE DEF content
  <2>2. WrittenAs(file, content) \in Seq(Byte) /\ Holds(file, 0, WrittenAs(file, content))
    BY <2>1, StandsWritten
  <2>3. IsPrefix(WrittenAs(file, content), file)
    BY <2>2, PrefixHeld
  <2>4. IF IsCurrent(file)
        THEN IsPrefix(Saved(content.entries, content.offset), file)
        ELSE content.offset = 0 /\ IsPrefix(SavedLegacy(content.entries), file)
    BY <2>1, <2>3 DEF Stands, WrittenAs
  <2> QED
    BY <2>4 DEF content
<1> QED
  BY <1>1, FileType, PTL

\* A snapshot file that lost its end, wherever it was cut, does not load, or it
\* loads as the whole file does (Snapshot::Load throws at a short field).
THEOREM SnapshotCutTheorem == Spec => CutNeverMisleads
<1>1. file \in Seq(Byte) /\ [Grow]_file =>
        [Load(file) \notin {NotLoaded, Refused} => Load(file') = Load(file)]_file
  <2> SUFFICES ASSUME file \in Seq(Byte), Grow, Load(file) \notin {NotLoaded, Refused}
               PROVE  Load(file') = Load(file)
    OBVIOUS
  <2>1. PICK b \in Byte : file' = Append(file, b)
    BY DEF Grow
  <2>2. <<b>> \in Seq(Byte) /\ file' = file \o <<b>>
    BY <2>1
  <2> DEFINE content == Load(file)
             longer == file'
             tail == <<b>>
  <2>3. content \in Content /\ Stands(file, content) /\ tail \in Seq(Byte)
        /\ longer = file \o tail
    BY <2>2, LoadRead
  <2> HIDE DEF content, longer, tail
  <2>4. longer \in Seq(Byte) /\ Stands(longer, content)
    BY <2>3, StandsLonger
  <2>5. Load(longer) = content
    BY <2>3, <2>4, LoadHeld
  <2> QED
    BY <2>5 DEF longer, content
<1> QED
  BY <1>1, FileType, PTL DEF Spec, CutNeverMisleads
=============================================================================

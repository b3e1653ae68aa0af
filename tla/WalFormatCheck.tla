--------------------------- MODULE WalFormatCheck ---------------------------
(***************************************************************************)
(* Every file up to a length, grown byte by byte, so that the format is    *)
(* checked on whatever a crash, another program or a fault of the disk may *)
(* leave behind and not only on what the writer means to write.            *)
(***************************************************************************)
EXTENDS WalFormat, SequencesExt

CONSTANT MaxFile \* bound: length of the longest file

VARIABLE file

Init == file = <<>>

\* The next byte reaches the file.
Grow ==
  /\ Len(file) < MaxFile
  /\ \E b \in Byte : file' = Append(file, b)

Spec == Init /\ [][Grow]_file

\* The operations on the strings that the file's bytes make up.
Operations ==
  {[op |-> DeleteOp, key |-> file]} \cup
  {[op |-> SetOp, key |-> SubSeq(file, 1, n),
    value |-> SubSeq(file, n + 1, Len(file))] : n \in 0..Len(file)}

\* The parser accepts a payload just when a writer produces it, and reads the
\* operation that was written: no other bytes have a meaning (apply_record
\* against AppendSet and AppendDelete).
ParserInvertsWriter ==
  /\ ParseRecord(file) # Malformed => Payload(ParseRecord(file)) = file
  /\ \A operation \in Operations :
       WithinLimit(Payload(operation))
         => ParseRecord(Payload(operation)) = operation

\* A crash cuts off a tail of the file, and with it a tail of the operations:
\* what is read from the shorter file is read from the longer one, in the same
\* order (ReplayFrom stops, it never reads on behind a cut).
CutLosesOnlyTheTail ==
  [][\A offset \in 0..Len(file) :
       IsPrefix(ReplayFrom(file, offset), ReplayFrom(file', offset))]_file

\* A payload within the limit is passed over as a whole, whatever it holds:
\* the records behind it are still found (DESIGN.md:60, "Malformed records are
\* skipped when they are fully framed").
FramedGarbageIsSkipped ==
  WithinLimit(file) =>
    LET next == Frame(DeletePayload(<<1>>))
        alone == ReplayFrom(Frame(file), 0)
    IN  ReplayFrom(Frame(file) \o next, 0) = alone \o ReplayFrom(next, 0)

\* Writer and reader agree on the limit: a record that the writer accepts is
\* replayed, one that it refuses would not be (wal.cpp:28, "if we will not
\* replay it, do not write it").
LimitsAligned ==
  ParseRecord(file) # Malformed =>
    (WithinLimit(file) <=> ReplayFrom(Frame(file), 0) = <<ParseRecord(file)>>)
=============================================================================

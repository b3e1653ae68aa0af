--------------------------- MODULE SnapshotFormat ---------------------------
(***************************************************************************)
(* The bytes of a snapshot file, in the layout that Save writes and in the *)
(* legacy one without magic number, version and offset.  The byte and the  *)
(* length field are those of WalFormat.                                    *)
(***************************************************************************)
EXTENDS WalFormat

CONSTANTS
  OffsetWidth,             \* sizeof(wal_offset)
  kSnapshotMagic,          \* first field of the current layout
  kSnapshotVersion,
  kMaxSnapshotFieldLength, \* longest key or value that is loaded
  NotLoaded,               \* Load's outcome without a readable first field
  Refused                  \* Load throws

ASSUME SnapshotAssumption ==
  /\ OffsetWidth \in Nat \ {0}
  /\ Fits(kSnapshotMagic, Width) /\ Fits(kSnapshotVersion, Width)
  /\ Fits(kMaxSnapshotFieldLength, Width)

ASSUME OutcomesAssumption ==
  /\ NotLoaded # Refused
  /\ {NotLoaded, Refused} \cap [entries: Seq(Seq(Byte) \X Seq(Byte)), offset: Nat] = {}

\* Entries are pairs of key and value in the order of the file.
write_entries(entries) ==
  LET upTo[n \in 0..Len(entries)] ==
        IF n = 0 THEN <<>>
        ELSE upTo[n - 1] \o Sized(entries[n][1]) \o Sized(entries[n][2])
  IN  upTo[Len(entries)]

\* What Save writes for a map whose entries come in this order.
Saved(entries, offset) ==
  Length(kSnapshotMagic) \o Length(kSnapshotVersion)
    \o Primitive(offset, OffsetWidth)
    \o Length(Len(entries)) \o write_entries(entries)

SavedLegacy(entries) == Length(Len(entries)) \o write_entries(entries)

IsCurrent(file) == LengthAt(file, 0) = kSnapshotMagic

\* Bytes in front of the entries; the last of them are the entry count.
HeaderLength(file) ==
  IF IsCurrent(file) THEN 3 * Width + OffsetWidth ELSE Width

\* Mutant of HeaderReadable: any version will do.
HeaderUnchecked(file) == Len(file) >= HeaderLength(file)

HeaderReadable(file) ==
  /\ Len(file) >= HeaderLength(file)
  /\ IsCurrent(file) => LengthAt(file, Width) = kSnapshotVersion

\* Where the sized string behind the first at bytes ends, 0 if it is longer
\* than the limit or than the file.
FieldEnd(file, at) ==
  LET end == at + Width + LengthAt(file, at)
  IN  IF /\ at + Width <= Len(file)
         /\ LengthAt(file, at) <= kMaxSnapshotFieldLength
         /\ end <= Len(file)
      THEN end ELSE 0

\* Where the entry behind at ends, 0 if read_entry fails on it.
read_entry(file, at) ==
  LET keyEnd == FieldEnd(file, at)
  IN  IF keyEnd = 0 THEN 0 ELSE FieldEnd(file, keyEnd)

EntryAt(file, at) ==
  LET keyEnd == FieldEnd(file, at)
  IN  <<SubSeq(file, at + Width + 1, keyEnd),
        SubSeq(file, keyEnd + Width + 1, FieldEnd(file, keyEnd))>>

\* loaded[key] = value, in the order of the entries.
MapOf(entries) ==
  Applied(EmptyMap, [n \in 1..Len(entries) |->
                       [op |-> SetOp, key |-> entries[n][1], value |-> entries[n][2]]])

\* Mutant of Load: the entries in front of a short one are loaded.
LoadUpToTheCut(file) ==
  LET header == HeaderLength(file)
      count == LengthAt(file, header - Width)
      end[n \in 0..count] ==
        IF n = 0 THEN header
        ELSE IF end[n - 1] = 0 THEN 0 ELSE read_entry(file, end[n - 1])
      Readable == {n \in 1..count : end[n] # 0}
  IN  IF Len(file) < Width THEN NotLoaded
      ELSE IF ~HeaderReadable(file) THEN Refused
      ELSE [entries |-> [n \in Readable |-> EntryAt(file, end[n - 1])],
            offset |-> IF IsCurrent(file)
                       THEN PrimitiveAt(file, 2 * Width, OffsetWidth) ELSE 0]

(***************************************************************************)
(* Snapshot::Load.  A file too short for its first field is like no file;  *)
(* an unreadable header or entry throws, whichever way it is unreadable;   *)
(* bytes behind the last entry are not looked at.                          *)
(***************************************************************************)
Load(file) ==
  LET header == HeaderLength(file)
      count == LengthAt(file, header - Width)
      \* where the n-th entry ends
      end[n \in 0..count] ==
        IF n = 0 THEN header
        ELSE IF end[n - 1] = 0 THEN 0 ELSE read_entry(file, end[n - 1])
  IN  IF Len(file) < Width THEN NotLoaded
      ELSE IF ~HeaderReadable(file) \/ end[count] = 0 THEN Refused
      ELSE [entries |-> [n \in 1..count |-> EntryAt(file, end[n - 1])],
            offset |-> IF IsCurrent(file)
                       THEN PrimitiveAt(file, 2 * Width, OffsetWidth) ELSE 0]
=============================================================================

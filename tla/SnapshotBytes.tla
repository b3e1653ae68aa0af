--------------------------- MODULE SnapshotBytes ---------------------------
(***************************************************************************)
(* WriteAheadLog with the snapshot file as bytes too: what startup makes   *)
(* of a file that Save wrote, that an older version of the program wrote,  *)
(* or that lost its end (a disk fault: Save itself renames whole files).   *)
(* snap keeps the map and offset that the file stands for.                 *)
(***************************************************************************)
EXTENDS WriteAheadLog, SnapshotFormat

\* The code counts a map's entries in a length field and an offset in eight
\* bytes.  A legacy snapshot starts with the count, so a map of as many entries
\* as the magic number says would be taken for a present one.
ASSUME SizesAssumption ==
  /\ IsFiniteSet(Keys) /\ Cardinality(Keys) < kSnapshotMagic
  /\ kMaxRecordLength <= kMaxSnapshotFieldLength
  /\ MaxEntries \in Nat /\ Fits(MaxEntries * (Width + kMaxRecordLength), OffsetWidth)

VARIABLES
  image,   \* bytes of the snapshot file, <<>> without one
  isCut,   \* history: the image lost its end
  savedAt  \* history: the log's length when the snapshot was saved

bytesVars == <<vars, image, isCut, savedAt>>

\* The entries of a map, in any order that an unordered_map may have.
EntriesOf(map) ==
  {[i \in DOMAIN keys |-> <<keys[i], map[keys[i]]>>] :
     keys \in SetToSeqs(DOMAIN map)}

\* Mutant of Loaded: without an offset nothing is replayed.
LoadedAtTheEnd ==
  LET result == Load(image)
  IN  IF result = NotLoaded THEN [map |-> EmptyMap, offset |-> Len(file)]
      ELSE [map |-> MapOf(result.entries), offset |-> result.offset]

\* The map and offset that startup goes on with, unless Load throws.
Loaded ==
  LET result == Load(image)
  IN  IF result = NotLoaded THEN [map |-> EmptyMap, offset |-> 0]
      ELSE [map |-> MapOf(result.entries), offset |-> result.offset]

Started == Applied(Loaded.map, ReplayFrom(file, Loaded.offset))

BytesInit == Init /\ image = <<>> /\ isCut = FALSE /\ savedAt = 0

BytesWrite ==
  /\ \E operation \in Operation : Write(operation)
  /\ UNCHANGED <<image, isCut, savedAt>>

BytesSave ==
  /\ SaveSnapshot
  /\ \E pairs \in EntriesOf(data) : image' = Saved(pairs, Len(file))
  /\ isCut' = FALSE /\ savedAt' = Len(file)

\* A version of the program that knew no offsets saved the snapshot.
LegacySave ==
  /\ snap' = [map |-> data, offset |-> 0]
  /\ \E pairs \in EntriesOf(data) : image' = SavedLegacy(pairs)
  /\ isCut' = FALSE /\ savedAt' = Len(file)
  /\ UNCHANGED <<file, data, acked, entries, stale, atRisk>>

BytesClear ==
  /\ ClearPersistence
  /\ image' = <<>> /\ isCut' = FALSE /\ savedAt' = 0

Cut ==
  /\ ~isCut
  /\ \E n \in 0..(Len(image) - 1) : image' = SubSeq(image, 1, n)
  /\ isCut' = TRUE
  /\ UNCHANGED <<vars, savedAt>>

\* A new process; it ends at once when Load throws.
BytesRestart ==
  /\ Load(image) # Refused
  /\ data' = Started
  /\ snap' = Loaded /\ isCut' = FALSE
  /\ savedAt' = IF isCut THEN 0 ELSE savedAt
  /\ UNCHANGED <<file, acked, entries, stale, atRisk, image>>

BytesNext ==
  \/ BytesWrite \/ BytesSave \/ LegacySave \/ BytesClear \/ Cut \/ BytesRestart

BytesSpec == BytesInit /\ [][BytesNext]_bytesVars

----------------------------------------------------------------------------
\* The log alone would rebuild the snapshot.  It would not when the map
\* outlived a CLEAR PERSISTENCE in memory and was saved after it.
LogCoversSnapshot ==
  Applied(EmptyMap, ReplayFrom(SubSeq(file, 1, savedAt), 0)) = snap.map

\* A snapshot that was saved whole loads, in the present and in the legacy
\* layout: the log's limit keeps out every string that read_entry would refuse.
SavedSnapshotLoads == isCut \/ Load(image) # Refused

\* Startup rebuilds from the bytes the map that snapshot and log stand for.  A
\* cut snapshot stops startup or is as good as absent, and then the log makes
\* up for it (snapshot.cpp:157, "recovery safely falls back to full WAL
\* replay", is about the legacy layout and holds for it too).
StartupRebuilds ==
  \/ Load(image) = Refused
  \/ Started = Recovered
  \/ isCut /\ ~LogCoversSnapshot

----------------------------------------------------------------------------
(***************************************************************************)
(* The inductive invariant: what the image holds, whole or cut, and where  *)
(* in the log the snapshot was saved.                                      *)
(***************************************************************************)
Recordable(strings) == {string \in strings : Len(string) <= kMaxRecordLength}

Maps == UNION {[keys -> Recordable(Values)] : keys \in SUBSET Recordable(Keys)}

\* The bytes are those of a snapshot of the map and offset, and no others.
StandsFor(bytes, map, offset) ==
  LET result == Load(bytes)
  IN  /\ result \notin {NotLoaded, Refused}
      /\ MapOf(result.entries) = map /\ result.offset = offset
      /\ bytes = IF IsCurrent(bytes) THEN Saved(result.entries, offset)
                                     ELSE SavedLegacy(result.entries)

ImageStands ==
  IF isCut THEN Load(image) \in {NotLoaded, Refused}
  ELSE IF Len(image) < Width THEN snap = [map |-> EmptyMap, offset |-> 0]
  ELSE StandsFor(image, snap.map, snap.offset)

SavedBetweenEntries ==
  /\ snap.offset \in {0, savedAt}
  /\ \E n \in 0..Len(entries) : EndOf(n) = savedAt

LogIsWhole ==
  /\ ~stale /\ \A n \in 1..Len(entries) : entries[n].what # Torn
  /\ Len(entries) <= MaxEntries
  /\ Len(file) <= Len(entries) * (Width + kMaxRecordLength)

BytesType ==
  /\ image \in Seq(Byte) /\ isCut \in BOOLEAN
  /\ data \in Maps /\ snap \in [map: Maps, offset: Nat]

BytesInv ==
  LogInv /\ BytesType /\ LogIsWhole /\ SavedBetweenEntries /\ ImageStands
=============================================================================

------------------------ MODULE SnapshotFormatCheck ------------------------
(***************************************************************************)
(* Snapshot files grown byte by byte, as WalFormatCheck grows logs.        *)
(***************************************************************************)
EXTENDS WalFormatCheck, SnapshotFormat

\* Load accepts only what a writer of either layout could have written, apart
\* from bytes behind the last entry, and reads the entries and the offset that
\* were written (Snapshot::Load against Save and the legacy layout).
OnlyWrittenFilesLoad ==
  LET result == Load(file)
  IN  result \notin {NotLoaded, Refused} =>
        IF IsCurrent(file)
        THEN IsPrefix(Saved(result.entries, result.offset), file)
        ELSE result.offset = 0 /\ IsPrefix(SavedLegacy(result.entries), file)

\* A file that loads still loads the same when bytes are added.  Read the other
\* way: whatever a cut leaves of a snapshot file, it never loads as another map
\* (Load throws at the first short field, "failed to load snapshot").
CutNeverMisleads ==
  [][Load(file) \notin {NotLoaded, Refused} => Load(file') = Load(file)]_file
=============================================================================

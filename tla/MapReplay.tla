----------------------------- MODULE MapReplay -----------------------------
(***************************************************************************)
(* The store's map and the records that change it, at the level at which   *)
(* the write-ahead log, the snapshot and the in-memory store share them:   *)
(* std::unordered_map<std::string, std::string> is a total function whose  *)
(* absent keys hold NoValue, and a framed WAL record is a key together     *)
(* with the value it stores (NoValue for DELETE).  The byte format of the  *)
(* records is the subject of WalFormat.                                    *)
(***************************************************************************)
EXTENDS Naturals, Sequences

CONSTANTS
  Key,      \* the keys clients use
  Value,    \* the values clients store
  NoValue,  \* what a map holds at an absent key (std::nullopt of Get)
  Torn,     \* a WAL entry or a file whose bytes were only partly written
  None      \* no record, or no file

ASSUME ValuesAssumption == NoValue \notin Value

Map == [Key -> Value \cup {NoValue}]
EmptyMap == [k \in Key |-> NoValue]

\* A SET record holds a value, a DELETE record the absence of one.
Record == [key: Key, value: Value \cup {NoValue}]
SetRecord(k, v) == [key |-> k, value |-> v]
DeleteRecord(k) == [key |-> k, value |-> NoValue]

ASSUME MarkersAssumption == {Torn, None} \cap Record = {} /\ Torn # None

apply_record(map, r) == [map EXCEPT ![r.key] = r.value]

(***************************************************************************)
(* ReplayFrom applies the records at positions lo+1..hi of a log in order. *)
(* In closed form the newest record of a key decides its value, and a key  *)
(* that no record names keeps the value it had.                            *)
(***************************************************************************)
Writers(log, lo, hi, k) ==
  {i \in (lo + 1)..hi : log[i] # Torn /\ log[i].key = k}

\* The value of the newest writer, as a set of at most one element.
NewestValue(log, lo, hi, k) ==
  LET W == Writers(log, lo, hi, k)
  IN  {log[i].value : i \in {j \in W : \A other \in W : other <= j}}

TheElement(S) == CHOOSE x \in S : TRUE

Replayed(map, log, lo, hi) ==
  [k \in Key |-> IF NewestValue(log, lo, hi, k) = {}
                 THEN map[k]
                 ELSE TheElement(NewestValue(log, lo, hi, k))]
=============================================================================

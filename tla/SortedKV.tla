------------------------------ MODULE SortedKV ------------------------------
(***************************************************************************)
(* The sorted runs an LSM tree is made of, and how they are read together. *)
(*                                                                         *)
(* SortedArray (memtables, transaction write sets) and SortedFile          *)
(* (SSTables) both implement the Go interface SortedKV: a sorted sequence  *)
(* of entries, at most one per key, each a value or a tombstone.  A run is *)
(* modelled by the total function that gives each key its entry, Absent    *)
(* where the run has none.  Only NoDeleted depends on the order of the     *)
(* keys; the modules that use it take the keys to be numbers.              *)
(***************************************************************************)
EXTENDS Naturals, Sequences, FiniteSets

CONSTANTS
  Keys,     \* the keys, byte strings in the code
  Vals,     \* the values
  Tomb,     \* the deleted flag of an entry
  Absent    \* no entry

ASSUME EntryAssumption == Tomb # Absent /\ {Tomb, Absent} \cap Vals = {}

Entry == Vals \cup {Tomb, Absent}

Level == [Keys -> Entry]

EmptyLevel == [k \in Keys |-> Absent]

\* The keys a run holds an entry for.
KeysOf(level) == {k \in Keys : level[k] # Absent}

\* EstimatedSize of a SortedFile and Size of a SortedArray.
SizeOf(level) == Cardinality(KeysOf(level))

\* The result KVTX.Get reports for the entry it found: the value, or Absent when
\* nothing was found or the entry is a tombstone.
LiveValue(e) == IF e \in Vals THEN e ELSE Absent

\* MergedSortedKV{newer, older} read to the end: the newer run shadows the older.
Merge(newer, older) ==
  [k \in Keys |-> IF newer[k] # Absent THEN newer[k] ELSE older[k]]

\* MergedSortedKV.getExact: the entry of the newest run that has one.
GetExact(levels, k) ==
  LET hits == {i \in DOMAIN levels : levels[i][k] # Absent}
  IN  IF hits = {} THEN Absent
      ELSE levels[CHOOSE i \in hits : \A j \in hits : i <= j][k]

\* NoDeletedSortedKV.Iter read to the end.  NoDeletedIter.Next skips tombstones,
\* but the iterator is handed out at its first entry unfiltered, so a tombstone
\* on the smallest key survives.
NoDeleted(level) ==
  [k \in Keys |->
     IF level[k] = Tomb /\ \E j \in KeysOf(level) : j < k THEN Absent ELSE level[k]]
=============================================================================

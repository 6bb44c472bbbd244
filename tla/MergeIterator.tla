---------------------------- MODULE MergeIterator ----------------------------
(***************************************************************************)
(* The iterators of the storage engine (db/merge.go, db/sorted_array.go,   *)
(* db/sorted_file.go, db/kv.go): a cursor over several sorted runs at      *)
(* once, newest run first, that hides tombstones and walks both ways.      *)
(*                                                                         *)
(* A cursor keeps one position per run and the run that currently wins.    *)
(* Positions count from 1; 0 is before the first entry and Size + 1 after  *)
(* the last, the -1 and len(keys) of the code.  Key 0 stands for nil.      *)
(***************************************************************************)
EXTENDS SortedKV, SequencesExt

ASSUME KeysAssumption == Keys \subseteq Nat

\* The p-th key of a run, as SortedArray.keys and the offset index of an SSTable
\* give it.
KeyAt(run, p) ==
  CHOOSE k \in KeysOf(run) : Cardinality({j \in KeysOf(run) : j <= k}) = p

\* slices.BinarySearchFunc and findPos: the position of the first key >= target,
\* by halving [lo, hi).
RECURSIVE FindPos(_, _, _, _)
FindPos(run, target, lo, hi) ==
  LET mid == lo + (hi - lo) \div 2
  IN  IF lo >= hi THEN lo
      ELSE IF target > KeyAt(run, mid) THEN FindPos(run, target, mid + 1, hi)
      ELSE IF target < KeyAt(run, mid) THEN FindPos(run, target, lo, mid)
      ELSE mid

OnEntry(run, p) == p \in 1..SizeOf(run)
StepNext(run, p) == IF p <= SizeOf(run) THEN p + 1 ELSE p
StepPrev(run, p) == IF p >= 1 THEN p - 1 ELSE p

\* Variant: on equal keys the older run wins.
LevelsLowestOldest(levels, pos) ==
  LET on == {i \in DOMAIN levels : OnEntry(levels[i], pos[i])}
      key(i) == KeyAt(levels[i], pos[i])
  IN  IF on = {} THEN 0
      ELSE CHOOSE i \in on : \A j \in on : key(i) < key(j) \/ (key(i) = key(j) /\ i >= j)

\* levelsLowest: of the runs that stand on an entry, the newest one with the
\* smallest key; 0 when no run stands on one.
LevelsLowest(levels, pos) ==
  LET on == {i \in DOMAIN levels : OnEntry(levels[i], pos[i])}
      key(i) == KeyAt(levels[i], pos[i])
  IN  IF on = {} THEN 0
      ELSE CHOOSE i \in on : \A j \in on : key(i) < key(j) \/ (key(i) = key(j) /\ i <= j)

LevelsHighest(levels, pos) ==
  LET on == {i \in DOMAIN levels : OnEntry(levels[i], pos[i])}
      key(i) == KeyAt(levels[i], pos[i])
  IN  IF on = {} THEN 0
      ELSE CHOOSE i \in on : \A j \in on : key(i) > key(j) \/ (key(i) = key(j) /\ i <= j)

CursorValid(it) == it.which # 0
CursorKey(levels, it) ==
  IF CursorValid(it) THEN KeyAt(levels[it.which], it.pos[it.which]) ELSE 0
CursorEntry(levels, it) == levels[it.which][CursorKey(levels, it)]

\* MergedSortedKVIter.Next: every run that is not already past the current key
\* moves on.
MergedNext(levels, it) ==
  LET cur == CursorKey(levels, it)
      pos == [i \in DOMAIN levels |->
                IF ~OnEntry(levels[i], it.pos[i]) \/ cur >= KeyAt(levels[i], it.pos[i])
                THEN StepNext(levels[i], it.pos[i]) ELSE it.pos[i]]
  IN  [pos |-> pos, which |-> LevelsLowest(levels, pos)]

\* MergedSortedKVIter.Prev: every run that is not already before it moves back,
\* which also turns round a cursor that has been moving forward.
MergedPrev(levels, it) ==
  LET cur == CursorKey(levels, it)
      pos == [i \in DOMAIN levels |->
                IF ~OnEntry(levels[i], it.pos[i]) \/ cur <= KeyAt(levels[i], it.pos[i])
                THEN StepPrev(levels[i], it.pos[i]) ELSE it.pos[i]]
  IN  [pos |-> pos, which |-> LevelsHighest(levels, pos)]

\* filterDeleted and filterDeletedBackward: step over tombstones.
RECURSIVE SkipForward(_, _)
SkipForward(levels, it) ==
  IF CursorValid(it) /\ CursorEntry(levels, it) = Tomb
  THEN SkipForward(levels, MergedNext(levels, it)) ELSE it

RECURSIVE SkipBackward(_, _)
SkipBackward(levels, it) ==
  IF CursorValid(it) /\ CursorEntry(levels, it) = Tomb
  THEN SkipBackward(levels, MergedPrev(levels, it)) ELSE it

\* NoDeletedIter.Next and Prev.
CursorNext(levels, it) == SkipForward(levels, MergedNext(levels, it))
CursorPrev(levels, it) == SkipBackward(levels, MergedPrev(levels, it))

\* KVTX.Seek and KVTX.SeekToLast.
CursorSeek(levels, k) ==
  LET pos == [i \in DOMAIN levels |->
                FindPos(levels[i], k, 1, SizeOf(levels[i]) + 1)]
  IN  SkipForward(levels, [pos |-> pos, which |-> LevelsLowest(levels, pos)])

CursorSeekToLast(levels) ==
  LET pos == [i \in DOMAIN levels |-> SizeOf(levels[i])]
  IN  SkipBackward(levels, [pos |-> pos, which |-> LevelsHighest(levels, pos)])

\* rangeScan.open and KVTX.Range: the first key of a scan in either direction.
OpenRange(levels, start, desc) ==
  LET it == CursorSeek(levels, start)
  IN  IF ~desc THEN it
      ELSE IF start = 0 THEN CursorSeekToLast(levels)
      ELSE IF ~CursorValid(it) \/ CursorKey(levels, it) > start
      THEN CursorPrev(levels, it)
      ELSE it
=============================================================================

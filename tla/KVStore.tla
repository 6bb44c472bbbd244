------------------------------- MODULE KVStore -------------------------------
(***************************************************************************)
(* db.KV while it is open: the transactions of KVTransactions reading and  *)
(* writing the levels of the LSM tree, compactions flushing the memtable   *)
(* and merging SSTables beside them, and Close.                            *)
(*                                                                         *)
(* SSTables are numbered by kv.version, as their file names are.  A        *)
(* critical section of kv.mu is one step, a file operation is one step     *)
(* that succeeds or fails, and releasing a reference is one step.  The     *)
(* write-ahead log and crashes are in Recovery.                            *)
(***************************************************************************)
EXTENDS KVTransactions, Integers

CONSTANTS
  LogThreshold,   \* Options.LogThreshold, in entries
  GrowthFactor,   \* Options.GrowthFactor
  AutoCompact,    \* Options.AutoCompact
  MaxVersion,     \* bound on kv.version
  MaxFaults       \* bound on failing file operations of compactions

ASSUME KeysAssumption == Keys \subseteq Nat
ASSUME OptionsAssumption ==
  /\ LogThreshold \in Nat \ {0}
  /\ GrowthFactor \in Nat \ {0, 1}
  /\ AutoCompact \in BOOLEAN
  /\ MaxVersion \in Nat
  /\ MaxFaults \in Nat

Files == 1..MaxVersion

VARIABLES
  \* the levels
  mem, imm, main,            \* kv.mem; kv.imm, <<>> for nil; kv.main
  version,                   \* kv.version
  metaTables,                \* the table list of kv.meta
  \* the SSTables: contents, SortedFile.refs, SortedFile.unlink, open
  \* descriptors, directory entries; and the failures so far
  contents, refs, unlink, fds, disk, faults,
  \* a transaction's snapshot: tx.levels, and the references it holds
  memSnap, immSnap, mainSnap,
  \* compaction: the holder of kv.compact, its place, the two merged levels
  compact, cpc, level, olds,
  \* kv.threads, kv.updated, kv.closing, the background thread and Close
  threads, updated, closing, bgpc, closepc

levelVars   == <<mem, imm, main, version, metaTables>>
fileVars    == <<contents, refs, unlink, fds, disk, faults>>
snapVars    == <<memSnap, immSnap, mainSnap>>
compactVars == <<compact, cpc, level, olds>>
threadVars  == <<threads, updated, closing, bgpc, closepc>>

storeVars == <<txVars, levelVars, fileVars, snapVars, compactVars, threadVars>>

StoreInit ==
  /\ TxInit
  /\ mem = EmptyLevel /\ imm = <<>> /\ main = <<>> /\ version = 0 /\ metaTables = <<>>
  /\ contents = [f \in Files |-> EmptyLevel] /\ refs = [f \in Files |-> 0]
  /\ unlink = {} /\ fds = {} /\ disk = {} /\ faults = 0
  /\ memSnap = [t \in Tx |-> EmptyLevel]
  /\ immSnap = [t \in Tx |-> <<>>]
  /\ mainSnap = [t \in Tx |-> <<>>]
  /\ compact = "nobody" /\ cpc = "idle" /\ level = 0 /\ olds = <<>>
  /\ threads = IF AutoCompact THEN 1 ELSE 0
  /\ updated = FALSE /\ closing = FALSE /\ closepc = "open"
  /\ bgpc = IF AutoCompact THEN "select" ELSE "none"

\* The runs of a list of SSTables.
Tables(files) == [i \in DOMAIN files |-> contents[files[i]]]

Elems(seq) == {seq[i] : i \in DOMAIN seq}

\* tx.levels without tx.updates.
SnapshotLevels(t) == <<memSnap[t]>> \o immSnap[t] \o Tables(mainSnap[t])

\* KVTX.Get.
TxGet(t, k) == LiveValue(GetExact(<<updates[t]>> \o SnapshotLevels(t), k))

\* Variant: a retired table is removed whoever still reads it.
ReleaseEagerly(f) ==
  /\ refs' = [refs EXCEPT ![f] = @ - 1]
  /\ fds' = IF refs[f] = 1 THEN fds \ {f} ELSE fds
  /\ disk' = IF f \in unlink THEN disk \ {f} ELSE disk
  /\ UNCHANGED <<contents, unlink, faults>>

\* SortedFile.release: the last reference closes the file, and removes it if it
\* has been retired.
Release(f) ==
  /\ refs' = [refs EXCEPT ![f] = @ - 1]
  /\ fds' = IF refs[f] = 1 THEN fds \ {f} ELSE fds
  /\ disk' = IF refs[f] = 1 /\ f \in unlink THEN disk \ {f} ELSE disk
  /\ UNCHANGED <<contents, unlink, faults>>

-----------------------------------------------------------------------------
(* Transactions: the steps of KVTransactions with the levels they touch. *)

\* Variant: the snapshot leaves out kv.imm.
StoreNewTXWithoutImm(t) ==
  /\ NewTX(t)
  /\ memSnap' = [memSnap EXCEPT ![t] = mem]
  /\ mainSnap' = [mainSnap EXCEPT ![t] = main]
  /\ refs' = [f \in Files |-> IF f \in Elems(main) THEN refs[f] + 1 ELSE refs[f]]
  /\ threads' = threads + 1
  /\ UNCHANGED <<levelVars, contents, unlink, fds, disk, faults, immSnap, compactVars,
                 updated, closing, bgpc, closepc>>

\* NewTX copies kv.mem, kv.imm and kv.main and acquires every table.
StoreNewTX(t) ==
  /\ NewTX(t)
  /\ memSnap' = [memSnap EXCEPT ![t] = mem]
  /\ immSnap' = [immSnap EXCEPT ![t] = imm]
  /\ mainSnap' = [mainSnap EXCEPT ![t] = main]
  /\ refs' = [f \in Files |-> IF f \in Elems(main) THEN refs[f] + 1 ELSE refs[f]]
  /\ threads' = threads + 1
  /\ UNCHANGED <<levelVars, contents, unlink, fds, disk, faults, compactVars,
                 updated, closing, bgpc, closepc>>

StoreWrite(t, k) ==
  /\ \/ Del(t, k, TxGet(t, k))
     \/ \E v \in Vals, mode \in Modes : SetEx(t, k, v, mode, TxGet(t, k))
  /\ UNCHANGED <<levelVars, fileVars, snapVars, compactVars, threadVars>>

\* The steps that touch only the transaction and the locks.
StoreTxStep(t) ==
  /\ NewTXClosed(t) \/ CommitLock(t) \/ CheckTXConflict(t) \/ UpdateLog(t) \/ CommitUnlock(t)
  /\ UNCHANGED <<levelVars, fileVars, snapVars, compactVars, threadVars>>

\* The critical section of untrackTXSync also drops tx.levels.
StoreUntrack(t) ==
  /\ Abort(t) \/ CommitUntrack(t)
  /\ memSnap' = [memSnap EXCEPT ![t] = EmptyLevel]
  /\ immSnap' = [immSnap EXCEPT ![t] = <<>>]
  /\ UNCHANGED <<levelVars, fileVars, mainSnap, compactVars, threadVars>>

\* Variant: the memtable's old entries win over the committed ones.
StorePublishUnder(t) ==
  /\ PublishCommit(t)
  /\ mem' = Merge(mem, updates[t])
  /\ UNCHANGED <<imm, main, version, metaTables, fileVars, snapVars, compactVars, threadVars>>

\* updateMem and updateHistory in one critical section.
StorePublishCommit(t) ==
  /\ PublishCommit(t)
  /\ mem' = Merge(updates[t], mem)
  /\ UNCHANGED <<imm, main, version, metaTables, fileVars, snapVars, compactVars, threadVars>>

\* The loop at the end of untrackTXSync, one table at a time...
ReleaseSnapshot(t) ==
  /\ pc[t] = "release"
  /\ mainSnap[t] # <<>>
  /\ Release(Head(mainSnap[t]))
  /\ mainSnap' = [mainSnap EXCEPT ![t] = Tail(@)]
  /\ UNCHANGED <<txVars, levelVars, memSnap, immSnap, compactVars, threadVars>>

\* ... and then the thread counter.
StoreReleased(t) ==
  /\ mainSnap[t] = <<>>
  /\ Released(t)
  /\ threads' = threads - 1
  /\ UNCHANGED <<levelVars, fileVars, snapVars, compactVars, updated, closing, bgpc, closepc>>

\* Variant: the select of applyTX without the case of kv.closing.
NotifyWithoutClosing(t) ==
  /\ Notified(t)
  /\ \/ ~AutoCompact /\ UNCHANGED updated
     \/ AutoCompact /\ ~updated /\ updated' = TRUE
  /\ UNCHANGED <<levelVars, fileVars, snapVars, compactVars, threads, closing, bgpc, closepc>>

\* The select at the end of applyTX: the channel has room for one wake-up.
Notify(t) ==
  /\ Notified(t)
  /\ \/ ~AutoCompact /\ UNCHANGED updated
     \/ AutoCompact /\ ~updated /\ updated' = TRUE
     \/ AutoCompact /\ closing /\ UNCHANGED updated
  /\ UNCHANGED <<levelVars, fileVars, snapVars, compactVars, threads, closing, bgpc, closepc>>

-----------------------------------------------------------------------------
(* Compaction: compactOnce, compactLog and compactSSTable under kv.compact. *)

CompactGoto(label) == cpc' = label

\* compactOnce takes kv.compact, for the background thread or for a caller.
CompactBegin(who) ==
  /\ compact = "nobody"
  /\ who = "bg" => bgpc = "compact"
  /\ compact' = who
  /\ CompactGoto("decide")
  /\ UNCHANGED <<txVars, levelVars, fileVars, snapVars, level, olds, threadVars>>

\* A closed store is left alone; a memtable past the threshold is flushed.
CompactDecide ==
  /\ cpc = "decide"
  /\ CompactGoto(IF closed THEN "unlock"
                 ELSE IF SizeOf(mem) >= LogThreshold THEN "freeze" ELSE "pick")
  /\ UNCHANGED <<txVars, levelVars, fileVars, snapVars, compact, level, olds, threadVars>>

\* compactLog moves kv.mem to kv.imm.  kv.mem is not empty: only a compaction
\* shrinks it.
Freeze ==
  /\ cpc = "freeze"
  /\ version' = version + 1
  /\ imm' = <<mem>>
  /\ mem' = EmptyLevel
  /\ CompactGoto("create")
  /\ UNCHANGED <<txVars, main, metaTables, fileVars, snapVars, compact, level, olds, threadVars>>

\* Variant: the frozen memtable is merged over the live one.
UnfreezeOver ==
  /\ mem' = Merge(imm[1], mem)
  /\ imm' = <<>>

\* unfreeze: merge the frozen memtable back under the live one.
Unfreeze ==
  /\ mem' = Merge(mem, imm[1])
  /\ imm' = <<>>

\* What a flush writes; the bottom level needs no tombstones.
FlushSource == IF main = <<>> THEN NoDeleted(imm[1]) ELSE imm[1]

\* What merging the two chosen levels writes.
MergeSource ==
  LET merged == Merge(contents[olds[1]], contents[olds[2]])
  IN  IF Len(main) = level + 1 THEN NoDeleted(merged) ELSE merged

\* SortedFile.CreateFromSorted: the table is on disk and open, with no reference yet.
CreateFromSorted(run) ==
  /\ contents' = [contents EXCEPT ![version] = run]
  /\ disk' = disk \cup {version}
  /\ fds' = fds \cup {version}
  /\ UNCHANGED <<refs, unlink, faults>>

\* It fails: the caller removes the file.
CreateFails ==
  /\ faults < MaxFaults
  /\ faults' = faults + 1
  /\ UNCHANGED <<contents, refs, unlink, fds, disk>>

CreateFlushed ==
  /\ cpc = "create"
  /\ \/ /\ CreateFromSorted(FlushSource)
        /\ CompactGoto("meta")
        /\ UNCHANGED levelVars
     \/ /\ CreateFails
        /\ Unfreeze
        /\ CompactGoto("unlock")
        /\ UNCHANGED <<main, version, metaTables>>
  /\ UNCHANGED <<txVars, snapVars, compact, level, olds, threadVars>>

\* KVMetaStore.Set fails: the table it would have named is closed and removed.
MetaFails ==
  /\ faults < MaxFaults
  /\ faults' = faults + 1
  /\ fds' = fds \ {version}
  /\ disk' = disk \ {version}
  /\ UNCHANGED <<contents, refs, unlink>>

FlushMeta ==
  /\ cpc = "meta"
  /\ \/ /\ metaTables' = <<version>> \o metaTables
        /\ CompactGoto("lockcommit")
        /\ UNCHANGED <<mem, imm, fileVars>>
     \/ /\ MetaFails
        /\ Unfreeze
        /\ CompactGoto("unlock")
        /\ UNCHANGED metaTables
  /\ UNCHANGED <<txVars, main, version, snapVars, compact, level, olds, threadVars>>

FlushLockCommit ==
  /\ cpc = "lockcommit"
  /\ CompactorLock
  /\ CompactGoto("install")
  /\ UNCHANGED <<levelVars, fileVars, snapVars, compact, level, olds, threadVars>>

\* The flushed table replaces kv.imm in one critical section.
Install ==
  /\ cpc = "install"
  /\ refs' = [refs EXCEPT ![version] = @ + 1]
  /\ main' = <<version>> \o main
  /\ imm' = <<>>
  /\ CompactGoto("rewrite")
  /\ UNCHANGED <<txVars, mem, version, metaTables, contents, unlink, fds, disk, faults, snapVars,
                 compact, level, olds, threadVars>>

\* rewriteLog succeeds or fails, and kv.commit is unlocked.
RewriteLog ==
  /\ cpc = "rewrite"
  /\ CompactorUnlock
  /\ CompactGoto("pick") \/ CompactGoto("unlock")
  /\ UNCHANGED <<levelVars, fileVars, snapVars, compact, level, olds, threadVars>>

\* shouldMergeLocked.
ShouldMerge(i) == SizeOf(contents[main[i]]) * GrowthFactor >= SizeOf(contents[main[i + 1]])

\* compactOnce looks for the first level out of ratio.
PickLevel ==
  LET candidates == {i \in 1..(Len(main) - 1) : ShouldMerge(i)}
  IN  /\ cpc = "pick"
      /\ \/ candidates = {} /\ CompactGoto("unlock") /\ UNCHANGED level
         \/ /\ \E i \in candidates : (\A j \in candidates : i <= j) /\ level' = i
            /\ CompactGoto("merge")
      /\ UNCHANGED <<txVars, levelVars, fileVars, snapVars, compact, olds, threadVars>>

MergeBegin ==
  /\ cpc = "merge"
  /\ version' = version + 1
  /\ olds' = <<main[level], main[level + 1]>>
  /\ CompactGoto("createmerged")
  /\ UNCHANGED <<txVars, mem, imm, main, metaTables, fileVars, snapVars, compact, level, threadVars>>

CreateMerged ==
  /\ cpc = "createmerged"
  /\ \/ CreateFromSorted(MergeSource) /\ CompactGoto("mergemeta")
     \/ CreateFails /\ CompactGoto("unlock")
  /\ UNCHANGED <<txVars, levelVars, snapVars, compact, level, olds, threadVars>>

\* Variant: only one of the two merged tables is taken out of the list.
ReplaceOne(list, table) ==
  SubSeq(list, 1, level - 1) \o <<table>> \o SubSeq(list, level + 1, Len(list))

\* slices.Replace(list, level, level+2, table).
ReplacePair(list, table) ==
  SubSeq(list, 1, level - 1) \o <<table>> \o SubSeq(list, level + 2, Len(list))

MergeMeta ==
  /\ cpc = "mergemeta"
  /\ \/ /\ metaTables' = ReplacePair(metaTables, version)
        /\ CompactGoto("replace")
        /\ UNCHANGED fileVars
     \/ MetaFails /\ CompactGoto("unlock") /\ UNCHANGED metaTables
  /\ UNCHANGED <<txVars, mem, imm, main, version, snapVars, compact, level, olds, threadVars>>

ReplaceTables ==
  /\ cpc = "replace"
  /\ refs' = [refs EXCEPT ![version] = @ + 1]
  /\ main' = ReplacePair(main, version)
  /\ CompactGoto("retire")
  /\ UNCHANGED <<txVars, mem, imm, version, metaTables, contents, unlink, fds, disk, faults, snapVars,
                 compact, level, olds, threadVars>>

\* Variant: only the first of the two tables is marked for deletion.
RetireFirst ==
  /\ cpc = "retire"
  /\ unlink' = unlink \cup {Head(olds)}
  /\ CompactGoto("releaseolds")
  /\ UNCHANGED <<txVars, levelVars, contents, refs, fds, disk, faults, snapVars, compact, level,
                 olds, threadVars>>

\* Both tables are marked for deletion before either is released.
Retire ==
  /\ cpc = "retire"
  /\ unlink' = unlink \cup Elems(olds)
  /\ CompactGoto("releaseolds")
  /\ UNCHANGED <<txVars, levelVars, contents, refs, fds, disk, faults, snapVars, compact, level,
                 olds, threadVars>>

ReleaseOld ==
  /\ cpc = "releaseolds"
  /\ Release(Head(olds))
  /\ olds' = Tail(olds)
  /\ CompactGoto(IF Len(olds) = 1 THEN "unlock" ELSE "releaseolds")
  /\ UNCHANGED <<txVars, levelVars, snapVars, compact, level, threadVars>>

\* Variant: the background thread drains kv.updated after a compaction.
CompactUnlockDrains ==
  /\ cpc = "unlock"
  /\ compact' = "nobody"
  /\ CompactGoto("idle")
  /\ level' = 0 /\ olds' = <<>>
  /\ bgpc' = IF compact = "bg" THEN "select" ELSE bgpc
  /\ updated' = IF compact = "bg" THEN FALSE ELSE updated
  /\ UNCHANGED <<txVars, levelVars, fileVars, snapVars, threads, closing, closepc>>

CompactUnlock ==
  /\ cpc = "unlock"
  /\ compact' = "nobody"
  /\ CompactGoto("idle")
  /\ level' = 0 /\ olds' = <<>>
  /\ bgpc' = IF compact = "bg" THEN "select" ELSE bgpc
  /\ UNCHANGED <<txVars, levelVars, fileVars, snapVars, threads, updated, closing, closepc>>

\* The background thread's select: a wake-up, or the end.
BackgroundWake ==
  /\ bgpc = "select" /\ updated
  /\ updated' = FALSE
  /\ bgpc' = "compact"
  /\ UNCHANGED <<txVars, levelVars, fileVars, snapVars, compactVars, threads, closing, closepc>>

BackgroundExit ==
  /\ bgpc = "select" /\ closing
  /\ bgpc' = "none"
  /\ threads' = threads - 1
  /\ UNCHANGED <<txVars, levelVars, fileVars, snapVars, compactVars, updated, closing, closepc>>

CompactStep ==
  \/ CompactDecide \/ Freeze \/ CreateFlushed \/ FlushMeta \/ FlushLockCommit \/ Install
  \/ RewriteLog \/ PickLevel \/ MergeBegin \/ CreateMerged \/ MergeMeta \/ ReplaceTables
  \/ Retire \/ ReleaseOld \/ CompactUnlock

-----------------------------------------------------------------------------
(* Close. *)

StoreCloseBegin ==
  /\ CloseBegin
  /\ closepc' = "signal"
  /\ UNCHANGED <<levelVars, fileVars, snapVars, compactVars, threads, updated, closing, bgpc>>

\* close(kv.closing), then wait for the transactions and the background thread.
CloseSignal ==
  /\ closepc = "signal"
  /\ closing' = TRUE
  /\ closepc' = "wait"
  /\ UNCHANGED <<txVars, levelVars, fileVars, snapVars, compactVars, threads, updated, bgpc>>

\* Variant: Close does not wait for kv.threads.
CloseWithoutWait ==
  /\ closepc = "wait"
  /\ closepc' = "lock"
  /\ UNCHANGED <<txVars, levelVars, fileVars, snapVars, compactVars, threads, updated, closing, bgpc>>

CloseWait ==
  /\ closepc = "wait"
  /\ threads = 0
  /\ closepc' = "lock"
  /\ UNCHANGED <<txVars, levelVars, fileVars, snapVars, compactVars, threads, updated, closing, bgpc>>

\* A compaction a caller started is waited for through kv.compact.
CloseLock ==
  /\ closepc = "lock"
  /\ compact = "nobody"
  /\ compact' = "close"
  /\ closepc' = "clear"
  /\ UNCHANGED <<txVars, levelVars, fileVars, snapVars, cpc, level, olds,
                 threads, updated, closing, bgpc>>

\* kv.main and kv.imm become nil; olds holds the tables to release.
CloseClear ==
  /\ closepc = "clear"
  /\ olds' = main
  /\ main' = <<>>
  /\ imm' = <<>>
  /\ closepc' = "release"
  /\ UNCHANGED <<txVars, mem, version, metaTables, fileVars, snapVars, compact, cpc, level,
                 threads, updated, closing, bgpc>>

CloseRelease ==
  /\ closepc = "release"
  /\ olds # <<>>
  /\ Release(Head(olds))
  /\ olds' = Tail(olds)
  /\ UNCHANGED <<txVars, levelVars, snapVars, compact, cpc, level, threadVars>>

\* The log and the metadata are closed and kv.compact is unlocked.
CloseEnd ==
  /\ closepc = "release"
  /\ olds = <<>>
  /\ compact' = "nobody"
  /\ closepc' = "closed"
  /\ UNCHANGED <<txVars, levelVars, fileVars, snapVars, cpc, level, olds,
                 threads, updated, closing, bgpc>>

CloseStep == CloseSignal \/ CloseWait \/ CloseLock \/ CloseClear \/ CloseRelease \/ CloseEnd

-----------------------------------------------------------------------------

TxCommitStep(t) ==
  \/ StoreTxStep(t) \/ StoreUntrack(t) \/ StorePublishCommit(t) \/ ReleaseSnapshot(t)
  \/ StoreReleased(t) \/ Notify(t)

Background == BackgroundWake \/ BackgroundExit \/ CompactBegin("bg")

StoreNext ==
  \/ \E t \in Tx : \/ StoreNewTX(t) \/ TxCommitStep(t)
                   \/ \E k \in Keys : StoreWrite(t, k)
  \/ CompactBegin("caller") \/ CompactStep
  \/ Background
  \/ StoreCloseBegin \/ CloseStep

StoreSpec == StoreInit /\ [][StoreNext]_storeVars

\* Scheduling.  Every goroutine that can run does.  kv.compact is a sync.Mutex, which
\* hands over to a waiter that has waited for a millisecond, so callers that compact
\* for ever starve neither Close nor the background thread.  Every transaction is
\* committed or aborted by its owner in the end, as the comment on KV asks ("Abort
\* or Commit promptly").
StoreFairness ==
  /\ \A t \in Tx : WF_storeVars(TxCommitStep(t) /\ pc[t] # "idle")
  /\ WF_storeVars(CompactStep)
  /\ WF_storeVars(BackgroundWake \/ BackgroundExit)
  /\ SF_storeVars(CompactBegin("bg"))
  /\ WF_storeVars(CloseStep)
  /\ SF_storeVars(CloseLock)

FairStoreSpec == StoreSpec /\ StoreFairness

-----------------------------------------------------------------------------

\* Snapshot stability (the memtable invariant and SSTable lifetime comments of KV):
\* whatever commits, flushes, merges and failed flushes happen meanwhile, the levels
\* a transaction captured show exactly what was committed when it began.
SnapshotStable ==
  \A t \in Tx : pc[t] \in Tracked => \A k \in Keys :
    LiveValue(GetExact(SnapshotLevels(t), k)) = LiveValue(SI!EntryAt(commits, snap[t], k))

\* compactLog, unfreeze and compactSSTable never lose, resurrect or reorder a write:
\* the live levels always show every commit so far.
LevelsComplete ==
  closepc \notin {"release", "closed"} => \A k \in Keys :
    LiveValue(GetExact(<<mem>> \o imm \o Tables(main), k))
      = LiveValue(SI!EntryAt(commits, Len(commits), k))

\* A table a snapshot or a merge in progress reads is open and on disk
\* (SortedFile.release: "Snapshots taken before this point keep reading them").
TablesPinned ==
  /\ \A t \in Tx : Elems(mainSnap[t]) \subseteq fds \cap disk
  /\ cpc \in {"merge", "createmerged"} => Elems(olds) \subseteq fds \cap disk

\* Nothing leaks: with no transaction and no compaction under way the directory
\* holds exactly the tables of the metadata, and after Close no descriptor is open.
NothingLeaks ==
  /\ cpc = "idle" /\ (\A t \in Tx : mainSnap[t] = <<>>) => disk = Elems(metaTables)
  /\ closepc = "closed" => fds = {}

\* Close tears the levels down only when no transaction, no compaction and no
\* background thread is left to use them.
CloseDrains ==
  closepc \in {"clear", "release", "closed"} =>
    /\ \A t \in Tx : pc[t] \in {"idle", "unlock", "notify", "done"}
    /\ bgpc = "none"
    /\ closepc # "closed" => cpc = "idle"
    /\ imm = <<>>

\* A compaction finds the levels as it left them, whatever commits, fails and closes
\* meanwhile: the assertions of compactLog (kv.imm == nil) and compactSSTable (kv.main
\* still holds old1 and old2 at level).  The metadata on disk names only tables that are
\* on disk, and is kv.main except between Set and its publication.
CompactionInStep ==
  /\ cpc = "freeze" => imm = <<>> /\ KeysOf(mem) # {}
  /\ cpc = "replace" => SubSeq(main, level, level + 1) = olds
  /\ Elems(metaTables) \subseteq disk
  /\ cpc \notin {"lockcommit", "install", "replace"} /\ closepc \notin {"release", "closed"}
       => metaTables = main

\* The store's transactions, reading real levels, behave as KVTransactions says.
ImplementsTransactions == TxSpec

\* Commit and Close return: neither kv.commit, a full kv.updated, a compaction nor the
\* background thread blocks them for good, once every open transaction has finished.
CallsReturn ==
  /\ \A t \in Tx : pc[t] = "check" ~> pc[t] = "done"
  /\ closed ~> closepc = "closed"

\* No wake-up is lost: with automatic compaction, and as long as no flush fails, a
\* memtable that reached the threshold is flushed or the store is closed.
FlushHappens ==
  AutoCompact /\ SizeOf(mem) >= LogThreshold ~> SizeOf(mem) < LogThreshold \/ closed
=============================================================================

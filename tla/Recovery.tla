------------------------------ MODULE Recovery ------------------------------
(***************************************************************************)
(* What db.KV keeps on disk, crashes, and Open.                            *)
(*                                                                         *)
(* On disk: the write-ahead log, two metadata slots written alternately,   *)
(* and the SSTables.  A commit or a compaction changes them one file       *)
(* operation at a time; a crash may come between any two, and what was     *)
(* written but not fsynced may or may not survive it.                      *)
(*                                                                         *)
(* The log is modelled by what replay makes of it: the committed batches   *)
(* of the current generation (wal) and one batch that is written but not   *)
(* fsynced (tail).  Raising the sequence floor in the log header empties   *)
(* it durably; the 20 bytes of the header are taken to reach the disk      *)
(* together.  Commits are serialised by kv.commit, so one at a time is     *)
(* under way.                                                              *)
(***************************************************************************)
EXTENDS SortedKV, Integers

CONSTANTS
  LogThreshold, GrowthFactor,   \* the options
  MaxCommits,   \* bound on the commits
  MaxBatch,     \* bound on the keys of a commit
  MaxVersion,   \* bound on kv.version, that is on the compactions
  MaxFailures,  \* bound on the crashes and failing file operations together
  Faults        \* the file operations that may fail without a crash

ASSUME KeysAssumption == Keys \subseteq Nat
ASSUME RecoveryAssumption ==
  /\ LogThreshold \in Nat \ {0} /\ GrowthFactor \in Nat \ {0, 1}
  /\ MaxCommits \in Nat /\ MaxBatch \in Nat /\ MaxVersion \in Nat /\ MaxFailures \in Nat
  /\ Faults \subseteq {"create", "metawrite", "metasync", "rewrite", "log", "damage"}

Files == 1..MaxVersion
Slots == {0, 1}

VARIABLES
  \* disk
  wal, tail,                \* replayable batches; the batch not yet fsynced
  slot, slotTail,           \* the two slots; the slot write not yet fsynced
  disk, contents,           \* SSTables in the directory, and what they hold
  \* memory
  running,                  \* "down", "sweep", "up", or Open failed: "unreadable", "missing"
  mem, imm, main, version,  \* the levels and kv.version
  meta,                     \* KVMetaStore.slots[i].data
  cpc, level,               \* the place of the compaction and the level it merges
  \* history variables
  commits,                  \* what was committed, oldest first
  frozenAt,                 \* how much of it the last Freeze covered
  crashes, crashedIn,       \* crashes so far; the place of the compaction at the last
  faults, trouble,          \* failures so far; failures whose effect is still on disk
  acked, kept               \* acknowledged before the last crash, and found by Open

diskVars    == <<wal, tail, slot, slotTail, disk, contents>>
memVars     == <<mem, imm, main, version, meta>>
historyVars == <<commits, frozenAt, crashes, crashedIn, faults, trouble, acked, kept>>

vars == <<diskVars, running, memVars, cpc, level, historyVars>>

Elems(seq) == {seq[i] : i \in DOMAIN seq}

NoMeta == [version |-> 0, tables |-> <<>>]   \* the zero KVMetaData

AbsentSlot == [state |-> "absent", data |-> NoMeta]
TornSlot == [state |-> "torn", data |-> NoMeta]
GoodSlot(data) == [state |-> "good", data |-> data]

\* A file operation fails, if it is among those that may.
Fails(op) ==
  /\ op \in Faults
  /\ crashes + faults < MaxFailures
  /\ faults' = faults + 1

Init ==
  /\ wal = <<>> /\ tail = <<>>
  /\ slot = [i \in Slots |-> AbsentSlot] /\ slotTail = <<>>
  /\ disk = {} /\ contents = [f \in Files |-> EmptyLevel]
  /\ running = "down"
  /\ mem = EmptyLevel /\ imm = <<>> /\ main = <<>> /\ version = 0
  /\ meta = [i \in Slots |-> NoMeta]
  /\ cpc = "idle" /\ level = 0
  /\ commits = <<>> /\ frozenAt = 0
  /\ crashes = 0 /\ crashedIn = "idle" /\ faults = 0 /\ trouble = {} /\ acked = 0 /\ kept = 0

\* Batches replayed in order, as openLog does: the newest entry of a key wins.
Replay(batches) ==
  [k \in Keys |-> GetExact([i \in DOMAIN batches |-> batches[Len(batches) + 1 - i]], k)]

\* What the first n commits leave under k.
ValueAt(n, k) == LiveValue(Replay(SubSeq(commits, 1, n))[k])

Tables(files) == [i \in DOMAIN files |-> contents[files[i]]]

\* What a reader sees under k.
Read(k) == LiveValue(GetExact(<<mem>> \o imm \o Tables(main), k))

-----------------------------------------------------------------------------
(* Commits: updateLog and updateMem. *)

\* kv.commit is held by a commit or by the end of a flush.
Committing == tail # <<>> /\ tail[1].by = "commit"
LogBusy == cpc \in {"truncate", "relog", "relogsync"}

\* What one transaction may write.
Batches == {b \in Level : SizeOf(b) \in 1..MaxBatch}

\* Write appends the batch and its commit record, over whatever ResetTX left behind.
LogWrite(b) ==
  /\ running = "up"
  /\ ~Committing /\ ~LogBusy
  /\ Len(commits) < MaxCommits
  /\ tail' = <<[batch |-> b, by |-> "commit"]>>
  /\ UNCHANGED <<wal, slot, slotTail, disk, contents, running, memVars, cpc, level, historyVars>>

\* The fsync of Commit, and the commit becomes visible and is acknowledged.
LogSync ==
  /\ Committing
  /\ wal' = Append(wal, tail[1].batch)
  /\ tail' = <<>>
  /\ mem' = Merge(tail[1].batch, mem)
  /\ commits' = Append(commits, tail[1].batch)
  /\ UNCHANGED <<slot, slotTail, disk, contents, running, imm, main, version, meta, cpc, level,
                 frozenAt, crashes, crashedIn, faults, trouble, acked, kept>>

\* A write or the fsync fails: the caller sees the error, the bytes stay behind.
LogFail ==
  /\ Committing
  /\ Fails("log")
  /\ tail' = <<[tail[1] EXCEPT !.by = "failed"]>>
  /\ UNCHANGED <<wal, slot, slotTail, disk, contents, running, memVars, cpc, level,
                 commits, frozenAt, crashes, crashedIn, trouble, acked, kept>>

-----------------------------------------------------------------------------
(* compactOnce.  level is 0 during a flush and the merged level during a merge. *)

\* compactLog freezes the memtable.
Freeze ==
  /\ running = "up"
  /\ cpc = "idle"
  /\ SizeOf(mem) >= LogThreshold
  /\ version < MaxVersion
  /\ version' = version + 1
  /\ imm' = <<mem>>
  /\ mem' = EmptyLevel
  /\ frozenAt' = Len(commits)
  /\ cpc' = "create"
  /\ UNCHANGED <<diskVars, running, main, meta, level, commits, crashes, crashedIn, faults, trouble, acked, kept>>

ShouldMerge(i) == SizeOf(contents[main[i]]) * GrowthFactor >= SizeOf(contents[main[i + 1]])

\* compactSSTable on the first level out of ratio, after a flush or without one.
MergeBegin ==
  LET candidates == {i \in 1..(Len(main) - 1) : ShouldMerge(i)}
  IN  /\ running = "up"
      /\ cpc = "pick" \/ (cpc = "idle" /\ SizeOf(mem) < LogThreshold)
      /\ version < MaxVersion
      /\ \E i \in candidates : (\A j \in candidates : i <= j) /\ level' = i
      /\ version' = version + 1
      /\ cpc' = "create"
      /\ UNCHANGED <<diskVars, running, mem, imm, main, meta, historyVars>>

\* Nothing to merge after a flush (or no version left to merge into).
PickNothing ==
  /\ cpc = "pick"
  /\ (\A i \in 1..(Len(main) - 1) : ~ShouldMerge(i)) \/ version = MaxVersion
  /\ cpc' = "idle"
  /\ UNCHANGED <<diskVars, running, memVars, level, historyVars>>

\* Variant: tombstones are dropped whatever lies below.
SourceWithoutTombs ==
  IF level = 0 THEN NoDeleted(imm[1])
  ELSE NoDeleted(Merge(contents[main[level]], contents[main[level + 1]]))

Source ==
  IF level = 0
  THEN IF main = <<>> THEN NoDeleted(imm[1]) ELSE imm[1]
  ELSE LET merged == Merge(contents[main[level]], contents[main[level + 1]])
       IN  IF Len(main) = level + 1 THEN NoDeleted(merged) ELSE merged

\* createFileSync makes the directory entry durable before anything is written.
CreateFile ==
  /\ cpc = "create"
  /\ disk' = disk \cup {version}
  /\ cpc' = "write"
  /\ UNCHANGED <<wal, tail, slot, slotTail, contents, running, memVars, level, historyVars>>

Unlink(f) ==
  /\ disk' = disk \ {f}
  /\ contents' = [contents EXCEPT ![f] = EmptyLevel]

\* Variant: the file is left behind.
GiveUpKeepsFile ==
  /\ mem' = IF level = 0 THEN Merge(mem, imm[1]) ELSE mem
  /\ imm' = <<>>
  /\ cpc' = "idle"
  /\ level' = 0
  /\ UNCHANGED <<disk, contents>>

\* Give up a compaction: remove the new table and, in a flush, unfreeze.
GiveUp ==
  /\ Unlink(version)
  /\ mem' = IF level = 0 THEN Merge(mem, imm[1]) ELSE mem
  /\ imm' = <<>>
  /\ cpc' = "idle"
  /\ level' = 0

WriteFile ==
  /\ cpc = "write"
  /\ \/ /\ contents' = [contents EXCEPT ![version] = Source]
        /\ cpc' = "meta"
        /\ UNCHANGED <<disk, mem, imm, level, faults>>
     \/ Fails("create") /\ GiveUp
  /\ UNCHANGED <<wal, tail, slot, slotTail, running, main, version, meta,
                 commits, frozenAt, crashes, crashedIn, trouble, acked, kept>>

\* KVMetaStore.current.
CurrentOf(m) == IF m[0].version > m[1].version THEN 0 ELSE 1
Current == CurrentOf(meta)

\* The table list a flush or a merge writes.
NextMeta ==
  LET tables == meta[Current].tables
  IN  [version |-> version,
       tables  |-> IF level = 0 THEN <<version>> \o tables
                   ELSE SubSeq(tables, 1, level - 1) \o <<version>>
                        \o SubSeq(tables, level + 2, Len(tables))]

\* Variant: Set overwrites the slot in use.
MetaWriteInPlace ==
  /\ cpc = "meta"
  /\ slotTail' = <<[slot |-> Current, data |-> NextMeta]>>
  /\ cpc' = "metasync"
  /\ UNCHANGED <<wal, tail, slot, disk, contents, running, memVars, level, historyVars>>

\* KVMetaStore.Set overwrites the other slot; a failed write leaves it torn.
MetaWrite ==
  /\ cpc = "meta"
  /\ \/ /\ slotTail' = <<[slot |-> 1 - Current, data |-> NextMeta]>>
        /\ cpc' = "metasync"
        /\ UNCHANGED <<slot, disk, contents, mem, imm, level, faults>>
     \/ /\ Fails("metawrite")
        /\ slot' = [slot EXCEPT ![1 - Current] = TornSlot]
        /\ slotTail' = <<>>
        /\ GiveUp
  /\ UNCHANGED <<wal, tail, running, main, version, meta,
                 commits, frozenAt, crashes, crashedIn, trouble, acked, kept>>

\* The fsync of Set.  When it fails, the slot may hold either content.
MetaSync ==
  /\ cpc = "metasync"
  /\ \/ /\ slot' = [slot EXCEPT ![slotTail[1].slot] = GoodSlot(slotTail[1].data)]
        /\ slotTail' = <<>>
        /\ meta' = [meta EXCEPT ![slotTail[1].slot] = slotTail[1].data]
        /\ cpc' = "install"
        /\ trouble' = trouble \ {"metasync"}
        /\ UNCHANGED <<disk, contents, mem, imm, level, faults>>
     \/ /\ Fails("metasync")
        /\ GiveUp
        /\ trouble' = trouble \cup {"metasync"}
        /\ UNCHANGED <<slot, slotTail, meta>>
  /\ UNCHANGED <<wal, tail, running, main, version,
                 commits, frozenAt, crashes, crashedIn, acked, kept>>

\* compactLog takes kv.commit and publishes the table.
InstallFlushed ==
  /\ cpc = "install" /\ level = 0
  /\ ~Committing
  /\ main' = <<version>> \o main
  /\ imm' = <<>>
  /\ cpc' = "truncate"
  /\ UNCHANGED <<diskVars, running, mem, version, meta, level, historyVars>>

\* rewriteLog: Truncate raises the durable floor, and the log is empty even if
\* shrinking the file then fails; when the header cannot be written it is as it was...
Truncate ==
  /\ cpc = "truncate"
  /\ \/ /\ wal' = <<>> /\ tail' = <<>>
        /\ cpc' = IF KeysOf(mem) = {} THEN "pick" ELSE "relog"
        /\ trouble' = trouble \ {"rewrite"}
        /\ UNCHANGED faults
     \/ /\ Fails("rewrite")
        /\ wal' = <<>> /\ tail' = <<>>
        /\ cpc' = "idle"
        /\ trouble' = trouble \cup {"rewrite"}
     \/ /\ Fails("rewrite")
        /\ cpc' = "idle"
        /\ UNCHANGED <<wal, tail, trouble>>
  /\ UNCHANGED <<slot, slotTail, disk, contents, running, memVars, level,
                 commits, frozenAt, crashes, crashedIn, acked, kept>>

\* ... until the live memtable is written back as one batch...
Relog ==
  /\ cpc = "relog"
  /\ tail' = <<[batch |-> mem, by |-> "relog"]>>
  /\ cpc' = "relogsync"
  /\ UNCHANGED <<wal, slot, slotTail, disk, contents, running, memVars, level, historyVars>>

\* Variant: the rewritten log is not fsynced.
RelogWithoutSync ==
  /\ cpc = "relogsync"
  /\ cpc' = "pick"
  /\ UNCHANGED <<diskVars, running, memVars, level, historyVars>>

\* ... and fsynced.  An error on the way is returned with the log as it is.
RelogSync ==
  /\ cpc = "relogsync"
  /\ \/ wal' = <<mem>> /\ tail' = <<>> /\ cpc' = "pick" /\ UNCHANGED <<trouble, faults>>
     \/ /\ Fails("rewrite")
        /\ tail' = <<[tail[1] EXCEPT !.by = "stale"]>>
        /\ cpc' = "idle"
        /\ trouble' = trouble \cup {"rewrite"}
        /\ UNCHANGED wal
  /\ UNCHANGED <<slot, slotTail, disk, contents, running, memVars, level,
                 commits, frozenAt, crashes, crashedIn, acked, kept>>

\* compactSSTable publishes the merged table and retires the two it merged.
InstallMerged ==
  /\ cpc = "install" /\ level > 0
  /\ main' = meta[Current].tables
  /\ cpc' = "remove"
  /\ UNCHANGED <<diskVars, running, mem, imm, version, meta, level, historyVars>>

\* release of a retired table nobody reads removes its file, one after the other.
RemoveOld ==
  /\ cpc = "remove"
  /\ LET old == disk \ Elems(main)
     IN  \/ \E f \in old : Unlink(f) /\ UNCHANGED <<cpc, level>>
         \/ old = {} /\ cpc' = "idle" /\ level' = 0 /\ UNCHANGED <<disk, contents>>
  /\ UNCHANGED <<wal, tail, slot, slotTail, running, memVars, historyVars>>

Compaction ==
  \/ Freeze \/ MergeBegin \/ PickNothing \/ CreateFile \/ WriteFile \/ MetaWrite \/ MetaSync
  \/ InstallFlushed \/ Truncate \/ Relog \/ RelogSync \/ InstallMerged \/ RemoveOld

-----------------------------------------------------------------------------
(* Crash and Open. *)

\* Memory is lost; unsynced writes survive, do not, or leave a torn slot.  A batch
\* whose commit nobody acknowledged counts as committed when it survives.
Crash ==
  /\ running \in {"sweep", "up"}
  /\ crashes + faults < MaxFailures
  /\ crashes' = crashes + 1
  /\ crashedIn' = cpc
  /\ acked' = Len(commits)
  /\ \/ UNCHANGED <<wal, commits>>
     \/ /\ tail # <<>>
        /\ wal' = Append(wal, tail[1].batch)
        /\ commits' = IF tail[1].by \in {"commit", "failed"}
                      THEN Append(commits, tail[1].batch) ELSE commits
  /\ tail' = <<>>
  /\ \/ UNCHANGED slot
     \/ /\ slotTail # <<>>
        /\ \E s \in {TornSlot, GoodSlot(slotTail[1].data)} :
             slot' = [slot EXCEPT ![slotTail[1].slot] = s]
  /\ slotTail' = <<>>
  /\ running' = "down"
  /\ cpc' = "idle" /\ level' = 0
  /\ mem' = EmptyLevel /\ imm' = <<>> /\ main' = <<>> /\ version' = 0
  /\ meta' = [i \in Slots |-> NoMeta]
  /\ UNCHANGED <<disk, contents, frozenAt, faults, trouble, kept>>

\* The medium damages one readable slot while the store is down.
Damage ==
  /\ running = "down"
  /\ Fails("damage")
  /\ \A i \in Slots : slot[i].state = "good"
  /\ \E i \in Slots : slot' = [slot EXCEPT ![i] = TornSlot]
  /\ trouble' = trouble \cup {"damage"}
  /\ UNCHANGED <<wal, tail, slotTail, disk, contents, running, memVars, cpc, level,
                 commits, frozenAt, crashes, crashedIn, acked, kept>>

\* The prefixes of the history that the levels hold.
Matching(levels) ==
  {n \in 0..Len(commits) : \A k \in Keys : ValueAt(n, k) = LiveValue(GetExact(levels, k))}

\* KVMetaStore.Open keeps what each slot holds, nothing for one it cannot read.
SlotData == [i \in Slots |-> slot[i].data]

\* checkNotEmpty: tables are there and no slot is usable.
Unreadable == disk # {} /\ \A i \in Slots : slot[i].state # "good"

\* Open reads the slots, replays the log and opens the tables the metadata names.
Open ==
  /\ running = "down"
  /\ meta' = SlotData
  /\ LET data  == meta'[CurrentOf(meta')]
         found == <<Replay(wal)>> \o Tables(data.tables)
     IN  \/ /\ Unreadable                                 \* ErrMetaUnreadable
           /\ running' = "unreadable"
           /\ UNCHANGED <<mem, main, version, commits, kept>>
        \/ /\ ~Unreadable
           /\ ~(Elems(data.tables) \subseteq disk)         \* SortedFile.Open fails
           /\ running' = "missing"
           /\ UNCHANGED <<mem, main, version, commits, kept>>
        \/ /\ ~Unreadable
           /\ Elems(data.tables) \subseteq disk
           /\ running' = "sweep"
           /\ mem' = Replay(wal)
           /\ main' = data.tables
           /\ version' = data.version
           /\ \/ /\ kept' \in Matching(found)
                 /\ \A n \in Matching(found) : n <= kept'
                 /\ commits' = SubSeq(commits, 1, kept')
              \/ /\ Matching(found) = {}                   \* not a prefix: start again from it
                 /\ kept' = -1
                 /\ commits' = <<[k \in Keys |-> GetExact(found, k)]>>
  /\ UNCHANGED <<diskVars, imm, cpc, level, frozenAt, crashes, crashedIn, faults, trouble, acked>>

\* sweepOrphanSSTables removes what the metadata does not name, one file at a time.
\* With it this recovery is over, and its history variables start again.
Sweep ==
  /\ running = "sweep"
  /\ LET orphans == disk \ Elems(main)
     IN  \/ /\ \E f \in orphans : Unlink(f)
           /\ UNCHANGED <<running, acked, kept, frozenAt, crashedIn, trouble>>
        \/ /\ orphans = {}
           /\ running' = "up"
           /\ acked' = 0 /\ kept' = 0 /\ frozenAt' = 0 /\ crashedIn' = "idle" /\ trouble' = {}
           /\ UNCHANGED <<disk, contents>>
  /\ UNCHANGED <<wal, tail, slot, slotTail, memVars, cpc, level, commits, crashes, faults>>

Commit == (\E b \in Batches : LogWrite(b)) \/ LogSync \/ LogFail

Next == Commit \/ Compaction \/ Crash \/ Damage \/ Open \/ Sweep

Spec == Init /\ [][Next]_vars

-----------------------------------------------------------------------------
(* Properties. *)

Metas == [version : 0..MaxVersion, tables : Seq(Files)]

\* An acknowledged commit survives every crash: Open finds all of them, and nothing but
\* a prefix of the history (updateLog fsyncs before updateMem publishes).
Durable == running = "sweep" => kept >= acked

\* Commits may be lost to a crash only while rewriteLog has emptied the log and not yet
\* written the live memtable back, and then only those made since the flush froze it:
\* what is found is still a prefix, and holds everything the flushed table covers.
\* Otherwise an error had already cut rewriteLog short, or the medium failed.
LossOnlyWhileRewriting ==
  running = "sweep" =>
     \/ kept >= acked
     \/ crashedIn \in {"relog", "relogsync"} /\ kept >= frozenAt
     \/ trouble \cap {"rewrite", "damage"} # {}

\* A crash never leaves a directory that Open takes for one whose metadata is lost.
Opens == running # "unreadable"

\* The table that a failed compaction removes is one no metadata on disk names, so that
\* Open finds every table it looks for.
TablesNotMissing == running # "missing"

\* Open gives up only on a crash in the first flush, before any metadata reached the
\* disk, and then the log alone still holds every commit: nothing is lost by refusing.
\* Otherwise the metadata's fsync had failed before, or the medium.
RefusalLosesNothing ==
  running \in {"unreadable", "missing"} =>
    \/ /\ running = "unreadable"
       /\ \A i \in Slots : slot[i].state # "good"
       /\ crashedIn \in {"write", "meta", "metasync"}
       /\ \A k \in Keys : LiveValue(Replay(wal)[k]) = ValueAt(Len(commits), k)
    \/ trouble \cap {"metasync", "damage"} # {}

\* Readers see every commit and nothing else, through failed flushes and after recovery:
\* unfreeze puts the frozen memtable back under the live one.
LevelsComplete ==
  running \in {"sweep", "up"} => \A k \in Keys : Read(k) = ValueAt(Len(commits), k)

\* Between compactions the directory holds exactly the tables in use: failed
\* compactions clean up after themselves, and Open sweeps what a crash left.  A new
\* table takes a name that is neither on disk nor in a readable slot, although
\* kv.version restarts from the metadata: it cannot overwrite what recovery may need.
DirectoryExact ==
  /\ running = "up" /\ cpc \in {"idle", "pick"} => disk = Elems(main)
  /\ cpc = "create" =>
       version \notin disk /\ \A i \in Slots : version \notin Elems(slot[i].data.tables)
=============================================================================

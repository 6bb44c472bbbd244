------------------------------ MODULE FSMProofs ------------------------------
(***************************************************************************)
(* What holds of a replica for every log, every set of commands and any    *)
(* number of crashes, failures, snapshots and readers.                     *)
(***************************************************************************)
EXTENDS FSM, TLAPS

\* A directory's contents reflect a prefix of the log, and are that prefix's state when
\* each entry was applied once.
Content(entries, st, c) ==
  /\ c \in [there : {TRUE}, data : {c.data}, idx : 0..Len(entries), pure : BOOLEAN]
  /\ c.pure => c.data = st[c.idx]

Dirs(entries, st, d) ==
  /\ d \in [live : {d.live}, restore : {d.restore}, old : {d.old}]
  /\ d.live = NoDir \/ Content(entries, st, d.live)
  /\ d.restore = NoDir \/ Content(entries, st, d.restore)
  /\ d.old = NoDir \/ Content(entries, st, d.old)

SnapshotOf(entries, st, s) ==
  /\ s \in [index : 0..Len(entries), store : {s.store}]
  /\ Content(entries, st, s.store) /\ s.index <= s.store.idx

History ==
  /\ log \in Seq(Commands \cup RaftEntries)
  /\ DOMAIN states = 0..Len(log) /\ states[0] = EmptyStore
  /\ \A i \in 1..Len(log) : states[i] = After(states[i - 1], log[i])

Restoring == {"stage", "lock", "close", "stash", "install", "syncdir", "drop"}
Swapping == {"close", "stash", "install", "syncdir", "drop"}

\* The FSM goroutine is ahead of f.applied, and of a snapshot that Persist still writes;
\* a Restore never takes it back.
Indexes ==
  /\ commitIdx \in 0..Len(log) /\ fsmIdx \in 0..Len(log) /\ applied \in Nat
  /\ SnapshotOf(log, states, raftSnap) /\ SnapshotOf(log, states, pending)
  /\ applied <= fsmIdx /\ pending.index <= fsmIdx
  /\ fpc \in Restoring => fsmIdx <= raftSnap.index
  /\ fpc = "down" \/ startup => fsmIdx = 0

\* At every step of a swap some directory holds all the FSM goroutine has consumed.
Directories ==
  /\ Dirs(log, states, dir) /\ \A u \in undo : Dirs(log, states, u)
  /\ fpc \notin {"install", "down", "dead"} => Content(log, states, dir.live) /\ fsmIdx <= dir.live.idx
  /\ fpc \in {"lock", "close", "stash", "install"} =>
       Content(log, states, dir.restore) /\ raftSnap.index <= dir.restore.idx
  /\ fpc = "install" => Content(log, states, dir.old) /\ fsmIdx <= dir.old.idx
  /\ fpc \in {"syncdir", "drop"} => raftSnap.index <= dir.live.idx

Locking ==
  /\ fpc \in Restoring \cup {"idle", "invalidate", "advance", "wake", "down", "dead"}
  /\ startup \in BOOLEAN /\ (startup => fpc \in Restoring \cup {"dead"})
  /\ locked \in BOOLEAN /\ readers \in Nat
  /\ fpc \in Swapping => locked
  /\ locked => fpc \in Swapping \cup {"dead"} /\ readers = 0
  /\ open \in {"open", "closed"} /\ closeFailed \in BOOLEAN
  /\ open = "open" \/ closeFailed \/ fpc \in {"stash", "install", "syncdir", "down", "dead"}
  /\ closeFailed => "close" \in Faults

Inv == History /\ Indexes /\ Directories /\ Locking

-----------------------------------------------------------------------------

\* The empty directory of a new store holds the empty prefix.
LEMMA FreshContent == History => Content(log, states, Fresh) /\ SnapshotOf(log, states, NoSnap)
<1> SUFFICES ASSUME History PROVE Content(log, states, Fresh) /\ SnapshotOf(log, states, NoSnap)
  OBVIOUS
<1>1. Len(log) \in Nat
  BY DEF History
<1>2. Content(log, states, Fresh)
  BY <1>1 DEF History, Content, Fresh
<1> QED
  BY <1>1, <1>2 DEF SnapshotOf, NoSnap, Fresh

\* Applying the entry after those the FSM goroutine has consumed (applyCommand) keeps
\* a directory at a prefix of the log, and at its state when the prefix was exact.
LEMMA AppliedContent ==
  ASSUME History, NEW i \in 1..Len(log), NEW c, Content(log, states, c), i - 1 <= c.idx, IsCommand(log[i])
  PROVE  Content(log, states, Applied(c, i)) /\ i <= Applied(c, i).idx
<1> DEFINE r == Applied(c, i)
<1>1. Len(log) \in Nat
  BY DEF History
<1>2. /\ r \in [there : {TRUE}, data : {r.data}, idx : {r.idx}, pure : {r.pure}]
      /\ r.data = Exec(c.data, log[i])
      /\ r.idx = IF i > c.idx THEN i ELSE c.idx
      /\ r.pure = (c.pure /\ c.idx = i - 1)
  BY DEF Applied
<1>3. r.idx \in 0..Len(log) /\ i <= r.idx
  BY <1>1, <1>2 DEF Content
<1>4. r.pure \in BOOLEAN
  BY <1>2 DEF Content
<1>5. ASSUME r.pure PROVE r.data = states[r.idx]
  <2>1. c.pure /\ c.idx = i - 1
    BY <1>2, <1>5
  <2>2. c.data = states[i - 1] /\ r.idx = i
    BY <1>1, <1>2, <2>1 DEF Content
  <2>3. states[i] = Exec(states[i - 1], log[i])
    BY DEF History, After
  <2> QED
    BY <1>2, <2>2, <2>3
<1> HIDE DEF r
<1>6. Content(log, states, r) /\ i <= r.idx
  BY <1>2, <1>3, <1>4, <1>5 DEF Content
<1> QED
  BY <1>6 DEF r

\* An entry of raft's own moves the index only.
LEMMA SkippedContent ==
  ASSUME History, NEW i \in 1..Len(log), NEW c, Content(log, states, c), i - 1 <= c.idx, ~IsCommand(log[i])
  PROVE  LET r == [c EXCEPT !.idx = IF i > @ THEN i ELSE @] IN Content(log, states, r) /\ i <= r.idx
<1> DEFINE r == [c EXCEPT !.idx = IF i > @ THEN i ELSE @]
<1>1. Len(log) \in Nat
  BY DEF History
<1>2. /\ r \in [there : {TRUE}, data : {r.data}, idx : {r.idx}, pure : {r.pure}]
      /\ r.data = c.data /\ r.pure = c.pure
      /\ r.idx = IF i > c.idx THEN i ELSE c.idx
  BY DEF Content
<1>3. r.idx \in 0..Len(log) /\ i <= r.idx
  BY <1>1, <1>2 DEF Content
<1>4. ASSUME r.pure PROVE r.data = states[r.idx]
  <2>1. c.data = states[c.idx]
    BY <1>2, <1>4 DEF Content
  <2>2. states[i] = states[i - 1]
    BY DEF History, After
  <2>3. r.idx = c.idx \/ (r.idx = i /\ c.idx = i - 1)
    BY <1>1, <1>2 DEF Content
  <2> QED
    BY <1>2, <2>1, <2>2, <2>3
<1> HIDE DEF r
<1>5. Content(log, states, r) /\ i <= r.idx
  BY <1>2, <1>3, <1>4 DEF Content
<1> QED
  BY <1>5 DEF r

\* The types that the comparisons of indexes rest on.
LEMMA Types ==
  ASSUME Inv
  PROVE  /\ Len(log) \in Nat /\ commitIdx \in Nat /\ fsmIdx \in Nat /\ applied \in Nat
         /\ raftSnap.index \in Nat /\ raftSnap.index <= Len(log)
         /\ pending.index \in Nat /\ pending.index <= Len(log)
         /\ Content(log, states, raftSnap.store) /\ raftSnap.index <= raftSnap.store.idx
         /\ \A c : Content(log, states, c) => c.idx \in Nat /\ c # NoDir
<1>1. Len(log) \in Nat
  BY DEF Inv, History
<1>2. \A c : Content(log, states, c) => c.idx \in Nat /\ c # NoDir
  BY <1>1 DEF Content, NoDir
<1> QED
  BY <1>1, <1>2 DEF Inv, Indexes, SnapshotOf

\* A Restore that fails leaves the indexes alone.
LEMMA FailedIndexes ==
  ASSUME Inv, Returns(TRUE), UNCHANGED <<log, states, raftSnap, pending, applied>>
  PROVE  Indexes'
BY Types DEF Inv, Indexes, Locking, Restoring, Returns

\* It gives the lock back, and leaves a store that is open unless Close failed.
LEMMA FailedLocking ==
  ASSUME Inv, Returns(TRUE), readers' = readers, open' \in {"open", "closed"},
         closeFailed' \in BOOLEAN, open' = "open" \/ closeFailed', closeFailed' => "close" \in Faults
  PROVE  Locking'
BY DEF Inv, Locking, Restoring, Swapping, Returns

\* It leaves a live directory that holds what the FSM goroutine has consumed.
LEMMA FailedDirectories ==
  ASSUME Inv, Returns(TRUE), UNCHANGED <<log, states, raftSnap>>,
         Dirs(log, states, dir'), \A u \in undo' : Dirs(log, states, u),
         Content(log, states, dir'.live), fsmIdx <= dir'.live.idx
  PROVE  Directories'
BY DEF Inv, Directories, Returns


\* advanceApplied raises f.applied to what the FSM goroutine has consumed.
LEMMA AdvanceKeeps == ASSUME Inv, Advance PROVE Inv'
<1>1. History'
  BY DEF Inv, History, Advance, raftVars, swapVars
<1>2. Indexes'
  BY Types DEF Inv, Indexes, Locking, Restoring, Swapping, Advance, raftVars, swapVars
<1>3. Directories'
  BY Types DEF Inv, Indexes, Directories, Locking, Dirs, Restoring, Swapping, Advance, raftVars, swapVars
<1>4. Locking'
  BY Types DEF Inv, Locking, Restoring, Swapping, Advance, raftVars, swapVars
<1> QED
  BY <1>1, <1>2, <1>3, <1>4 DEF Inv

\* Restore stages the newest snapshot, or fails before anything live is touched.
LEMMA StageKeeps == ASSUME Inv, Stage PROVE Inv'
<1>1. History'
  BY DEF Inv, History, Stage
<1>2. CASE Returns(TRUE)
  <2>1. Indexes'
    BY <1>2, FailedIndexes DEF Stage
  <2>2. Directories'
    <3>1. Content(log, states, dir'.live) /\ fsmIdx <= dir'.live.idx
      BY <1>2, Types DEF Inv, Directories, Dirs, Returns, Stage
    <3>2. Dirs(log, states, dir') /\ \A u \in undo' : Dirs(log, states, u)
      BY <1>2, Types DEF Inv, Directories, Dirs, Returns, Stage
    <3> QED
      BY <1>2, <3>1, <3>2, FailedDirectories DEF Stage
  <2>3. Locking'
    BY <1>2, FailedLocking DEF Inv, Locking, Returns, Stage
  <2> QED
    BY <1>1, <2>1, <2>2, <2>3 DEF Inv
<1>3. CASE ~Returns(TRUE)
  <2>1. /\ fpc' = "lock"
        /\ dir' = [dir EXCEPT !.restore = raftSnap.store, !.old = NoDir]
        /\ UNCHANGED <<commitIdx, fsmIdx, startup, locked>>
    BY <1>3 DEF Stage
  <2>2. Indexes'
    BY <2>1, Types DEF Inv, Indexes, Restoring, Swapping, Stage
  <2>3. Directories'
    BY <2>1, Types DEF Inv, Indexes, Directories, Dirs, Restoring, Stage
  <2>4. Locking'
    BY <2>1, Types DEF Inv, Locking, Restoring, Swapping, Stage
  <2> QED
    BY <1>1, <2>2, <2>3, <2>4 DEF Inv
<1> QED
  BY <1>2, <1>3

\* lockForSwap takes the lock when nobody reads.
LEMMA LockKeeps == ASSUME Inv, LockForSwap PROVE Inv'
<1>1. History'
  BY DEF Inv, History, LockForSwap, Returns
<1>2. Indexes'
  BY Types DEF Inv, Indexes, Locking, Restoring, Swapping, LockForSwap, Returns
<1>3. Directories'
  BY Types DEF Inv, Indexes, Directories, Locking, Dirs, Restoring, Swapping, LockForSwap, Returns
<1>4. Locking'
  BY Types DEF Inv, Locking, Restoring, Swapping, LockForSwap, Returns
<1> QED
  BY <1>1, <1>2, <1>3, <1>4 DEF Inv

\* swapIn closes the store under the lock.
LEMMA CloseKeeps == ASSUME Inv, CloseStore PROVE Inv'
<1>1. History'
  BY DEF Inv, History, CloseStore
<1>2. CASE Returns(TRUE)
  <2>1. Indexes'
    BY <1>2, FailedIndexes DEF CloseStore
  <2>2. Directories'
    <3>1. Content(log, states, dir'.live) /\ fsmIdx <= dir'.live.idx
      BY <1>2, Types DEF Inv, Directories, Dirs, Returns, CloseStore
    <3>2. Dirs(log, states, dir') /\ \A u \in undo' : Dirs(log, states, u)
      BY <1>2, Types DEF Inv, Directories, Dirs, Returns, CloseStore
    <3> QED
      BY <1>2, <3>1, <3>2, FailedDirectories DEF CloseStore
  <2>3. Locking'
    BY <1>2, FailedLocking DEF Inv, Locking, Returns, CloseStore, Fails
  <2> QED
    BY <1>1, <2>1, <2>2, <2>3 DEF Inv
<1>3. CASE ~Returns(TRUE)
  <2>1. /\ fpc' = "stash" /\ open' = "closed"
        /\ UNCHANGED <<commitIdx, fsmIdx, dir, closeFailed, startup, locked>>
    BY <1>3 DEF CloseStore
  <2>2. Indexes'
    BY <2>1, Types DEF Inv, Indexes, Restoring, Swapping, CloseStore
  <2>3. Directories'
    BY <2>1, Types DEF Inv, Indexes, Directories, Dirs, Restoring, CloseStore
  <2>4. Locking'
    BY <2>1, Types DEF Inv, Locking, Restoring, Swapping, CloseStore
  <2> QED
    BY <1>1, <2>2, <2>3, <2>4 DEF Inv
<1> QED
  BY <1>2, <1>3

\* swapIn moves the live directory aside.
LEMMA StashKeeps == ASSUME Inv, Stash PROVE Inv'
<1>1. History'
  BY DEF Inv, History, Stash
<1>2. CASE Returns(TRUE)
  <2>1. Indexes'
    BY <1>2, FailedIndexes DEF Stash
  <2>2. Directories'
    <3>1. Content(log, states, dir'.live) /\ fsmIdx <= dir'.live.idx
      BY <1>2, Types DEF Inv, Directories, Dirs, Returns, Stash, Recover, Reopen
    <3>2. Dirs(log, states, dir') /\ \A u \in undo' : Dirs(log, states, u)
      BY <1>2, Types DEF Inv, Directories, Dirs, Returns, Stash, Recover, Reopen
    <3> QED
      BY <1>2, <3>1, <3>2, FailedDirectories DEF Stash
  <2>3. Locking'
    BY <1>2, FailedLocking DEF Inv, Locking, Returns, Stash, Recover, Reopen
  <2> QED
    BY <1>1, <2>1, <2>2, <2>3 DEF Inv
<1>3. CASE ~Returns(TRUE)
  <2>1. /\ fpc' = "install" /\ undo' = undo \cup {dir}
        /\ dir' = [dir EXCEPT !.old = dir.live, !.live = NoDir]
        /\ UNCHANGED <<commitIdx, fsmIdx, open, closeFailed, locked, startup>>
    BY <1>3 DEF Stash, Recover, Reopen
  <2>2. Indexes'
    BY <2>1, Types DEF Inv, Indexes, Restoring, Swapping, Stash
  <2>3. Directories'
    BY <2>1, Types DEF Inv, Indexes, Directories, Dirs, Restoring, Stash
  <2>4. Locking'
    BY <2>1, Types DEF Inv, Locking, Restoring, Swapping, Stash
  <2> QED
    BY <1>1, <2>2, <2>3, <2>4 DEF Inv
<1> QED
  BY <1>2, <1>3

\* swapIn moves the staged directory in, or the old one back.
LEMMA InstallKeeps == ASSUME Inv, Install PROVE Inv'
<1>1. History'
  BY DEF Inv, History, Install
<1>2. CASE Returns(TRUE)
  <2>1. Indexes'
    BY <1>2, FailedIndexes DEF Install
  <2>2. Directories'
    <3>1. Content(log, states, dir'.live) /\ fsmIdx <= dir'.live.idx
      BY <1>2, Types DEF Inv, Directories, Dirs, Returns, Install, Recover, Reopen
    <3>2. Dirs(log, states, dir') /\ \A u \in undo' : Dirs(log, states, u)
      BY <1>2, Types DEF Inv, Directories, Dirs, Returns, Install, Recover, Reopen
    <3> QED
      BY <1>2, <3>1, <3>2, FailedDirectories DEF Install
  <2>3. Locking'
    BY <1>2, FailedLocking DEF Inv, Locking, Returns, Install, Recover, Reopen
  <2> QED
    BY <1>1, <2>1, <2>2, <2>3 DEF Inv
<1>3. CASE ~Returns(TRUE)
  <2>1. \/ /\ fpc' = "syncdir" /\ undo' = undo \cup {dir}
           /\ dir' = [dir EXCEPT !.live = dir.restore, !.restore = NoDir]
           /\ UNCHANGED <<commitIdx, fsmIdx, open, closeFailed, locked, startup>>
        \/ fpc' = "dead" /\ UNCHANGED <<commitIdx, fsmIdx, dir, undo, open, closeFailed, locked, startup>>
    BY <1>3 DEF Install, Recover, Reopen
  <2>2. Indexes'
    BY <2>1, Types DEF Inv, Indexes, Restoring, Swapping, Install
  <2>3. Directories'
    <3>1. UNCHANGED <<log, states, raftSnap>> /\ fpc = "install"
      BY DEF Install
    <3>2. CASE fpc' = "dead"
      BY <2>1, <3>1, <3>2 DEF Inv, Directories
    <3>3. CASE fpc' = "syncdir"
      <4>1. Content(log, states, dir.restore) /\ raftSnap.index <= dir.restore.idx
        BY <3>1 DEF Inv, Directories
      <4>2. dir'.live = dir.restore /\ Dirs(log, states, dir')
        BY <2>1, <3>3, <4>1 DEF Inv, Directories, Dirs
      <4>3. fsmIdx <= dir.restore.idx
        BY <3>1, <4>1, Types DEF Inv, Indexes, Restoring
      <4> QED
        BY <2>1, <3>1, <3>3, <4>1, <4>2, <4>3 DEF Inv, Directories
    <3> QED
      BY <2>1, <3>2, <3>3
  <2>4. Locking'
    <3>1. fpc = "install" /\ readers' = readers
      BY DEF Install
    <3>2. /\ fpc' \in {"syncdir", "dead"}
          /\ UNCHANGED <<open, closeFailed, locked, startup, readers>>
      BY <2>1, <3>1
    <3> QED
      BY <3>1, <3>2 DEF Inv, Locking, Restoring, Swapping
  <2> QED
    BY <1>1, <2>2, <2>3, <2>4 DEF Inv
<1> QED
  BY <1>2, <1>3

\* swapIn syncs the parent directory and opens the new store.
LEMMA SyncKeeps == ASSUME Inv, SyncAndReopen PROVE Inv'
<1>1. History'
  BY DEF Inv, History, SyncAndReopen, Reopen, raftVars
<1>2. Indexes'
  BY Types DEF Inv, Indexes, Locking, Restoring, Swapping, SyncAndReopen, Reopen, raftVars
<1>3. Directories'
  BY Types DEF Inv, Indexes, Directories, Locking, Dirs, Restoring, Swapping, SyncAndReopen, Reopen, raftVars
<1>4. Locking'
  BY Types DEF Inv, Locking, Restoring, Swapping, SyncAndReopen, Reopen, raftVars
<1> QED
  BY <1>1, <1>2, <1>3, <1>4 DEF Inv

\* swapIn removes the old directory, and Restore returns.
LEMMA DropKeeps == ASSUME Inv, DropOld PROVE Inv'
<1>1. History'
  BY DEF Inv, History, DropOld, Returns
<1>2. Indexes'
  BY Types DEF Inv, Indexes, Locking, Restoring, Swapping, DropOld, Returns
<1>3. Directories'
  BY Types DEF Inv, Indexes, Directories, Locking, Dirs, Restoring, Swapping, DropOld, Returns
<1>4. Locking'
  BY Types DEF Inv, Locking, Restoring, Swapping, DropOld, Returns
<1> QED
  BY <1>1, <1>2, <1>3, <1>4 DEF Inv

\* Invalidating the cache, waking the waiters and locking for a read move no index.
LEMMA QuietKeeps == ASSUME Inv, (Invalidate \/ Wake \/ ReadLock \/ ReadUnlock) PROVE Inv'
<1>1. History'
  BY DEF Inv, History, Invalidate, Wake, ReadLock, ReadUnlock, raftVars, swapVars
<1>2. Indexes'
  BY Types DEF Inv, Indexes, Locking, Restoring, Swapping, Invalidate, Wake, ReadLock, ReadUnlock, raftVars, swapVars
<1>3. Directories'
  BY Types DEF Inv, Indexes, Directories, Locking, Dirs, Restoring, Swapping, Invalidate, Wake, ReadLock, ReadUnlock, raftVars, swapVars
<1>4. Locking'
  BY Types DEF Inv, Locking, Restoring, Swapping, Invalidate, Wake, ReadLock, ReadUnlock, raftVars, swapVars
<1> QED
  BY <1>1, <1>2, <1>3, <1>4 DEF Inv

\* The fence raises f.applied to an index the FSM goroutine has passed.
LEMMA ObserveKeeps == ASSUME NEW i \in 1..Len(log), Inv, ObserveAppliedIndex(i) PROVE Inv'
<1>1. History'
  BY DEF Inv, History, ObserveAppliedIndex, raftVars, swapVars
<1>2. Indexes'
  BY Types DEF Inv, Indexes, Locking, Restoring, Swapping, ObserveAppliedIndex, raftVars, swapVars
<1>3. Directories'
  BY Types DEF Inv, Indexes, Directories, Locking, Dirs, Restoring, Swapping, ObserveAppliedIndex, raftVars, swapVars
<1>4. Locking'
  BY Types DEF Inv, Locking, Restoring, Swapping, ObserveAppliedIndex, raftVars, swapVars
<1> QED
  BY <1>1, <1>2, <1>3, <1>4 DEF Inv

\* The node learns of a commit.
LEMMA LearnKeeps == ASSUME NEW i \in 1..Len(log), Inv, LearnCommit(i) PROVE Inv'
<1>1. History'
  BY DEF Inv, History, LearnCommit, swapVars
<1>2. Indexes'
  BY Types DEF Inv, Indexes, Locking, Restoring, Swapping, LearnCommit, swapVars
<1>3. Directories'
  BY Types DEF Inv, Indexes, Directories, Locking, Dirs, Restoring, Swapping, LearnCommit, swapVars
<1>4. Locking'
  BY Types DEF Inv, Locking, Restoring, Swapping, LearnCommit, swapVars
<1> QED
  BY <1>1, <1>2, <1>3, <1>4 DEF Inv

\* Apply consumes one entry: the directory keeps up with the FSM goroutine.
LEMMA ApplyKeeps == ASSUME Inv, Apply PROVE Inv'
<1> DEFINE i == fsmIdx + 1
<1>1. History'
  BY DEF Inv, History, Apply
<1>2. i \in 1..Len(log) /\ i - 1 = fsmIdx /\ i \in Nat
  <2>1. fsmIdx < commitIdx
    BY Zenon DEF Apply
  <2> QED
    BY <2>1, Types DEF Inv, Indexes
<1>a. /\ fpc = "idle" /\ fsmIdx' \in {fsmIdx, i}
      /\ fpc' \in {"idle", "dead", "invalidate", "advance"}
      /\ UNCHANGED <<log, states, commitIdx, raftSnap, pending, open, closeFailed, locked, startup,
                     readers, applied>>
  <2>1. CASE ~IsCommand(log[i])
    BY <2>1, Zenon DEF Apply, swapVars
  <2>2. CASE IsCommand(log[i]) /\ open # "open" /\ ~RejectedAtOnce(log[i])
    BY <2>2, Zenon DEF Apply, swapVars
  <2>3. CASE IsCommand(log[i]) /\ (open = "open" \/ RejectedAtOnce(log[i]))
    BY <2>3, Zenon DEF Apply, swapVars
  <2> QED
    BY <2>1, <2>2, <2>3
<1>3. Indexes'
  BY <1>2, <1>a, Types DEF Inv, Indexes, Locking, Restoring
<1>4. Locking'
  BY <1>a DEF Inv, Locking, Restoring, Swapping
<1>5. Content(log, states, dir.live) /\ i - 1 <= dir.live.idx /\ fpc = "idle"
  BY <1>2 DEF Inv, Directories, Apply
<1>6. Directories'
  <2>1. CASE ~IsCommand(log[i])
    <3> DEFINE r == [dir.live EXCEPT !.idx = IF i > @ THEN i ELSE @]
    <3>1. Content(log, states, r) /\ i <= r.idx
      BY <1>1, <1>2, <1>5, <2>1, SkippedContent DEF Inv
    <3>2. dir' = [dir EXCEPT !.live = r] /\ fsmIdx' = i /\ fpc' \in {"idle", "advance"}
      BY <1>5, <2>1 DEF Apply
    <3> HIDE DEF r
    <3> QED
      BY <3>1, <3>2 DEF Inv, Directories, Dirs, Apply, swapVars
  <2>2. CASE IsCommand(log[i]) /\ (open = "open" \/ RejectedAtOnce(log[i]))
    <3> DEFINE r == Applied(dir.live, i)
    <3>1. Content(log, states, r) /\ i <= r.idx
      BY <1>1, <1>2, <1>5, <2>2, AppliedContent DEF Inv
    <3>2. dir' = [dir EXCEPT !.live = r] /\ fsmIdx' = i /\ fpc' \in {"invalidate", "advance"}
      BY <2>2 DEF Apply
    <3> HIDE DEF r
    <3> QED
      BY <3>1, <3>2 DEF Inv, Directories, Dirs, Apply, swapVars
  <2>3. CASE IsCommand(log[i]) /\ open # "open" /\ ~RejectedAtOnce(log[i])
    BY <2>3 DEF Inv, Directories, Apply, swapVars
  <2> QED
    BY <2>1, <2>2, <2>3
<1> QED
  BY <1>1, <1>3, <1>4, <1>6 DEF Inv

\* A commit extends the log, and leaves every prefix of it as it was.
LEMMA CommitKeeps == ASSUME Inv, CommitAnywhere PROVE Inv'
<1>1. PICK e \in Commands \cup RaftEntries : Commit(e)
  BY DEF CommitAnywhere
<1> DEFINE n == Len(log)
<1>2. n \in Nat /\ log \in Seq(Commands \cup RaftEntries)
  BY DEF Inv, History
<1>3. /\ log' \in Seq(Commands \cup RaftEntries) /\ Len(log') = n + 1
      /\ log'[n + 1] = e /\ \A i \in 1..n : log'[i] = log[i]
  BY <1>1, <1>2 DEF Commit
<1>4. /\ DOMAIN states' = 0..(n + 1)
      /\ states'[n + 1] = After(states[n], e) /\ \A i \in 0..n : states'[i] = states[i]
  BY <1>1, <1>2 DEF Commit
<1>5. History'
  <2>1. DOMAIN states' = 0..Len(log') /\ states'[0] = EmptyStore
    BY <1>2, <1>3, <1>4 DEF Inv, History
  <2>2. ASSUME NEW i \in 1..Len(log') PROVE states'[i] = After(states'[i - 1], log'[i])
    <3>1. CASE i = n + 1
      BY <1>2, <1>3, <1>4, <3>1
    <3>2. CASE i # n + 1
      <4>1. i \in 1..n /\ i \in 0..n /\ i - 1 \in 0..n
        BY <1>2, <1>3, <3>2
      <4> QED
        BY <1>3, <1>4, <4>1 DEF Inv, History
    <3> QED
      BY <3>1, <3>2
  <2>3. History' = /\ log' \in Seq(Commands \cup RaftEntries)
                   /\ DOMAIN states' = 0..Len(log') /\ states'[0] = EmptyStore
                   /\ \A i \in 1..Len(log') : states'[i] = After(states'[i - 1], log'[i])
    BY DEF History, EmptyStore, After, IsCommand, Exec, RaftEntries
  <2> QED
    BY <1>3, <2>1, <2>2, <2>3
<1>6. ASSUME NEW c, Content(log, states, c) PROVE Content(log', states', c)
  <2>1. c.idx \in 0..n /\ c.idx \in 0..Len(log')
    BY <1>2, <1>3, <1>6 DEF Content
  <2> QED
    BY <1>4, <1>6, <2>1 DEF Content
<1>7. \A d : Dirs(log, states, d) => Dirs(log', states', d)
  BY <1>6 DEF Dirs
<1>8. \A s : SnapshotOf(log, states, s) => SnapshotOf(log', states', s)
  BY <1>2, <1>3, <1>6 DEF SnapshotOf
<1>9. Indexes'
  BY <1>2, <1>3, <1>8, Types DEF Inv, Indexes, CommitAnywhere, swapVars
<1>10. Directories'
  BY <1>6, <1>7 DEF Inv, Directories, CommitAnywhere, swapVars
<1>11. Locking'
  BY DEF Inv, Locking, CommitAnywhere, swapVars
<1> QED
  BY <1>5, <1>9, <1>10, <1>11 DEF Inv

\* Persist replaces the newest snapshot, except during a Restore.
LEMMA PersistKeeps == ASSUME Inv, Persist PROVE Inv'
<1>1. History'
  BY DEF Inv, History, Persist, swapVars
<1>2. Indexes'
  <2>1. SnapshotOf(log, states, NoSnap) /\ NoSnap.index = 0
    BY FreshContent DEF Inv, NoSnap
  <2>2. \/ raftSnap' = raftSnap
        \/ raftSnap' = pending /\ fpc \notin Restoring
    BY Types DEF Inv, Indexes, Persist
  <2> QED
    BY <2>1, <2>2, Types DEF Inv, Indexes, Locking, Persist, swapVars
<1>3. Directories'
  BY Types DEF Inv, Indexes, Directories, Locking, Dirs, Restoring, Swapping, Persist, swapVars
<1>4. Locking'
  BY Types DEF Inv, Locking, Restoring, Swapping, Persist, swapVars
<1> QED
  BY <1>1, <1>2, <1>3, <1>4 DEF Inv

\* Snapshot takes the store as the FSM goroutine has built it.
LEMMA SnapKeeps == ASSUME Inv, Snapshot PROVE Inv'
<1>1. History'
  BY DEF Inv, History, Snapshot, Happens, swapVars
<1>2. Indexes'
  <2>1. SnapshotOf(log, states, pending') /\ pending'.index = fsmIdx
    BY DEF Inv, Indexes, Directories, SnapshotOf, Snapshot
  <2> QED
    BY <2>1, Types DEF Inv, Indexes, Snapshot, swapVars
<1>3. Directories'
  BY Types DEF Inv, Indexes, Directories, Locking, Dirs, Restoring, Swapping, Snapshot, Happens, swapVars
<1>4. Locking'
  BY Types DEF Inv, Locking, Restoring, Swapping, Snapshot, Happens, swapVars
<1> QED
  BY <1>1, <1>2, <1>3, <1>4 DEF Inv

\* A crash brings back a directory that was there.
LEMMA CrashKeeps == ASSUME Inv, Crash PROVE Inv'
<1>1. History'
  BY DEF Inv, History, Crash
<1>2. Indexes'
  BY FreshContent, Types DEF Inv, Indexes, NoSnap, Restoring, Crash
<1>3. Directories'
  BY Types DEF Inv, Indexes, Directories, Locking, Dirs, Restoring, Swapping, Crash
<1>4. Locking'
  BY Types DEF Inv, Locking, Restoring, Swapping, Crash
<1> QED
  BY <1>1, <1>2, <1>3, <1>4 DEF Inv

\* The leader's snapshot is the state of the log's prefix, and newer than any of its own.
LEMMA InstallSnapshotKeeps == ASSUME NEW i \in 1..Len(log), Inv, InstallSnapshot(i) PROVE Inv'
<1> DEFINE c == [there |-> TRUE, data |-> states[i], idx |-> i, pure |-> TRUE]
<1>1. Content(log, states, c) /\ i \in Nat
  BY Types DEF Content
<1>2. raftSnap' = [index |-> i, store |-> c] /\ fsmIdx < i
  BY DEF InstallSnapshot
<1>3. SnapshotOf(log, states, raftSnap') /\ raftSnap'.index = i
  BY <1>1, <1>2, Types DEF SnapshotOf
<1> HIDE DEF c
<1>4. History'
  BY DEF Inv, History, InstallSnapshot
<1>5. Indexes'
  BY <1>1, <1>2, <1>3, Types DEF Inv, Indexes, Locking, InstallSnapshot, Restoring, swapVars
<1>6. Directories'
  BY DEF Inv, Directories, InstallSnapshot, swapVars
<1>7. Locking'
  BY DEF Inv, Locking, InstallSnapshot, Restoring, Swapping, swapVars
<1> QED
  BY <1>4, <1>5, <1>6, <1>7 DEF Inv

\* A node starts on the directory it finds, or on an empty one.
LEMMA RestartKeeps == ASSUME Inv, Restart PROVE Inv'
<1>1. History'
  BY DEF Inv, History, Restart
<1>2. Indexes'
  BY Types DEF Inv, Indexes, Locking, Restoring, Restart
<1>3. Content(log, states, Fresh) /\ Fresh.idx = 0
  BY FreshContent DEF Inv, Fresh
<1>4. Directories'
  <2>1. Content(log, states, dir'.live) /\ Dirs(log, states, dir')
    BY <1>3 DEF Inv, Directories, Dirs, Restart
  <2>2. fsmIdx = 0 /\ fpc' \in {"stage", "idle"} /\ UNCHANGED <<log, states, fsmIdx, undo>>
    BY DEF Inv, Indexes, Restart
  <2> QED
    BY <2>1, <2>2, Types DEF Inv, Directories
<1>5. Locking'
  BY DEF Inv, Locking, Restoring, Swapping, Restart, Reopen
<1> QED
  BY <1>1, <1>2, <1>4, <1>5 DEF Inv

\* The inductive invariant of a replica.
THEOREM InvTheorem == FSMSpec => []Inv
<1>1. FSMInit => Inv
  <2> SUFFICES ASSUME FSMInit PROVE Inv
    OBVIOUS
  <2>1. History
    BY DEF FSMInit, History
  <2>2. Indexes
    BY <2>1, FreshContent DEF FSMInit, Indexes, NoSnap, Restoring
  <2>3. Directories
    BY <2>1, FreshContent DEF FSMInit, Directories, Dirs, Fresh
  <2>4. Locking
    BY DEF FSMInit, Locking, Restoring, Swapping
  <2> QED
    BY <2>1, <2>2, <2>3, <2>4 DEF Inv
<1>2. Inv /\ [FSMNext]_fsmVars => Inv'
  <2> SUFFICES ASSUME Inv, [FSMNext]_fsmVars PROVE Inv'
    OBVIOUS
  <2>1. CASE FSMStep
    BY <2>1, ApplyKeeps, QuietKeeps, AdvanceKeeps, StageKeeps, LockKeeps, CloseKeeps, StashKeeps,
       InstallKeeps, SyncKeeps, DropKeeps DEF FSMStep
  <2>2. CASE CommitAnywhere \/ Snapshot \/ Persist \/ Crash \/ Restart \/ ReadLock \/ ReadUnlock
    BY <2>2, CommitKeeps, SnapKeeps, PersistKeeps, CrashKeeps, RestartKeeps, QuietKeeps
  <2>3. CASE \E i \in 1..Len(log) : LearnCommit(i) \/ InstallSnapshot(i) \/ ObserveAppliedIndex(i)
    BY <2>3, LearnKeeps, InstallSnapshotKeeps, ObserveKeeps
  <2>4. CASE UNCHANGED fsmVars
    <3> USE <2>4 DEF fsmVars, raftVars, swapVars
    <3>1. History'
      BY DEF Inv, History
    <3>2. Indexes' /\ Directories' /\ Locking'
      BY DEF Inv, Indexes, Directories, Locking
    <3> QED
      BY <3>1, <3>2 DEF Inv
  <2> QED
    BY <2>1, <2>2, <2>3, <2>4 DEF FSMNext
<1> QED
  BY <1>1, <1>2, PTL DEF FSMSpec

\* FSMTypeOK for every log: indexes stay within it, and the lock is held by a swap only.
THEOREM TypeTheorem == FSMSpec => []FSMTypeOK
<1>1. ASSUME Inv PROVE FSMTypeOK
  <2>1. applied \in 0..Len(log) /\ raftSnap.index \in 0..Len(log) /\ pending.index \in 0..Len(log)
    BY <1>1, Types DEF Inv, Indexes
  <2>2. dir.live = NoDir => fpc \in {"install", "down", "dead"}
    BY <1>1, Types DEF Inv, Directories
  <2>3. locked => fpc \in {"close", "stash", "install", "syncdir", "drop", "dead"} /\ readers = 0
    BY <1>1 DEF Inv, Locking, Swapping
  <2> QED
    BY <1>1, <2>1, <2>2, <2>3 DEF Inv, History, Indexes, FSMTypeOK
<1> QED
  BY <1>1, InvTheorem, PTL

\* Whoever takes f.mu finds an open store, after any sequence of failures, unless Close
\* has failed in a swap (swapIn) and no Restore has opened the store again since.
THEOREM StoreIsOpenTheorem == FSMSpec => []StoreIsOpen
<1>1. Inv => StoreIsOpen
  BY DEF Inv, Locking, Swapping, StoreIsOpen, AlwaysOpen
<1> QED
  BY <1>1, InvTheorem, PTL

\* "Outside Close, f.store is always an open store" (swapIn): where Close does not fail,
\* that is so without exception, whichever other steps of Restore fail.
THEOREM AlwaysOpenTheorem == ASSUME "close" \notin Faults PROVE FSMSpec => []AlwaysOpen
<1>1. Inv => AlwaysOpen
  BY DEF Inv, Locking, Swapping, AlwaysOpen
<1> QED
  BY <1>1, InvTheorem, PTL

\* A replica that serves reflects all that raft has handed over, and f.applied promises no
\* more than that, after any number of crashes and of Restores that failed half-way.
THEOREM ReplicaTheorem == FSMSpec => [](ReplicaConverges /\ AppliedIsVisible)
<1>1. ASSUME Inv, Serving PROVE Content(log, states, dir.live) /\ fsmIdx <= dir.live.idx
  BY <1>1 DEF Inv, Directories, Serving
<1>2. Inv => ReplicaConverges
  BY <1>1, Types DEF ReplicaConverges, Content
<1>3. Inv => AppliedIsVisible
  BY <1>1, Types DEF Inv, Indexes, AppliedIsVisible
<1> QED
  BY <1>2, <1>3, InvTheorem, PTL
=============================================================================

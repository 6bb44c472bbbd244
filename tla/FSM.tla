--------------------------------- MODULE FSM ---------------------------------
(***************************************************************************)
(* One replica of the cluster: the FSM that wraps a db.KV (cluster/fsm.go, *)
(* fsm_snapshot.go, command.go), driven by raft.                           *)
(*                                                                         *)
(* Raft is external: the committed log, the snapshot store that survives a *)
(* crash, and one goroutine that calls Apply, Snapshot and Restore one at  *)
(* a time.  A store is what its reads return; it lives in a data directory *)
(* that Restore replaces by renaming.                                      *)
(***************************************************************************)
EXTENDS Naturals, Sequences

CONSTANTS
  Keys, Vals, Absent,   \* a store maps keys to values or to Absent
  Commands,             \* the commands clients send, each a record with its mutations
  Faults,               \* the operations that may fail
  MaxLog, MaxReaders,   \* bounds on the log and on the lock holders
  MaxEvents             \* and on crashes, failures and snapshots

ASSUME FSMAssumption ==
  MaxLog \in Nat /\ MaxReaders \in Nat /\ MaxEvents \in Nat

VARIABLES
  log,          \* raft: the committed entries
  states,       \* history variable: states[i] is the store after i entries
  commitIdx,    \* how much of the log this node knows to be committed
  raftSnap,     \* the newest snapshot in this node's snapshot store
  pending,      \* a snapshot whose Persist is under way
  fsmIdx,       \* the last entry the FSM goroutine has consumed
  fpc,          \* what the FSM goroutine is doing
  startup,      \* the Restore under way belongs to NewRaft
  dir,          \* the data directory and its siblings .restore and .old
  undo,         \* states of dir that a crash may bring back
  open,         \* f.store: "open" or "closed"
  closeFailed,  \* history variable: Close has failed since f.store was last opened
  locked,       \* f.mu is held for writing
  readers,      \* how many hold it for reading, apart from the FSM goroutine
  syncErr,      \* the fsync of the parent directory has failed
  applied,      \* f.applied
  events        \* how often Happens

raftVars == <<log, states, commitIdx, raftSnap, pending, fsmIdx>>
swapVars == <<undo, open, closeFailed, locked, syncErr, startup>>
fsmVars == <<raftVars, fpc, dir, swapVars, readers, applied>>

Happens == events < MaxEvents /\ events' = events + 1
Fails(op) == op \in Faults /\ Happens

EmptyStore == [k \in Keys |-> Absent]

\* What a directory holds: the store, and two history fields, the entries it reflects
\* and whether each of them was applied to it exactly once.
Fresh == [there |-> TRUE, data |-> EmptyStore, idx |-> 0, pure |-> TRUE]
NoDir == [there |-> FALSE]
NoSnap == [index |-> 0, store |-> Fresh]

FSMInit ==
  /\ log = <<>> /\ states = [i \in {0} |-> EmptyStore] /\ commitIdx = 0
  /\ raftSnap = NoSnap /\ pending = NoSnap /\ fsmIdx = 0
  /\ fpc = "idle" /\ startup = FALSE
  /\ dir = [live |-> Fresh, restore |-> NoDir, old |-> NoDir]
  /\ undo = {} /\ open = "open" /\ closeFailed = FALSE /\ locked = FALSE /\ readers = 0 /\ syncErr = FALSE
  /\ applied = 0
  /\ events = 0

-----------------------------------------------------------------------------
(* What a command does: applyCommand and applyBatch. *)

\* The modes updateMode accepts.
Modes == {"upsert", "insert", "update"}

\* KVTX.SetEx in the mode of the mutation.
SetEx(store, m) ==
  IF \/ m.mode = "insert" /\ store[m.key] # Absent
     \/ m.mode = "update" /\ store[m.key] = Absent
  THEN store ELSE [store EXCEPT ![m.key] = m.val]

Mutate(store, m) ==
  IF m.op = "put" THEN SetEx(store, m) ELSE [store EXCEPT ![m.key] = Absent]

\* A bad mode is rejected alike on every replica, and aborts the whole batch.
Rejected(cmd) ==
  \E i \in DOMAIN cmd.muts : cmd.muts[i].op = "put" /\ cmd.muts[i].mode \notin Modes

\* A rejection that comes before the store is touched.
RejectedAtOnce(cmd) ==
  /\ cmd.muts # <<>>
  /\ cmd.muts[1].op = "put" /\ cmd.muts[1].mode \notin Modes

\* The mutations are applied in order, in one transaction.
Exec(store, cmd) ==
  LET after[i \in 0..Len(cmd.muts)] ==
        IF i = 0 THEN store ELSE Mutate(after[i - 1], cmd.muts[i])
  IN  IF Rejected(cmd) THEN store ELSE after[Len(cmd.muts)]

\* Raft's own entries carry no command.
Noop == [op |-> "noop", muts |-> <<>>]
Barrier == [op |-> "barrier", muts |-> <<>>]
Configuration == [op |-> "configuration", muts |-> <<>>]
RaftEntries == {Noop, Barrier, Configuration}
IsCommand(entry) == entry \notin RaftEntries
After(store, entry) == IF IsCommand(entry) THEN Exec(store, entry) ELSE store

-----------------------------------------------------------------------------
(* Raft's side. *)

\* An entry is committed in the cluster.
Commit(entry) ==
  /\ log' = Append(log, entry)
  /\ states' = [i \in 0..(Len(log) + 1) |->
                  IF i <= Len(log) THEN states[i] ELSE After(states[Len(log)], entry)]

\* The node learns how much is committed.
LearnCommit(i) ==
  /\ fpc # "down" /\ i \in (commitIdx + 1)..Len(log)
  /\ commitIdx' = i
  /\ UNCHANGED <<log, states, raftSnap, pending, fsmIdx, fpc, dir, swapVars, readers, applied, events>>

\* FSM.Snapshot: IterAll of the store the goroutine has built so far, which Persist
\* streams to the snapshot store on another goroutine.
Snapshot ==
  /\ fpc = "idle" /\ open = "open" /\ pending = NoSnap /\ fsmIdx > raftSnap.index /\ Happens
  /\ pending' = [index |-> fsmIdx, store |-> dir.live]
  /\ UNCHANGED <<log, states, commitIdx, raftSnap, fsmIdx, fpc, dir, swapVars, readers, applied>>

\* Persist ends: its sink is closed, or cancelled on an error.
Persist ==
  /\ fpc # "down" /\ pending # NoSnap
  /\ raftSnap' \in {raftSnap, IF pending.index > raftSnap.index THEN pending ELSE raftSnap}
  /\ pending' = NoSnap
  /\ UNCHANGED <<log, states, commitIdx, fsmIdx, fpc, dir, swapVars, readers, applied, events>>

-----------------------------------------------------------------------------
(* Apply. *)

\* Variant: an entry that the store reflects is not deleted again.
AppliedKeepsDeleted(content, i) ==
  [there |-> TRUE,
   data |-> IF i <= content.idx /\ \A j \in DOMAIN log[i].muts : log[i].muts[j].op # "put"
            THEN content.data ELSE Exec(content.data, log[i]),
   idx |-> IF i > content.idx THEN i ELSE content.idx,
   pure |-> content.pure /\ content.idx = i - 1]

\* The store after entry i, were it at i - 1 or already past it.
Applied(content, i) ==
  [there |-> TRUE,
   data |-> Exec(content.data, log[i]),
   idx |-> IF i > content.idx THEN i ELSE content.idx,
   pure |-> content.pure /\ content.idx = i - 1]

\* The FSM goroutine takes the next entry.  A no-op is not routed to the FSM, a barrier
\* only passes through, and a configuration goes to StoreConfiguration.  The first
\* mutation that meets a closed store makes applyCommand abort the process; otherwise
\* the transaction commits, and readers see it at once, or the command is rejected.
Apply ==
  /\ fpc = "idle" /\ fsmIdx < commitIdx
  /\ IF ~IsCommand(log[fsmIdx + 1])
     THEN /\ fsmIdx' = fsmIdx + 1
          /\ dir' = [dir EXCEPT !.live.idx = IF fsmIdx + 1 > @ THEN fsmIdx + 1 ELSE @]
          /\ fpc' = IF log[fsmIdx + 1] = Configuration THEN "advance" ELSE fpc
     ELSE IF open # "open" /\ ~RejectedAtOnce(log[fsmIdx + 1])
     THEN fpc' = "dead" /\ UNCHANGED <<fsmIdx, dir>>
     ELSE /\ dir' = [dir EXCEPT !.live = Applied(dir.live, fsmIdx + 1)]
          /\ fsmIdx' = fsmIdx + 1
          /\ fpc' = IF Rejected(log[fsmIdx + 1]) THEN "advance" ELSE "invalidate"
  /\ UNCHANGED <<log, states, commitIdx, raftSnap, pending, swapVars, readers, applied, events>>

\* invalidateCache, still in the commit of the command; the cache belongs to readers.
Invalidate ==
  /\ fpc = "invalidate" /\ fpc' = "advance"
  /\ UNCHANGED <<raftVars, dir, swapVars, readers, applied, events>>

\* advanceApplied at the end of Apply: the index is raised, never lowered, and then the
\* waiters are woken.
Advance ==
  /\ fpc = "advance"
  /\ applied' = IF fsmIdx > applied THEN fsmIdx ELSE applied
  /\ fpc' = IF fsmIdx > applied THEN "wake" ELSE "idle"
  /\ UNCHANGED <<raftVars, dir, swapVars, readers, events>>

Wake ==
  /\ fpc = "wake" /\ fpc' = "idle"
  /\ UNCHANGED <<raftVars, dir, swapVars, readers, applied, events>>

\* ObserveAppliedIndex: "the caller must have established that the FSM goroutine is
\* already past idx".
ObserveAppliedIndex(i) ==
  /\ i <= fsmIdx /\ ~startup
  /\ applied' = IF i > applied THEN i ELSE applied
  /\ UNCHANGED <<raftVars, fpc, dir, swapVars, readers, events>>

-----------------------------------------------------------------------------
(* Restore.  Raft has stored the snapshot before it asks for it to be restored. *)

\* The leader sends a snapshot in place of entries it has compacted away.
InstallSnapshot(i) ==
  /\ fpc = "idle" /\ i > fsmIdx /\ i > raftSnap.index /\ i <= Len(log) /\ Happens
  /\ raftSnap' = [index |-> i, store |-> [there |-> TRUE, data |-> states[i], idx |-> i, pure |-> TRUE]]
  /\ fpc' = "stage"
  /\ UNCHANGED <<log, states, commitIdx, pending, fsmIdx, dir, swapVars, readers, applied>>

\* Restore returns; a node whose Restore fails while it starts does not start.
Returns(failed) ==
  /\ locked' = FALSE /\ startup' = FALSE
  /\ fpc' = IF failed /\ startup THEN "down" ELSE "idle"
  /\ fsmIdx' = IF failed THEN fsmIdx ELSE raftSnap.index
  /\ commitIdx' = IF ~failed /\ raftSnap.index > commitIdx THEN raftSnap.index ELSE commitIdx

\* Variant: the snapshot is staged without checking that it is whole.
StageUnchecked ==
  /\ fpc = "stage"
  /\ \/ dir' = [dir EXCEPT !.restore = raftSnap.store, !.old = NoDir] /\ UNCHANGED events
     \/ Fails("stream") /\ dir' = [dir EXCEPT !.restore = Fresh, !.old = NoDir]
  /\ fpc' = "lock"
  /\ UNCHANGED <<raftVars, swapVars, readers, applied>>

\* What an earlier Restore left is removed, and the snapshot is streamed into a store
\* of its own, checked to its trailer before anything live is touched.
Stage ==
  /\ fpc = "stage"
  /\ \/ /\ dir' = [dir EXCEPT !.restore = raftSnap.store, !.old = NoDir]
        /\ fpc' = "lock"
        /\ UNCHANGED <<commitIdx, fsmIdx, startup, locked, events>>
     \/ /\ Fails("stream")
        /\ dir' = [dir EXCEPT !.restore = NoDir, !.old = NoDir]
        /\ Returns(TRUE)
  /\ UNCHANGED <<log, states, raftSnap, pending, undo, open, closeFailed, readers, syncErr, applied>>

\* Variant: Lock in place of TryLock with a deadline.
LockForSwapForever ==
  /\ fpc = "lock" /\ readers = 0
  /\ locked' = TRUE /\ fpc' = "close"
  /\ UNCHANGED <<raftVars, dir, undo, open, closeFailed, syncErr, startup, readers, applied, events>>

\* lockForSwap: TryLock until it succeeds or the deadline passes (ErrRestoreBusy).
LockForSwap ==
  /\ fpc = "lock"
  /\ \/ /\ readers = 0
        /\ locked' = TRUE /\ fpc' = "close"
        /\ UNCHANGED <<commitIdx, fsmIdx, dir, startup>>
     \/ /\ readers > 0
        /\ dir' = [dir EXCEPT !.restore = NoDir]
        /\ Returns(TRUE)
  /\ UNCHANGED <<log, states, raftSnap, pending, undo, open, closeFailed, readers, syncErr, applied, events>>

\* swapIn closes the store: Close waits for the transaction of a Persist, and the store
\* is closed after it, whether it fails or not.  When it fails Restore returns, and does
\* not reopen the store.  A store that is closed already closes without an error.
CloseStore ==
  /\ fpc = "close" /\ pending = NoSnap /\ open' = "closed"
  /\ \/ /\ fpc' = "stash"
        /\ UNCHANGED <<commitIdx, fsmIdx, dir, closeFailed, locked, startup, events>>
     \/ /\ open = "open" /\ Fails("close")
        /\ closeFailed' = TRUE
        /\ dir' = [dir EXCEPT !.restore = NoDir]
        /\ Returns(TRUE)
  /\ UNCHANGED <<log, states, raftSnap, pending, undo, readers, syncErr, applied>>

\* NewKV on the live directory.
Reopen == open' = "open" /\ closeFailed' = FALSE

\* Variant: the closed store is left behind.
RecoverClosed(d) == dir' = [d EXCEPT !.restore = NoDir] /\ UNCHANGED <<open, closeFailed>> /\ Returns(TRUE)

\* recover: reopen what the live directory holds, and report the cause.
Recover(d) == dir' = [d EXCEPT !.restore = NoDir] /\ Reopen /\ Returns(TRUE)

\* stashDir moves the live directory aside.
Stash ==
  /\ fpc = "stash"
  /\ \/ /\ dir' = [dir EXCEPT !.old = dir.live, !.live = NoDir]
        /\ undo' = undo \cup {dir}
        /\ fpc' = "install"
        /\ UNCHANGED <<commitIdx, fsmIdx, open, closeFailed, locked, startup, events>>
     \/ Fails("rename") /\ Recover(dir) /\ UNCHANGED undo
  /\ UNCHANGED <<log, states, raftSnap, pending, readers, syncErr, applied>>

\* The staged directory is moved in.  When that fails the old one is moved back, and
\* when that fails too the process aborts.
Install ==
  /\ fpc = "install"
  /\ \/ /\ dir' = [dir EXCEPT !.live = dir.restore, !.restore = NoDir]
        /\ undo' = undo \cup {dir} /\ fpc' = "syncdir"
        /\ UNCHANGED <<commitIdx, fsmIdx, open, closeFailed, locked, startup, events>>
     \/ /\ Fails("rename")
        /\ \/ Recover([dir EXCEPT !.live = dir.old, !.old = NoDir]) /\ undo' = undo \cup {dir}
           \/ fpc' = "dead" /\ UNCHANGED <<commitIdx, fsmIdx, dir, undo, open, closeFailed, locked, startup>>
  /\ UNCHANGED <<log, states, raftSnap, pending, readers, syncErr, applied>>

\* syncParentDir makes the renames durable; the new store is opened whether it fails
\* or not.
SyncAndReopen ==
  /\ fpc = "syncdir" /\ fpc' = "drop"
  /\ \/ undo' = {} /\ UNCHANGED <<syncErr, events>>
     \/ Fails("syncdir") /\ syncErr' = TRUE /\ UNCHANGED undo
  /\ Reopen
  /\ UNCHANGED <<raftVars, dir, locked, startup, readers, applied>>

\* The old data is removed, unless the rename may not be durable: then it is kept and
\* Restore reports an error, as it does when it cannot remove it.
DropOld ==
  /\ fpc = "drop"
  /\ \/ /\ ~syncErr
        /\ dir' = [dir EXCEPT !.old = NoDir]
        /\ Returns(FALSE)
        /\ UNCHANGED events
     \/ /\ IF syncErr THEN UNCHANGED events ELSE Fails("remove")
        /\ Returns(TRUE)
        /\ UNCHANGED dir
  /\ syncErr' = FALSE
  /\ UNCHANGED <<log, states, raftSnap, pending, undo, open, closeFailed, readers, applied>>

-----------------------------------------------------------------------------
(* Crashes, restarts and the surroundings of the FSM. *)

\* The process dies, or has aborted: memory is gone, and so may be renames that were
\* not fsynced.
Crash ==
  /\ fpc # "down" /\ Happens
  /\ dir' \in {dir} \cup undo
  /\ fpc' = "down" /\ startup' = FALSE
  /\ undo' = {} /\ open' = "closed" /\ closeFailed' = FALSE
  /\ locked' = FALSE /\ readers' = 0 /\ syncErr' = FALSE
  /\ applied' = 0
  /\ pending' = NoSnap /\ commitIdx' = 0 /\ fsmIdx' = 0
  /\ UNCHANGED <<log, states, raftSnap>>

\* The node is opened again: NewKV on the live directory, created when it is missing,
\* then NewRaft, which restores the newest snapshot if there is one and otherwise
\* hands the FSM the log from its first entry, over the store as it is.
Restart ==
  /\ fpc = "down"
  /\ dir' = [dir EXCEPT !.live = IF dir.live = NoDir THEN Fresh ELSE dir.live]
  /\ Reopen
  /\ IF raftSnap # NoSnap
     THEN fpc' = "stage" /\ startup' = TRUE
     ELSE fpc' = "idle" /\ UNCHANGED startup
  /\ UNCHANGED <<log, states, commitIdx, raftSnap, pending, fsmIdx, undo, locked, readers, syncErr, applied, events>>

FSMStep ==
  \/ Apply \/ Invalidate \/ Advance \/ Wake
  \/ Stage \/ LockForSwap \/ CloseStore \/ Stash \/ Install \/ SyncAndReopen \/ DropOld

\* An entry is committed, by this node or by another.
CommitAnywhere ==
  /\ Len(log) < MaxLog
  /\ \E e \in Commands \cup RaftEntries : Commit(e)
  /\ commitIdx' \in {commitIdx, IF fpc = "down" THEN commitIdx ELSE Len(log')}
  /\ UNCHANGED <<raftSnap, pending, fsmIdx, fpc, dir, swapVars, readers, applied, events>>

\* f.mu.RLock, by Get and by NewTX for as long as a Range streams, and its release.
ReadLock ==
  /\ fpc \notin {"down", "dead"} /\ ~startup /\ ~locked /\ readers < MaxReaders
  /\ readers' = readers + 1
  /\ UNCHANGED <<raftVars, fpc, dir, swapVars, applied, events>>

ReadUnlock ==
  /\ readers > 0 /\ readers' = readers - 1
  /\ UNCHANGED <<raftVars, fpc, dir, swapVars, applied, events>>

FSMNext ==
  \/ FSMStep \/ CommitAnywhere \/ Snapshot \/ Persist \/ Crash \/ Restart \/ ReadLock \/ ReadUnlock
  \/ \E i \in 1..Len(log) : LearnCommit(i) \/ InstallSnapshot(i) \/ ObserveAppliedIndex(i)

\* What one replica does, whatever surrounds it.  A node in which the fence, the readers
\* and the FSM goroutine run side by side keeps to this; in particular it calls
\* ObserveAppliedIndex only for what the FSM goroutine has consumed.
FSMSpec == FSMInit /\ [][FSMNext]_fsmVars

\* Its goroutines, and the one that persists a snapshot, keep running.
FSMFairSpec == FSMSpec /\ WF_fsmVars(FSMStep) /\ WF_fsmVars(Persist)

-----------------------------------------------------------------------------

\* Indexes stay in order, and only a swap holds the lock or leaves no live directory.
FSMTypeOK ==
  /\ commitIdx \in 0..Len(log) /\ fsmIdx \in 0..Len(log) /\ applied \in 0..Len(log)
  /\ DOMAIN states = 0..Len(log)
  /\ raftSnap.index \in 0..Len(log) /\ pending.index \in 0..Len(log)
  /\ dir.live = NoDir => fpc \in {"install", "down", "dead"}
  /\ locked => fpc \in {"close", "stash", "install", "syncdir", "drop", "dead"} /\ readers = 0

\* The replica serves: the process is up and nothing is being swapped.
Serving == fpc \in {"idle", "invalidate", "advance", "wake", "stage", "lock"} /\ ~startup

\* Nothing is lost by a crash, by a failed Restore or by a crash in the middle of one: the
\* store reflects every entry that raft has handed over.  A store to which every entry was
\* applied exactly once holds what the first fsmIdx entries make of an empty store.
ReplicaConverges ==
  Serving =>
    /\ dir.live.idx >= fsmIdx
    /\ dir.live.idx = fsmIdx /\ dir.live.pure => dir.live.data = states[fsmIdx]

\* Entries whose outcome does not depend on the store they meet.
Unconditional(entry) ==
  \A i \in DOMAIN entry.muts : entry.muts[i].op = "put" => entry.muts[i].mode \notin {"insert", "update"}

\* "Crashing lets the node recover by replaying the log" (fatal): a node that restarts
\* without a snapshot replays the log over a store that already reflects it, and arrives
\* at the state of the other replicas; so long as the log holds no conditional put.
ReplayConverges ==
  Serving /\ dir.live.idx = fsmIdx /\ (\A i \in DOMAIN log : Unconditional(log[i]))
    => dir.live.data = states[fsmIdx]

\* "Outside Close, f.store is always an open store": a Restore installs the snapshot, rolls
\* back to a store that serves, or aborts, whichever of its steps fail.
AlwaysOpen == fpc \notin {"down", "dead"} /\ ~locked => open = "open"

\* The code keeps to that except in one case: Close itself fails, and Restore returns with
\* the store closed and not reopened.  The store then stays closed until the next Restore
\* or until the process ends.
StoreIsOpen == AlwaysOpen \/ closeFailed

\* "A returned index N means every entry up to N is visible to Get", whether Apply,
\* StoreConfiguration or the fence has raised it.
AppliedIsVisible == Serving => applied <= dir.live.idx

\* Restore ends although a stalled client streams a Range for ever (lockForSwap).
RestoreEnds ==
  fpc \in {"stage", "lock", "close", "stash", "install", "syncdir", "drop"} ~> fpc \in {"idle", "down", "dead"}
=============================================================================

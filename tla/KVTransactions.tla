---------------------------- MODULE KVTransactions ----------------------------
(***************************************************************************)
(* The transactions of db.KV (db/kv.go): the steps of NewTX, SetEx, Del,   *)
(* Commit and Abort as the locks of the code separate them, with the       *)
(* conflict history and its trimming.                                      *)
(*                                                                         *)
(* A critical section of kv.mu is one step.  kv.commit is held across      *)
(* several steps and is the variable commit.  Where the entries a          *)
(* transaction reads are stored is left open: SetEx and Del take the value *)
(* KVTX.Get returned.  Next reads it from the committed history; KVStore   *)
(* reads it from memtables and SSTables.                                   *)
(***************************************************************************)
EXTENDS SortedKV

CONSTANTS
  Tx,         \* transactions, each used once
  Nobody,     \* a free kv.commit
  Compactor   \* the holder of kv.commit at the end of a flush

ASSUME LockerAssumption == Nobody # Compactor /\ {Nobody, Compactor} \cap Tx = {}

VARIABLES
  closed,     \* kv.closed
  snapshot,   \* kv.snapshot
  history,    \* kv.history, records of a commit number and a key
  ongoing,    \* kv.ongoing, in the order the transactions began
  commit,     \* who holds kv.commit
  pc,         \* where each transaction is
  outcome,    \* what Commit or Abort made of it
  snap,       \* tx.snapshot
  updates,    \* tx.updates
  commits     \* history variable: every commit so far, oldest first

txVars == <<closed, snapshot, history, ongoing, commit, pc, outcome, snap, updates, commits>>

\* A transaction counts as committed or refused from the step that decides it.
Status ==
  [t \in Tx |-> IF outcome[t] # "none" THEN outcome[t]
                ELSE IF pc[t] = "idle" THEN "idle" ELSE "active"]

SI == INSTANCE SnapshotIsolation WITH status <- Status, base <- snap, writes <- updates

TxInit ==
  /\ closed = FALSE
  /\ snapshot = 0
  /\ history = {}
  /\ ongoing = <<>>
  /\ commit = Nobody
  /\ pc = [t \in Tx |-> "idle"]
  /\ outcome = [t \in Tx |-> "none"]
  /\ snap = [t \in Tx |-> 0]
  /\ updates = [t \in Tx |-> EmptyLevel]
  /\ commits = <<>>

Goto(t, label) == pc' = [pc EXCEPT ![t] = label]
Result(t, res) == outcome' = [outcome EXCEPT ![t] = res]

-----------------------------------------------------------------------------

\* NewTX on an open store.
NewTX(t) ==
  /\ pc[t] = "idle"
  /\ ~closed
  /\ snap' = [snap EXCEPT ![t] = snapshot]
  /\ ongoing' = Append(ongoing, t)
  /\ Goto(t, "open")
  /\ UNCHANGED <<closed, snapshot, history, commit, outcome, updates, commits>>

\* NewTX on a closed store: a transaction on which every call returns ErrKVClosed.
NewTXClosed(t) ==
  /\ pc[t] = "idle"
  /\ closed
  /\ Goto(t, "done")
  /\ Result(t, "failed")
  /\ UNCHANGED <<closed, snapshot, history, ongoing, commit, snap, updates, commits>>

\* The three update modes: does writing v over what Get returned change anything?
Modes == {"upsert", "insert", "update"}

Updated(mode, old, v) ==
  \/ mode = "upsert" /\ old # v
  \/ mode = "insert" /\ old = Absent
  \/ mode = "update" /\ old # Absent /\ old # v

SetEx(t, k, v, mode, old) ==
  /\ pc[t] = "open"
  /\ Updated(mode, old, v)
  /\ updates' = [updates EXCEPT ![t][k] = v]
  /\ UNCHANGED <<closed, snapshot, history, ongoing, commit, pc, outcome, snap, commits>>

Del(t, k, old) ==
  /\ pc[t] = "open"
  /\ old # Absent
  /\ updates' = [updates EXCEPT ![t][k] = Tomb]
  /\ UNCHANGED <<closed, snapshot, history, ongoing, commit, pc, outcome, snap, commits>>

\* slices.Delete(s, i, i+1): the sequence without its i-th element.
DeleteAt(s, i) == [j \in 1..(Len(s) - 1) |-> IF j < i THEN s[j] ELSE s[j + 1]]

\* untrackTXSync up to the unlock of kv.mu: stop tracking the transaction and drop
\* the history no remaining transaction can conflict with.
UntrackTXSync(t) ==
  \E i \in DOMAIN ongoing :
    LET rest == DeleteAt(ongoing, i)
    IN  /\ ongoing[i] = t
        /\ ongoing' = rest
        /\ history' = IF rest = <<>> THEN {}
                      ELSE {h \in history : h.snapshot >= snap[rest[1]]}

\* Abort of a live transaction.
Abort(t) ==
  /\ pc[t] = "open"
  /\ UntrackTXSync(t)
  /\ Goto(t, "release")
  /\ Result(t, "failed")
  /\ UNCHANGED <<closed, snapshot, commit, snap, updates, commits>>

\* applyTXSync takes kv.commit; a transaction that wrote nothing is done.
CommitLock(t) ==
  /\ pc[t] = "open"
  /\ commit = Nobody
  /\ commit' = t
  /\ \/ /\ KeysOf(updates[t]) = {}
        /\ Goto(t, "untrack")
        /\ Result(t, "readonly")
     \/ /\ KeysOf(updates[t]) # {}
        /\ Goto(t, "check")
        /\ UNCHANGED outcome
  /\ UNCHANGED <<closed, snapshot, history, ongoing, snap, updates, commits>>

\* Variant: the comparison with the snapshot is off by one.
HistoryConflictLate(t) ==
  \E h \in history : h.snapshot > snap[t] + 1 /\ updates[t][h.key] # Absent

\* checkTXConflict: a key of the write set was committed after the snapshot.
HistoryConflict(t) ==
  \E h \in history : h.snapshot > snap[t] /\ updates[t][h.key] # Absent

CheckTXConflict(t) ==
  /\ pc[t] = "check"
  /\ \/ /\ HistoryConflict(t)
        /\ Goto(t, "untrack")
        /\ Result(t, "conflict")
     \/ /\ ~HistoryConflict(t)
        /\ Goto(t, "log")
        /\ UNCHANGED outcome
  /\ UNCHANGED <<closed, snapshot, history, ongoing, commit, snap, updates, commits>>

\* updateLog: the records and the commit record are written and fsynced, or a
\* write or the fsync fails and ResetTX discards them.
UpdateLog(t) ==
  /\ pc[t] = "log"
  /\ \/ Goto(t, "apply") /\ UNCHANGED outcome
     \/ Goto(t, "untrack") /\ Result(t, "failed")
  /\ UNCHANGED <<closed, snapshot, history, ongoing, commit, snap, updates, commits>>

\* Variant: the keys are recorded under the number before the increment.
UpdateHistoryOldNumber(t) ==
  /\ snapshot' = snapshot + 1
  /\ history' = IF Len(ongoing) > 1
                THEN history \cup
                     {[snapshot |-> snapshot, key |-> k] : k \in KeysOf(updates[t])}
                ELSE history

\* updateHistory: number the commit; remember its keys if somebody else is ongoing.
UpdateHistory(t) ==
  /\ snapshot' = snapshot + 1
  /\ history' = IF Len(ongoing) > 1
                THEN history \cup
                     {[snapshot |-> snapshot + 1, key |-> k] : k \in KeysOf(updates[t])}
                ELSE history

\* The critical section that publishes a commit; updateMem is the rest of it.
PublishCommit(t) ==
  /\ pc[t] = "apply"
  /\ UpdateHistory(t)
  /\ commits' = Append(commits, [tx |-> t, base |-> snap[t], writes |-> updates[t]])
  /\ Goto(t, "untrack")
  /\ Result(t, "committed")
  /\ UNCHANGED <<closed, ongoing, commit, snap, updates>>

\* The deferred untrackTXSync of applyTXSync.
CommitUntrack(t) ==
  /\ pc[t] = "untrack"
  /\ UntrackTXSync(t)
  /\ Goto(t, "release")
  /\ UNCHANGED <<closed, snapshot, commit, outcome, snap, updates, commits>>

\* The end of untrackTXSync: the snapshot's references are gone.  Abort returns;
\* applyTXSync goes on to its deferred unlock.
Released(t) ==
  /\ pc[t] = "release"
  /\ Goto(t, IF commit = t THEN "unlock" ELSE "done")
  /\ UNCHANGED <<closed, snapshot, history, ongoing, commit, outcome, snap, updates, commits>>

\* Unlock of kv.commit; a commit that returned no error goes on to wake the compactor.
CommitUnlock(t) ==
  /\ pc[t] = "unlock"
  /\ commit' = Nobody
  /\ Goto(t, IF outcome[t] \in {"committed", "readonly"} THEN "notify" ELSE "done")
  /\ UNCHANGED <<closed, snapshot, history, ongoing, outcome, snap, updates, commits>>

\* applyTX returns.
Notified(t) ==
  /\ pc[t] = "notify"
  /\ Goto(t, "done")
  /\ UNCHANGED <<closed, snapshot, history, ongoing, commit, outcome, snap, updates, commits>>

\* The end of compactLog holds kv.commit so that no commit reaches the log.
CompactorLock ==
  /\ commit = Nobody
  /\ commit' = Compactor
  /\ UNCHANGED <<closed, snapshot, history, ongoing, pc, outcome, snap, updates, commits>>

CompactorUnlock ==
  /\ commit = Compactor
  /\ commit' = Nobody
  /\ UNCHANGED <<closed, snapshot, history, ongoing, pc, outcome, snap, updates, commits>>

\* The first critical section of Close.
CloseBegin ==
  /\ ~closed
  /\ closed' = TRUE
  /\ UNCHANGED <<snapshot, history, ongoing, commit, pc, outcome, snap, updates, commits>>

\* What KVTX.Get returns, given only what was committed.
Get(t, k) == SI!Visible(commits, snap[t], updates[t], k)

TxStep(t) ==
  \/ NewTX(t) \/ NewTXClosed(t) \/ Abort(t)
  \/ CommitLock(t) \/ CheckTXConflict(t) \/ UpdateLog(t) \/ PublishCommit(t)
  \/ CommitUntrack(t) \/ Released(t) \/ CommitUnlock(t) \/ Notified(t)

TxNext ==
  \/ \E t \in Tx :
       \/ TxStep(t)
       \/ \E k \in Keys : Del(t, k, Get(t, k))
       \/ \E k \in Keys, v \in Vals, mode \in Modes : SetEx(t, k, v, mode, Get(t, k))
  \/ CompactorLock \/ CompactorUnlock \/ CloseBegin

TxSpec == TxInit /\ [][TxNext]_txVars

-----------------------------------------------------------------------------

\* Tracked transactions, and those among them that may still commit.
Tracked == {"open", "check", "log", "apply", "untrack"}
MayCommit == {"open", "check", "log", "apply"}

\* The ranges of the fields of KV and KVTX.
TxTypeOK ==
  /\ closed \in BOOLEAN
  /\ snapshot \in Nat
  /\ history \in SUBSET [snapshot : Nat, key : Keys]
  /\ ongoing \in Seq(Tx)
  /\ commit \in Tx \cup {Nobody, Compactor}
  /\ pc \in [Tx -> Tracked \cup {"idle", "release", "unlock", "notify", "done"}]
  /\ outcome \in [Tx -> {"none", "committed", "readonly", "conflict", "failed"}]
  /\ snap \in [Tx -> Nat]
  /\ updates \in [Tx -> Level]
  /\ commits \in Seq([tx : Tx, base : Nat, writes : Level])

\* First committer wins (checkTXConflict, updateHistory, untrackTXSync): no
\* transaction commits a write to a key that another transaction wrote and
\* committed after the first one took its snapshot.
FirstCommitterWins ==
  \A j \in DOMAIN commits : \A i \in (commits[j].base + 1)..(j - 1) :
    KeysOf(commits[i].writes) \cap KeysOf(commits[j].writes) = {}

\* Trimming keeps what is still needed (untrackTXSync): every key committed after
\* the snapshot of a transaction that may yet commit is in kv.history.
HistoryCovers ==
  \A t \in Tx : pc[t] \in MayCommit =>
    \A i \in (snap[t] + 1)..Len(commits) : \A k \in KeysOf(commits[i].writes) :
      [snapshot |-> i, key |-> k] \in history

\* Trimming drops the rest (untrackTXSync): kv.history is empty when no
\* transaction is ongoing and never holds an entry older than the oldest
\* snapshot in use.
HistoryBounded ==
  \A h \in history : ongoing # <<>> /\ h.snapshot >= snap[ongoing[1]]

\* ErrTXConflict is never spurious (checkTXConflict): a refused transaction really
\* wrote a key that was committed after its snapshot.
ConflictIsReal ==
  \A t \in Tx : outcome[t] = "conflict" => SI!Conflicts(commits, snap[t], updates[t])

\* kv.ongoing lists exactly the transactions that have not finished, oldest
\* snapshot first.
OngoingOrdered ==
  /\ \A t \in Tx : pc[t] \in Tracked <=> \E i \in 1..Len(ongoing) : ongoing[i] = t
  /\ \A i, j \in 1..Len(ongoing) : i < j =>
       ongoing[i] # ongoing[j] /\ snap[ongoing[i]] <= snap[ongoing[j]]
  /\ \A t \in Tx : snap[t] <= snapshot

\* kv.snapshot counts the commits, and kv.commit is held by the one transaction
\* that is inside applyTXSync.
CommitSerialised ==
  /\ snapshot = Len(commits)
  /\ \A t \in Tx : pc[t] \in {"check", "log", "apply", "untrack", "unlock"} => commit = t

\* A transaction has a result exactly when its fate is decided; past
\* checkTXConflict it has something to write and no conflict.
PhaseConsistent ==
  \A t \in Tx :
    /\ outcome[t] = "none" <=> pc[t] \in MayCommit \cup {"idle"}
    /\ pc[t] \in {"check", "log", "apply"} => KeysOf(updates[t]) # {}
    /\ pc[t] \in {"log", "apply"} => ~SI!Conflicts(commits, snap[t], updates[t])
    /\ pc[t] = "idle" => updates[t] = EmptyLevel

\* kv.history holds only keys that the commit of that number wrote.
HistorySound ==
  \A h \in history : /\ h.snapshot \in 1..Len(commits)
                    /\ h.key \in KeysOf(commits[h.snapshot].writes)

\* The inductive invariant: what the locks, kv.ongoing and kv.history guarantee
\* between any two steps of any transactions.
TxInv ==
  /\ TxTypeOK
  /\ OngoingOrdered
  /\ CommitSerialised
  /\ PhaseConsistent
  /\ HistorySound
  /\ HistoryCovers
  /\ HistoryBounded
  /\ ConflictIsReal
  /\ FirstCommitterWins

\* The lock-by-lock transactions implement snapshot isolation with atomic commits.
ImplementsSI == SI!SISpec
=============================================================================

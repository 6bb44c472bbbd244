-------------------------- MODULE SnapshotIsolation --------------------------
(***************************************************************************)
(* What the transactions of db.KV promise, with no locks, no conflict      *)
(* history and no storage.  The store is the sequence of committed         *)
(* transactions.  A transaction reads the prefix that was committed when   *)
(* it began, overlaid with its own writes, and it commits in one step if   *)
(* nobody committed a write to one of its keys in between.                 *)
(***************************************************************************)
EXTENDS SortedKV

CONSTANT Tx

VARIABLES
  status,   \* idle, active, committed, readonly, conflict, failed
  base,     \* number of transactions committed when this one began
  writes,   \* the transaction's own writes
  commits   \* the committed transactions, in commit order

siVars == <<status, base, writes, commits>>

\* The entry key k had once the first n transactions were committed.
EntryAt(cs, n, k) ==
  LET writers == {i \in 1..n : cs[i].writes[k] # Absent}
  IN  IF writers = {} THEN Absent
      ELSE cs[CHOOSE i \in writers : \A j \in writers : j <= i].writes[k]

\* What a transaction that began after n commits and wrote w sees under k.
Visible(cs, n, w, k) == LiveValue(IF w[k] # Absent THEN w[k] ELSE EntryAt(cs, n, k))

\* Some transaction committed after the first n wrote a key that w writes.
Conflicts(cs, n, w) ==
  \E i \in (n + 1)..Len(cs) : KeysOf(cs[i].writes) \cap KeysOf(w) # {}

SIInit ==
  /\ status = [t \in Tx |-> "idle"]
  /\ base = [t \in Tx |-> 0]
  /\ writes = [t \in Tx |-> EmptyLevel]
  /\ commits = <<>>

Begin(t) ==
  /\ status[t] = "idle"
  /\ status' = [status EXCEPT ![t] = "active"]
  /\ base' = [base EXCEPT ![t] = Len(commits)]
  /\ UNCHANGED <<writes, commits>>

Put(t, k, v) ==
  /\ status[t] = "active"
  /\ Visible(commits, base[t], writes[t], k) # v
  /\ writes' = [writes EXCEPT ![t][k] = v]
  /\ UNCHANGED <<status, base, commits>>

Delete(t, k) ==
  /\ status[t] = "active"
  /\ Visible(commits, base[t], writes[t], k) # Absent
  /\ writes' = [writes EXCEPT ![t][k] = Tomb]
  /\ UNCHANGED <<status, base, commits>>

Commit(t) ==
  /\ status[t] = "active"
  /\ KeysOf(writes[t]) # {}
  /\ ~Conflicts(commits, base[t], writes[t])
  /\ commits' = Append(commits, [tx |-> t, base |-> base[t], writes |-> writes[t]])
  /\ status' = [status EXCEPT ![t] = "committed"]
  /\ UNCHANGED <<base, writes>>

CommitReadOnly(t) ==
  /\ status[t] = "active"
  /\ KeysOf(writes[t]) = {}
  /\ status' = [status EXCEPT ![t] = "readonly"]
  /\ UNCHANGED <<base, writes, commits>>

\* ErrTXConflict is returned only to a transaction that has a conflict.
Refuse(t) ==
  /\ status[t] = "active"
  /\ Conflicts(commits, base[t], writes[t])
  /\ status' = [status EXCEPT ![t] = "conflict"]
  /\ UNCHANGED <<base, writes, commits>>

\* Abort, a commit whose log write fails, or a store that is closed.
Fail(t) ==
  /\ status[t] \in {"idle", "active"}
  /\ status' = [status EXCEPT ![t] = "failed"]
  /\ UNCHANGED <<base, writes, commits>>

SINext ==
  \E t \in Tx :
    \/ Begin(t) \/ Commit(t) \/ CommitReadOnly(t) \/ Refuse(t) \/ Fail(t)
    \/ \E k \in Keys : Delete(t, k) \/ \E v \in Vals : Put(t, k, v)

SISpec == SIInit /\ [][SINext]_siVars
=============================================================================

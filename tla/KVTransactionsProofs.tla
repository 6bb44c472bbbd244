------------------------ MODULE KVTransactionsProofs ------------------------
(***************************************************************************)
(* Proofs about KVTransactions for any set of transactions, keys and       *)
(* values: TxInv is an inductive invariant, so first-committer-wins holds, *)
(* trimming kv.history neither loses a key that is still needed nor keeps  *)
(* one that is not, and ErrTXConflict is never spurious; and the           *)
(* lock-by-lock transactions implement SnapshotIsolation.                  *)
(***************************************************************************)
EXTENDS KVTransactions, SequenceTheorems, TLAPS

\* Deleting an element of kv.ongoing keeps the others in order (slices.Delete in
\* untrackTXSync).
LEMMA DeleteAtProperties ==
  ASSUME NEW S, NEW s \in Seq(S), NEW i \in 1..Len(s)
  PROVE  /\ DeleteAt(s, i) \in Seq(S)
         /\ Len(DeleteAt(s, i)) = Len(s) - 1
         /\ \A j \in 1..(Len(s) - 1) : DeleteAt(s, i)[j] = IF j < i THEN s[j] ELSE s[j + 1]
<1>1. Len(s) \in Nat /\ Len(s) - 1 \in Nat /\ \A j \in 1..Len(s) : s[j] \in S
  BY LenProperties, ElementOfSeq
<1>2. DeleteAt(s, i) \in [1..(Len(s) - 1) -> S]
  BY <1>1 DEF DeleteAt
<1>3. DeleteAt(s, i) \in Seq(S)
  BY <1>1, <1>2, SeqDef
<1>4. DOMAIN DeleteAt(s, i) = 1..(Len(s) - 1)
  BY DEF DeleteAt
<1>5. Len(DeleteAt(s, i)) = Len(s) - 1
  BY <1>1, <1>3, <1>4, LenProperties
<1>6. QED  BY <1>3, <1>5 DEF DeleteAt

-----------------------------------------------------------------------------

\* What the critical section of untrackTXSync does: it removes one transaction from
\* kv.ongoing, leaves the order of the others, and drops only history no other
\* transaction that is still tracked can conflict with.
LEMMA UntrackLemma ==
  ASSUME TxTypeOK, OngoingOrdered, NEW t \in Tx, UntrackTXSync(t)
  PROVE  /\ ongoing' \in Seq(Tx)
         /\ \A u \in Tx : (\E i \in 1..Len(ongoing') : ongoing'[i] = u)
                          <=> (u # t /\ \E i \in 1..Len(ongoing) : ongoing[i] = u)
         /\ \A i, j \in 1..Len(ongoing') : i < j =>
              ongoing'[i] # ongoing'[j] /\ snap[ongoing'[i]] <= snap[ongoing'[j]]
         /\ history' \subseteq history
         /\ \A h \in history' : ongoing' # <<>> /\ h.snapshot >= snap[ongoing'[1]]
         /\ \A u \in Tx : (u # t /\ pc[u] \in Tracked) =>
              \A h \in history : h.snapshot > snap[u] => h \in history'
<1>1. PICK d \in DOMAIN ongoing :
        /\ ongoing[d] = t
        /\ ongoing' = DeleteAt(ongoing, d)
        /\ history' = IF DeleteAt(ongoing, d) = <<>> THEN {}
                      ELSE {h \in history : h.snapshot >= snap[DeleteAt(ongoing, d)[1]]}
  BY DEF UntrackTXSync
<1>2. /\ ongoing \in Seq(Tx) /\ Len(ongoing) \in Nat /\ d \in 1..Len(ongoing)
      /\ \A i \in 1..Len(ongoing) : ongoing[i] \in Tx
  BY <1>1, LenProperties, ElementOfSeq DEF TxTypeOK
<1>3. /\ ongoing' \in Seq(Tx)
      /\ Len(ongoing') = Len(ongoing) - 1
      /\ \A j \in 1..(Len(ongoing) - 1) :
           ongoing'[j] = IF j < d THEN ongoing[j] ELSE ongoing[j + 1]
  BY <1>1, <1>2, DeleteAtProperties
<1>4. history' = IF ongoing' = <<>> THEN {}
                 ELSE {h \in history : h.snapshot >= snap[ongoing'[1]]}
  BY <1>1
<1>5. \A i, j \in 1..Len(ongoing) : i < j =>
        ongoing[i] # ongoing[j] /\ snap[ongoing[i]] <= snap[ongoing[j]]
  BY DEF OngoingOrdered
<1>6. ASSUME NEW u \in Tx, u # t, NEW i \in 1..Len(ongoing), ongoing[i] = u
      PROVE  \E j \in 1..Len(ongoing') : ongoing'[j] = u
  <2>1. CASE i < d
    BY <2>1, <1>2, <1>3, <1>6
  <2>2. CASE i > d
    <3>1. i - 1 \in 1..(Len(ongoing) - 1) /\ ~(i - 1 < d) /\ (i - 1) + 1 = i
      BY <2>2, <1>2
    <3>2. ongoing'[i - 1] = u
      BY <3>1, <1>3, <1>6
    <3>3. QED  BY <3>1, <3>2, <1>3
  <2>3. QED  BY <2>1, <2>2, <1>1, <1>2, <1>6
<1>7. ASSUME NEW j \in 1..Len(ongoing')
      PROVE  ongoing'[j] # t /\ \E i \in 1..Len(ongoing) : ongoing[i] = ongoing'[j]
  <2>1. CASE j < d
    BY <2>1, <1>1, <1>2, <1>3, <1>5
  <2>2. CASE j >= d
    <3>1. j + 1 \in 1..Len(ongoing) /\ d < j + 1 /\ ongoing'[j] = ongoing[j + 1]
      BY <2>2, <1>2, <1>3
    <3>2. QED  BY <3>1, <1>1, <1>2, <1>5
  <2>3. QED  BY <2>1, <2>2, <1>2
<1>8. ASSUME NEW i \in 1..Len(ongoing'), NEW j \in 1..Len(ongoing'), i < j
      PROVE  ongoing'[i] # ongoing'[j] /\ snap[ongoing'[i]] <= snap[ongoing'[j]]
  <2> DEFINE p == IF i < d THEN i ELSE i + 1
             q == IF j < d THEN j ELSE j + 1
  <2>1. /\ p \in 1..Len(ongoing) /\ q \in 1..Len(ongoing) /\ p < q
        /\ ongoing'[i] = ongoing[p] /\ ongoing'[j] = ongoing[q]
    BY <1>2, <1>3, <1>8
  <2>2. QED  BY <2>1, <1>5
<1>9. ASSUME NEW u \in Tx, u # t, pc[u] \in Tracked, NEW h \in history, h.snapshot > snap[u]
      PROVE  h \in history'
  <2>1. PICK j \in 1..Len(ongoing') : ongoing'[j] = u
    BY <1>6, <1>9 DEF OngoingOrdered
  <2>2. Len(ongoing') \in Nat /\ 1 \in 1..Len(ongoing')
    BY <2>1, <1>2, <1>3
  <2>3. ongoing' # <<>>
    BY <2>2, <1>3, EmptySeq
  <2>4. ongoing'[1] \in Tx /\ snap[ongoing'[1]] \in Nat /\ snap[u] \in Nat /\ h.snapshot \in Nat
    BY <2>2, <1>3, ElementOfSeq DEF TxTypeOK
  <2>5. snap[ongoing'[1]] <= snap[u]
    BY <2>1, <2>2, <2>4, <1>8
  <2>6. QED  BY <2>3, <2>4, <2>5, <1>4, <1>9
<1>10. QED
  <2>1. \A u \in Tx : (\E i \in 1..Len(ongoing') : ongoing'[i] = u)
                      <=> (u # t /\ \E i \in 1..Len(ongoing) : ongoing[i] = u)
    BY <1>6, <1>7
  <2>2. history' \subseteq history /\ \A h \in history' : ongoing' # <<>> /\ h.snapshot >= snap[ongoing'[1]]
    BY <1>4
  <2>3. QED  BY <2>1, <2>2, <1>3, <1>8, <1>9
-----------------------------------------------------------------------------

\* checkTXConflict decides exactly the conflicts of snapshot isolation: kv.history
\* has every key committed after the snapshot, and nothing that was not committed.
LEMMA ConflictLemma ==
  ASSUME TxInv, NEW t \in Tx, pc[t] = "check"
  PROVE  HistoryConflict(t) <=> SI!Conflicts(commits, snap[t], updates[t])
<1>1. /\ snap[t] \in Nat /\ Len(commits) \in Nat
      /\ \A h \in history : h.snapshot \in Nat /\ h.key \in Keys
  BY LenProperties DEF TxInv, TxTypeOK
<1>2. ASSUME NEW h \in history, h.snapshot > snap[t], updates[t][h.key] # Absent
      PROVE  SI!Conflicts(commits, snap[t], updates[t])
  <2>1. /\ h.snapshot \in (snap[t] + 1)..Len(commits)
        /\ h.key \in KeysOf(commits[h.snapshot].writes)
    BY <1>1, <1>2 DEF TxInv, HistorySound
  <2>2. h.key \in KeysOf(updates[t])
    BY <1>1, <1>2 DEF KeysOf
  <2>3. QED  BY <2>1, <2>2 DEF SI!Conflicts, SI!KeysOf, KeysOf
<1>3. ASSUME NEW i \in (snap[t] + 1)..Len(commits), NEW k \in Keys,
             commits[i].writes[k] # Absent, updates[t][k] # Absent
      PROVE  HistoryConflict(t)
  <2>1. [snapshot |-> i, key |-> k] \in history
    BY <1>3 DEF TxInv, HistoryCovers, MayCommit, KeysOf
  <2>2. i > snap[t]
    BY <1>1
  <2>3. QED  BY <2>1, <2>2, <1>3 DEF HistoryConflict
<1>4. QED  BY <1>2, <1>3 DEF HistoryConflict, SI!Conflicts, SI!KeysOf

\* NewTXClosed changes only where the transaction is, its result and kv.commit.
LEMMA NewTXClosedInv ==
  ASSUME TxInv, NEW t \in Tx, NewTXClosed(t)
  PROVE  TxInv'
<1>1. TxTypeOK'
  BY DEF TxInv, TxTypeOK, Tracked, NewTXClosed, Goto, Result
<1>2. OngoingOrdered'
  BY DEF TxInv, TxTypeOK, OngoingOrdered, Tracked, NewTXClosed, Goto, Result
<1>3. CommitSerialised'
  BY LockerAssumption DEF TxInv, TxTypeOK, CommitSerialised, NewTXClosed, Goto, Result
<1>4. PhaseConsistent'
  BY DEF TxInv, TxTypeOK, PhaseConsistent, MayCommit, NewTXClosed, Goto, Result
<1>5. HistoryCovers'
  BY DEF TxInv, TxTypeOK, HistoryCovers, MayCommit, NewTXClosed, Goto, Result
<1>6. HistorySound' /\ HistoryBounded' /\ FirstCommitterWins'
  BY DEF TxInv, HistorySound, HistoryBounded, FirstCommitterWins, NewTXClosed, Goto, Result
<1>7. ConflictIsReal'
  BY DEF TxInv, TxTypeOK, ConflictIsReal, NewTXClosed, Goto, Result
<1>8. QED  BY <1>1, <1>2, <1>3, <1>4, <1>5, <1>6, <1>7 DEF TxInv

\* CommitLock changes only where the transaction is, its result and kv.commit.
LEMMA CommitLockInv ==
  ASSUME TxInv, NEW t \in Tx, CommitLock(t)
  PROVE  TxInv'
<1>1. TxTypeOK'
  BY DEF TxInv, TxTypeOK, Tracked, CommitLock, Goto, Result
<1>2. OngoingOrdered'
  <2>1. \A u \in Tx : pc'[u] \in Tracked <=> pc[u] \in Tracked
    BY DEF TxInv, TxTypeOK, Tracked, CommitLock, Goto
  <2>2. UNCHANGED <<ongoing, snap, snapshot>>
    BY DEF CommitLock
  <2>3. QED  BY <2>1, <2>2 DEF TxInv, OngoingOrdered
<1>3. CommitSerialised'
  BY LockerAssumption DEF TxInv, TxTypeOK, CommitSerialised, CommitLock, Goto, Result
<1>4. PhaseConsistent'
  BY DEF TxInv, TxTypeOK, PhaseConsistent, MayCommit, CommitLock, Goto, Result
<1>5. HistoryCovers'
  BY DEF TxInv, TxTypeOK, HistoryCovers, MayCommit, CommitLock, Goto, Result
<1>6. HistorySound' /\ HistoryBounded' /\ FirstCommitterWins'
  BY DEF TxInv, HistorySound, HistoryBounded, FirstCommitterWins, CommitLock, Goto, Result
<1>7. ConflictIsReal'
  BY DEF TxInv, TxTypeOK, ConflictIsReal, CommitLock, Goto, Result
<1>8. QED  BY <1>1, <1>2, <1>3, <1>4, <1>5, <1>6, <1>7 DEF TxInv

\* CheckTXConflict changes only where the transaction is, its result and kv.commit.
LEMMA CheckTXConflictInv ==
  ASSUME TxInv, NEW t \in Tx, CheckTXConflict(t)
  PROVE  TxInv'
<1>1. TxTypeOK'
  BY DEF TxInv, TxTypeOK, Tracked, CheckTXConflict, Goto, Result
<1>2. OngoingOrdered'
  BY DEF TxInv, TxTypeOK, OngoingOrdered, Tracked, CheckTXConflict, Goto, Result
<1>3. CommitSerialised'
  BY LockerAssumption DEF TxInv, TxTypeOK, CommitSerialised, CheckTXConflict, Goto, Result
<1>4. PhaseConsistent'
  BY ConflictLemma DEF TxInv, TxTypeOK, PhaseConsistent, MayCommit, CheckTXConflict, Goto, Result
<1>5. HistoryCovers'
  BY DEF TxInv, TxTypeOK, HistoryCovers, MayCommit, CheckTXConflict, Goto, Result
<1>6. HistorySound' /\ HistoryBounded' /\ FirstCommitterWins'
  BY DEF TxInv, HistorySound, HistoryBounded, FirstCommitterWins, CheckTXConflict, Goto, Result
<1>7. ConflictIsReal'
  BY ConflictLemma DEF TxInv, TxTypeOK, ConflictIsReal, CheckTXConflict, Goto, Result
<1>8. QED  BY <1>1, <1>2, <1>3, <1>4, <1>5, <1>6, <1>7 DEF TxInv

\* UpdateLog changes only where the transaction is, its result and kv.commit.
LEMMA UpdateLogInv ==
  ASSUME TxInv, NEW t \in Tx, UpdateLog(t)
  PROVE  TxInv'
<1>1. TxTypeOK'
  BY DEF TxInv, TxTypeOK, Tracked, UpdateLog, Goto, Result
<1>2. OngoingOrdered'
  <2>1. \A u \in Tx : pc'[u] \in Tracked <=> pc[u] \in Tracked
    BY DEF TxInv, TxTypeOK, Tracked, UpdateLog, Goto
  <2>2. UNCHANGED <<ongoing, snap, snapshot>>
    BY DEF UpdateLog
  <2>3. QED  BY <2>1, <2>2 DEF TxInv, OngoingOrdered
<1>3. CommitSerialised'
  BY LockerAssumption DEF TxInv, TxTypeOK, CommitSerialised, UpdateLog, Goto, Result
<1>4. PhaseConsistent'
  BY DEF TxInv, TxTypeOK, PhaseConsistent, MayCommit, UpdateLog, Goto, Result
<1>5. HistoryCovers'
  BY DEF TxInv, TxTypeOK, HistoryCovers, MayCommit, UpdateLog, Goto, Result
<1>6. HistorySound' /\ HistoryBounded' /\ FirstCommitterWins'
  BY DEF TxInv, HistorySound, HistoryBounded, FirstCommitterWins, UpdateLog, Goto, Result
<1>7. ConflictIsReal'
  BY DEF TxInv, TxTypeOK, ConflictIsReal, UpdateLog, Goto, Result
<1>8. QED  BY <1>1, <1>2, <1>3, <1>4, <1>5, <1>6, <1>7 DEF TxInv

\* Released changes only where the transaction is, its result and kv.commit.
LEMMA ReleasedInv ==
  ASSUME TxInv, NEW t \in Tx, Released(t)
  PROVE  TxInv'
<1>1. TxTypeOK'
  BY DEF TxInv, TxTypeOK, Tracked, Released, Goto, Result
<1>2. OngoingOrdered'
  BY DEF TxInv, TxTypeOK, OngoingOrdered, Tracked, Released, Goto, Result
<1>3. CommitSerialised'
  BY LockerAssumption DEF TxInv, TxTypeOK, CommitSerialised, Released, Goto, Result
<1>4. PhaseConsistent'
  BY DEF TxInv, TxTypeOK, PhaseConsistent, MayCommit, Released, Goto, Result
<1>5. HistoryCovers'
  BY DEF TxInv, TxTypeOK, HistoryCovers, MayCommit, Released, Goto, Result
<1>6. HistorySound' /\ HistoryBounded' /\ FirstCommitterWins'
  BY DEF TxInv, HistorySound, HistoryBounded, FirstCommitterWins, Released, Goto, Result
<1>7. ConflictIsReal'
  BY DEF TxInv, TxTypeOK, ConflictIsReal, Released, Goto, Result
<1>8. QED  BY <1>1, <1>2, <1>3, <1>4, <1>5, <1>6, <1>7 DEF TxInv

\* CommitUnlock changes only where the transaction is, its result and kv.commit.
LEMMA CommitUnlockInv ==
  ASSUME TxInv, NEW t \in Tx, CommitUnlock(t)
  PROVE  TxInv'
<1>1. TxTypeOK'
  BY DEF TxInv, TxTypeOK, Tracked, CommitUnlock, Goto, Result
<1>2. OngoingOrdered'
  BY DEF TxInv, TxTypeOK, OngoingOrdered, Tracked, CommitUnlock, Goto, Result
<1>3. CommitSerialised'
  BY LockerAssumption DEF TxInv, TxTypeOK, CommitSerialised, CommitUnlock, Goto, Result
<1>4. PhaseConsistent'
  BY DEF TxInv, TxTypeOK, PhaseConsistent, MayCommit, CommitUnlock, Goto, Result
<1>5. HistoryCovers'
  BY DEF TxInv, TxTypeOK, HistoryCovers, MayCommit, CommitUnlock, Goto, Result
<1>6. HistorySound' /\ HistoryBounded' /\ FirstCommitterWins'
  BY DEF TxInv, HistorySound, HistoryBounded, FirstCommitterWins, CommitUnlock, Goto, Result
<1>7. ConflictIsReal'
  BY DEF TxInv, TxTypeOK, ConflictIsReal, CommitUnlock, Goto, Result
<1>8. QED  BY <1>1, <1>2, <1>3, <1>4, <1>5, <1>6, <1>7 DEF TxInv

\* Notified changes only where the transaction is, its result and kv.commit.
LEMMA NotifiedInv ==
  ASSUME TxInv, NEW t \in Tx, Notified(t)
  PROVE  TxInv'
<1>1. TxTypeOK'
  BY DEF TxInv, TxTypeOK, Tracked, Notified, Goto, Result
<1>2. OngoingOrdered'
  BY DEF TxInv, TxTypeOK, OngoingOrdered, Tracked, Notified, Goto, Result
<1>3. CommitSerialised'
  BY LockerAssumption DEF TxInv, TxTypeOK, CommitSerialised, Notified, Goto, Result
<1>4. PhaseConsistent'
  BY DEF TxInv, TxTypeOK, PhaseConsistent, MayCommit, Notified, Goto, Result
<1>5. HistoryCovers'
  BY DEF TxInv, TxTypeOK, HistoryCovers, MayCommit, Notified, Goto, Result
<1>6. HistorySound' /\ HistoryBounded' /\ FirstCommitterWins'
  BY DEF TxInv, HistorySound, HistoryBounded, FirstCommitterWins, Notified, Goto, Result
<1>7. ConflictIsReal'
  BY DEF TxInv, TxTypeOK, ConflictIsReal, Notified, Goto, Result
<1>8. QED  BY <1>1, <1>2, <1>3, <1>4, <1>5, <1>6, <1>7 DEF TxInv

\* NewTX begins at the newest commit, so it needs nothing from kv.history yet.
LEMMA NewTXInv ==
  ASSUME TxInv, NEW t \in Tx, NewTX(t)
  PROVE  TxInv'
<1>1. /\ ongoing \in Seq(Tx) /\ Len(ongoing) \in Nat /\ snapshot \in Nat
      /\ \A i \in 1..Len(ongoing) : ongoing[i] \in Tx
      /\ \A u \in Tx : snap[u] \in Nat
  BY LenProperties, ElementOfSeq DEF TxInv, TxTypeOK
<1>2. /\ ongoing' \in Seq(Tx) /\ Len(ongoing') = Len(ongoing) + 1
      /\ \A i \in 1..Len(ongoing) : ongoing'[i] = ongoing[i]
      /\ ongoing'[Len(ongoing) + 1] = t
  BY <1>1, AppendProperties DEF NewTX
<1>3. /\ pc[t] = "idle" /\ pc'[t] = "open" /\ snap'[t] = snapshot
      /\ \A u \in Tx : u # t => pc'[u] = pc[u] /\ snap'[u] = snap[u]
      /\ UNCHANGED <<closed, snapshot, history, commit, outcome, updates, commits>>
  BY DEF NewTX, Goto, TxInv, TxTypeOK
<1>4. \A i \in 1..Len(ongoing) : ongoing[i] # t
  BY <1>1, <1>3 DEF TxInv, OngoingOrdered, Tracked
<1>5. TxTypeOK'
  BY <1>2, <1>1 DEF TxInv, TxTypeOK, NewTX, Goto, Tracked
<1>6. OngoingOrdered'
  <2>1. ASSUME NEW u \in Tx
        PROVE  pc'[u] \in Tracked <=> \E i \in 1..Len(ongoing') : ongoing'[i] = u
    <3>1. CASE u = t
      BY <3>1, <1>1, <1>2, <1>3 DEF Tracked
    <3>2. CASE u # t
      <4>1. (\E i \in 1..Len(ongoing') : ongoing'[i] = u) <=> \E i \in 1..Len(ongoing) : ongoing[i] = u
        <5>1. ASSUME NEW i \in 1..Len(ongoing'), ongoing'[i] = u
              PROVE  i \in 1..Len(ongoing) /\ ongoing[i] = u
          BY <5>1, <3>2, <1>1, <1>2
        <5>2. ASSUME NEW i \in 1..Len(ongoing), ongoing[i] = u
              PROVE  i \in 1..Len(ongoing') /\ ongoing'[i] = u
          BY <5>2, <1>1, <1>2
        <5>3. QED  BY <5>1, <5>2
      <4>2. QED  BY <4>1, <3>2, <1>3 DEF TxInv, OngoingOrdered
    <3>3. QED  BY <3>1, <3>2
  <2>2. ASSUME NEW i \in 1..Len(ongoing'), NEW j \in 1..Len(ongoing'), i < j
        PROVE  ongoing'[i] # ongoing'[j] /\ snap'[ongoing'[i]] <= snap'[ongoing'[j]]
    <3>1. i \in 1..Len(ongoing) /\ ongoing'[i] = ongoing[i] /\ snap'[ongoing[i]] = snap[ongoing[i]]
      BY <2>2, <1>1, <1>2, <1>3, <1>4
    <3>2. CASE j = Len(ongoing) + 1
      <4>1. snap[ongoing[i]] <= snapshot
        BY <3>1, <1>1 DEF TxInv, OngoingOrdered
      <4>2. QED  BY <4>1, <3>1, <3>2, <1>2, <1>3, <1>4
    <3>3. CASE j # Len(ongoing) + 1
      <4>1. j \in 1..Len(ongoing) /\ ongoing'[j] = ongoing[j] /\ snap'[ongoing[j]] = snap[ongoing[j]]
        BY <3>3, <1>1, <1>2, <1>3, <1>4
      <4>2. QED  BY <4>1, <3>1, <2>2 DEF TxInv, OngoingOrdered
    <3>4. QED  BY <3>2, <3>3
  <2>3. \A u \in Tx : snap'[u] <= snapshot'
    BY <1>1, <1>3 DEF TxInv, OngoingOrdered
  <2>4. QED  BY <2>1, <2>2, <2>3 DEF OngoingOrdered
<1>7. CommitSerialised'
  BY <1>3 DEF TxInv, CommitSerialised
<1>8. PhaseConsistent'
  <2>1. ASSUME NEW u \in Tx, u # t
        PROVE  SI!Conflicts(commits, snap[u], updates[u])' <=> SI!Conflicts(commits, snap[u], updates[u])
    BY <1>3, <2>1 DEF SI!Conflicts
  <2>2. QED  BY <2>1, <1>3 DEF TxInv, PhaseConsistent, MayCommit
<1>9. HistoryCovers'
  <2>1. \A i \in (snapshot + 1)..Len(commits) : FALSE
    BY <1>1 DEF TxInv, CommitSerialised
  <2>2. ASSUME NEW u \in Tx, u # t, pc'[u] \in MayCommit,
               NEW i \in (snap'[u] + 1)..Len(commits'), NEW k \in KeysOf(commits'[i].writes)
        PROVE  [snapshot |-> i, key |-> k] \in history'
    BY <2>2, <1>3 DEF TxInv, HistoryCovers
  <2>3. QED  BY <2>1, <2>2, <1>3 DEF HistoryCovers
<1>10. HistorySound' /\ FirstCommitterWins'
  BY <1>3 DEF TxInv, HistorySound, FirstCommitterWins
<1>11. HistoryBounded'
  <2>1. ASSUME NEW h \in history
        PROVE  ongoing' # <<>> /\ h.snapshot >= snap'[ongoing'[1]]
    <3>1. ongoing # <<>> /\ h.snapshot >= snap[ongoing[1]]
      BY DEF TxInv, HistoryBounded
    <3>2. 1 \in 1..Len(ongoing)
      BY <3>1, <1>1, EmptySeq
    <3>3. QED  BY <3>1, <3>2, <1>1, <1>2, <1>3, <1>4, EmptySeq
  <2>2. QED  BY <2>1, <1>3 DEF HistoryBounded
<1>12. ConflictIsReal'
  <2>1. ASSUME NEW u \in Tx, outcome[u] = "conflict"
        PROVE  SI!Conflicts(commits, snap[u], updates[u])'
    <3>1. u # t
      BY <2>1, <1>3 DEF TxInv, PhaseConsistent, MayCommit
    <3>2. SI!Conflicts(commits, snap[u], updates[u])
      BY <2>1 DEF TxInv, ConflictIsReal
    <3>3. QED  BY <3>1, <3>2, <1>3 DEF SI!Conflicts
  <2>2. QED  BY <2>1, <1>3 DEF ConflictIsReal
<1>13. QED  BY <1>5, <1>6, <1>7, <1>8, <1>9, <1>10, <1>11, <1>12 DEF TxInv

\* SetEx and Del change nothing but the write set of a transaction that has not
\* started to commit, whatever Get returned to them.
LEMMA WriteInv ==
  ASSUME TxInv, NEW t \in Tx, NEW k \in Keys, NEW e \in Vals \cup {Tomb},
         pc[t] = "open", updates' = [updates EXCEPT ![t][k] = e],
         UNCHANGED <<closed, snapshot, history, ongoing, commit, pc, outcome, snap, commits>>
  PROVE  TxInv'
<1>1. \A u \in Tx : u # t => updates'[u] = updates[u]
  BY DEF TxInv, TxTypeOK
<1>2. updates' \in [Tx -> Level]
  <2>1. updates[t] \in Level
    BY DEF TxInv, TxTypeOK
  <2>2. [updates[t] EXCEPT ![k] = e] \in Level
    BY <2>1 DEF Level, Entry
  <2>3. QED  BY <2>2 DEF TxInv, TxTypeOK
<1>3. TxTypeOK'
  BY <1>2 DEF TxInv, TxTypeOK
<1>4. OngoingOrdered' /\ CommitSerialised' /\ HistorySound' /\ HistoryBounded' /\ FirstCommitterWins'
  <2>1. OngoingOrdered'
    BY DEF TxInv, OngoingOrdered
  <2>2. CommitSerialised'
    BY DEF TxInv, CommitSerialised
  <2>3. HistorySound'
    BY DEF TxInv, HistorySound
  <2>4. HistoryBounded'
    BY DEF TxInv, HistoryBounded
  <2>5. FirstCommitterWins'
    BY DEF TxInv, FirstCommitterWins
  <2>6. QED  BY <2>1, <2>2, <2>3, <2>4, <2>5
<1>5. PhaseConsistent'
  BY <1>1 DEF TxInv, PhaseConsistent
<1>6. HistoryCovers'
  BY DEF TxInv, HistoryCovers
<1>7. ConflictIsReal'
  BY <1>1 DEF TxInv, ConflictIsReal, PhaseConsistent, MayCommit
<1>8. QED  BY <1>3, <1>4, <1>5, <1>6, <1>7 DEF TxInv

\* The commit of t is number Len(commits) + 1: every other transaction that may
\* still commit is ongoing beside t, so updateHistory records the keys.
LEMMA PublishCommitInv ==
  ASSUME TxInv, NEW t \in Tx, PublishCommit(t)
  PROVE  TxInv'
<1> DEFINE n == Len(commits)
           c == [tx |-> t, base |-> snap[t], writes |-> updates[t]]
           new == {[snapshot |-> snapshot + 1, key |-> k] : k \in KeysOf(updates[t])}
<1>1. /\ n \in Nat /\ snapshot = n /\ commits \in Seq([tx : Tx, base : Nat, writes : Level])
      /\ \A i \in 1..n : commits[i] \in [tx : Tx, base : Nat, writes : Level]
      /\ \A u \in Tx : snap[u] \in Nat /\ updates[u] \in Level /\ snap[u] <= n
      /\ c \in [tx : Tx, base : Nat, writes : Level]
  BY LenProperties, ElementOfSeq DEF TxInv, TxTypeOK, CommitSerialised, OngoingOrdered
<1>2. /\ Len(commits') = n + 1
      /\ commits' \in Seq([tx : Tx, base : Nat, writes : Level])
      /\ \A i \in 1..n : commits'[i] = commits[i]
      /\ commits'[n + 1] = c
  <2>1. commits' = Append(commits, c)
    BY DEF PublishCommit
  <2> HIDE DEF c
  <2>2. QED  BY <2>1, <1>1, AppendProperties
<1>3. /\ pc[t] = "apply" /\ pc'[t] = "untrack" /\ outcome'[t] = "committed"
      /\ \A u \in Tx : u # t => pc'[u] = pc[u] /\ outcome'[u] = outcome[u]
      /\ UNCHANGED <<closed, ongoing, commit, snap, updates>>
      /\ snapshot' = snapshot + 1
      /\ history' = IF Len(ongoing) > 1 THEN history \cup new ELSE history
  BY DEF PublishCommit, UpdateHistory, Goto, Result, TxInv, TxTypeOK
<1>4. history \subseteq history' /\ history' \subseteq history \cup new
  BY <1>3
<1> HIDE DEF n, c, new
<1>5. TxTypeOK'
  <2>1. new \subseteq [snapshot : Nat, key : Keys]
    BY <1>1 DEF KeysOf, new
  <2>2. history' \in SUBSET [snapshot : Nat, key : Keys]
    BY <2>1, <1>4 DEF TxInv, TxTypeOK
  <2>3. pc' \in [Tx -> Tracked \cup {"idle", "release", "unlock", "notify", "done"}]
    BY DEF PublishCommit, Goto, TxInv, TxTypeOK, Tracked
  <2>4. outcome' \in [Tx -> {"none", "committed", "readonly", "conflict", "failed"}]
    BY DEF PublishCommit, Result, TxInv, TxTypeOK
  <2>5. snapshot' \in Nat
    BY <1>1, <1>3
  <2>6. QED  BY <2>2, <2>3, <2>4, <2>5, <1>2, <1>3 DEF TxInv, TxTypeOK
<1>6. OngoingOrdered'
  <2>1. \A u \in Tx : pc'[u] \in Tracked <=> pc[u] \in Tracked
    BY <1>3 DEF Tracked
  <2>2. \A u \in Tx : snap'[u] <= snapshot'
    BY <1>1, <1>3
  <2>3. QED  BY <2>1, <2>2, <1>3 DEF TxInv, OngoingOrdered
<1>7. CommitSerialised'
  BY <1>1, <1>2, <1>3 DEF TxInv, CommitSerialised, n
<1>8. ASSUME NEW u \in Tx
      PROVE  SI!Conflicts(commits, snap[u], updates[u]) =>
             SI!Conflicts(commits, snap[u], updates[u])'
  BY <1>1, <1>2, <1>3 DEF SI!Conflicts, n
<1>9. PhaseConsistent'
  <2>1. \A u \in Tx : u # t => pc[u] \notin {"check", "log", "apply"}
    BY <1>3 DEF TxInv, CommitSerialised
  <2>2. QED  BY <2>1, <1>3 DEF TxInv, PhaseConsistent, MayCommit
<1>10. HistorySound'
  <2>1. ASSUME NEW h \in history
        PROVE  h.snapshot \in 1..Len(commits') /\ h.key \in KeysOf(commits'[h.snapshot].writes)
    BY <1>1, <1>2 DEF TxInv, HistorySound, n
  <2>2. ASSUME NEW h \in new
        PROVE  h.snapshot \in 1..Len(commits') /\ h.key \in KeysOf(commits'[h.snapshot].writes)
    BY <1>1, <1>2 DEF new, c
  <2>3. QED  BY <2>1, <2>2, <1>4 DEF HistorySound
<1>11. HistoryCovers'
  <2> SUFFICES ASSUME NEW u \in Tx, pc'[u] \in MayCommit,
                      NEW i \in (snap[u] + 1)..(n + 1), NEW k \in KeysOf(commits'[i].writes)
               PROVE  [snapshot |-> i, key |-> k] \in history'
    BY <1>2, <1>3 DEF HistoryCovers
  <2>1. u # t /\ pc[u] \in MayCommit
    BY <1>3 DEF MayCommit
  <2>2. CASE i \in 1..n
    <3>1. [snapshot |-> i, key |-> k] \in history
      BY <2>1, <2>2, <1>1, <1>2 DEF TxInv, HistoryCovers, n
    <3>2. QED  BY <3>1, <1>4
  <2>3. CASE i = n + 1
    <3>1. (\E a \in 1..Len(ongoing) : ongoing[a] = u) /\ (\E b \in 1..Len(ongoing) : ongoing[b] = t)
      BY <2>1, <1>3 DEF TxInv, OngoingOrdered, Tracked, MayCommit
    <3>2. Len(ongoing) > 1
      <4>1. Len(ongoing) \in Nat
        BY LenProperties DEF TxInv, TxTypeOK
      <4>2. PICK a \in 1..Len(ongoing) : ongoing[a] = u
        BY <3>1
      <4>3. PICK b \in 1..Len(ongoing) : ongoing[b] = t
        BY <3>1
      <4>4. a # b
        BY <4>2, <4>3, <2>1
      <4>5. QED  BY <4>1, <4>4
    <3>3. [snapshot |-> i, key |-> k] \in new
      BY <2>3, <1>1, <1>2 DEF new, c
    <3>4. QED  BY <3>2, <3>3, <1>3
  <2>4. QED  BY <2>2, <2>3, <1>1
<1>12. HistoryBounded'
  <2>1. ASSUME NEW h \in history'
        PROVE  ongoing # <<>> /\ h.snapshot >= snap[ongoing[1]]
    <3>1. CASE h \in history
      BY <3>1 DEF TxInv, HistoryBounded
    <3>2. CASE Len(ongoing) > 1 /\ h \in new
      <4>1. ongoing \in Seq(Tx) /\ Len(ongoing) \in Nat
        BY LenProperties DEF TxInv, TxTypeOK
      <4>2. ongoing # <<>> /\ ongoing[1] \in Tx
        BY <4>1, <3>2, EmptySeq, ElementOfSeq
      <4>3. h.snapshot = n + 1
        BY <3>2, <1>1 DEF new
      <4>4. QED  BY <4>2, <4>3, <1>1
    <3>3. QED  BY <3>1, <3>2, <1>3
  <2>2. QED  BY <2>1, <1>3 DEF HistoryBounded
<1>13. ConflictIsReal'
  BY <1>3, <1>8 DEF TxInv, ConflictIsReal
<1>14. FirstCommitterWins'
  <2> SUFFICES ASSUME NEW j \in 1..(n + 1), NEW i \in (commits'[j].base + 1)..(j - 1)
               PROVE  KeysOf(commits'[i].writes) \cap KeysOf(commits'[j].writes) = {}
    <3>1. DOMAIN commits' = 1..(n + 1)
      BY <1>1, <1>2, LenProperties
    <3>2. QED  BY <3>1 DEF FirstCommitterWins
  <2>1. CASE j \in 1..n
    <3>1. /\ commits'[j] = commits[j] /\ commits[j].base \in Nat
          /\ i \in 1..n /\ commits'[i] = commits[i]
      <4>1. commits'[j] = commits[j] /\ commits[j].base \in Nat
        BY <2>1, <1>1, <1>2
      <4>2. i \in 1..n
        BY <4>1, <2>1, <1>1
      <4>3. QED  BY <4>1, <4>2, <1>2
    <3>2. j \in DOMAIN commits
      BY <2>1, <1>1, LenProperties DEF n
    <3>3. QED  BY <3>1, <3>2 DEF TxInv, FirstCommitterWins
  <2>2. CASE j = n + 1
    <3>1. commits'[j].base = snap[t] /\ commits'[j].writes = updates[t] /\ i \in (snap[t] + 1)..n
      <4>1. commits'[j] = c
        BY <2>2, <1>2
      <4>2. c.base = snap[t] /\ c.writes = updates[t]
        BY DEF c
      <4> HIDE DEF c
      <4>3. i \in (snap[t] + 1)..n
        <5>1. i \in (snap[t] + 1)..((n + 1) - 1)
          BY <4>1, <4>2, <2>2
        <5>2. QED  BY <5>1, <1>1
      <4>4. QED  BY <4>1, <4>2, <4>3
    <3>2. commits'[i] = commits[i]
      <4>1. i \in 1..n
        BY <3>1, <1>1
      <4>2. QED  BY <4>1, <1>2
    <3>3. ~SI!Conflicts(commits, snap[t], updates[t])
      BY <1>3 DEF TxInv, PhaseConsistent
    <3>4. QED  BY <3>1, <3>2, <3>3 DEF SI!Conflicts, SI!KeysOf, KeysOf, n
  <2>3. QED  BY <2>1, <2>2, <1>1
<1>15. QED
  BY <1>5, <1>6, <1>7, <1>9, <1>10, <1>11, <1>12, <1>13, <1>14 DEF TxInv

\* Untracking a transaction that is past its last conflict check.
LEMMA UntrackInv ==
  ASSUME TxInv, NEW t \in Tx, UntrackTXSync(t),
         pc[t] \in {"open", "untrack"},
         pc' = [pc EXCEPT ![t] = "release"],
         outcome' = outcome \/ (pc[t] = "open" /\ outcome' = [outcome EXCEPT ![t] = "failed"]),
         pc[t] = "open" => outcome' # outcome,
         UNCHANGED <<closed, snapshot, commit, snap, updates, commits>>
  PROVE  TxInv'
<1>1. /\ ongoing' \in Seq(Tx)
      /\ \A u \in Tx : (\E i \in 1..Len(ongoing') : ongoing'[i] = u)
                       <=> (u # t /\ \E i \in 1..Len(ongoing) : ongoing[i] = u)
      /\ \A i, j \in 1..Len(ongoing') : i < j =>
           ongoing'[i] # ongoing'[j] /\ snap[ongoing'[i]] <= snap[ongoing'[j]]
      /\ history' \subseteq history
      /\ \A h \in history' : ongoing' # <<>> /\ h.snapshot >= snap[ongoing'[1]]
      /\ \A u \in Tx : (u # t /\ pc[u] \in Tracked) =>
           \A h \in history : h.snapshot > snap[u] => h \in history'
  BY UntrackLemma DEF TxInv
<1>2. /\ pc'[t] = "release"
      /\ \A u \in Tx : u # t => pc'[u] = pc[u] /\ outcome'[u] = outcome[u]
      /\ outcome'[t] = IF pc[t] = "open" THEN "failed" ELSE outcome[t]
  BY DEF TxInv, TxTypeOK
<1>3. TxTypeOK'
  BY <1>1 DEF TxInv, TxTypeOK, Tracked
<1>4. OngoingOrdered'
  BY <1>1, <1>2 DEF TxInv, OngoingOrdered, Tracked
<1>5. CommitSerialised'
  BY <1>2 DEF TxInv, CommitSerialised
<1>6. PhaseConsistent'
  BY <1>2 DEF TxInv, PhaseConsistent, MayCommit
<1>7. HistorySound'
  BY <1>1 DEF TxInv, HistorySound
<1>8. HistoryCovers'
  <2> SUFFICES ASSUME NEW u \in Tx, pc'[u] \in MayCommit,
                      NEW i \in (snap[u] + 1)..Len(commits), NEW k \in KeysOf(commits[i].writes)
               PROVE  [snapshot |-> i, key |-> k] \in history'
    BY DEF HistoryCovers
  <2>1. u # t /\ pc[u] \in MayCommit /\ pc[u] \in Tracked
    BY <1>2 DEF MayCommit, Tracked
  <2>2. [snapshot |-> i, key |-> k] \in history
    BY <2>1 DEF TxInv, HistoryCovers
  <2>3. i > snap[u]
    BY LenProperties DEF TxInv, TxTypeOK
  <2>4. QED  BY <2>1, <2>2, <2>3, <1>1
<1>9. HistoryBounded'
  BY <1>1 DEF HistoryBounded
<1>10. ConflictIsReal'
  BY <1>2 DEF TxInv, ConflictIsReal
<1>11. FirstCommitterWins'
  BY DEF TxInv, FirstCommitterWins
<1>12. QED
  BY <1>3, <1>4, <1>5, <1>6, <1>7, <1>8, <1>9, <1>10, <1>11 DEF TxInv

\* kv.commit changing hands between the flush and nobody, and Close setting
\* kv.closed, disturb no transaction.
LEMMA SystemStepInv ==
  ASSUME TxInv, CompactorLock \/ CompactorUnlock \/ CloseBegin
  PROVE  TxInv'
<1>1. UNCHANGED <<snapshot, history, ongoing, pc, outcome, snap, updates, commits>>
  BY DEF CompactorLock, CompactorUnlock, CloseBegin
<1>2. TxTypeOK'
  BY <1>1 DEF TxInv, TxTypeOK, CompactorLock, CompactorUnlock, CloseBegin
<1>3. CommitSerialised'
  BY <1>1, LockerAssumption
  DEF TxInv, TxTypeOK, CommitSerialised, CompactorLock, CompactorUnlock, CloseBegin
<1>4. QED
  BY <1>1, <1>2, <1>3
  DEF TxInv, OngoingOrdered, PhaseConsistent, HistorySound, HistoryCovers, HistoryBounded,
      ConflictIsReal, FirstCommitterWins

\* Every step of one transaction other than a read or a write of a key.
LEMMA TxStepInv ==
  ASSUME TxInv, NEW t \in Tx, TxStep(t)
  PROVE  TxInv'
<1>1. CASE NewTX(t)            BY <1>1, NewTXInv
<1>2. CASE NewTXClosed(t)      BY <1>2, NewTXClosedInv
<1>3. CASE Abort(t)
  <2>1. outcome' # outcome
    BY <1>3 DEF Abort, Result, TxInv, TxTypeOK, PhaseConsistent, MayCommit
  <2>2. QED  BY <2>1, <1>3, UntrackInv DEF Abort, Goto, Result
<1>4. CASE CommitLock(t)       BY <1>4, CommitLockInv
<1>5. CASE CheckTXConflict(t)  BY <1>5, CheckTXConflictInv
<1>6. CASE UpdateLog(t)        BY <1>6, UpdateLogInv
<1>7. CASE PublishCommit(t)    BY <1>7, PublishCommitInv
<1>8. CASE CommitUntrack(t)
  BY <1>8, UntrackInv DEF CommitUntrack, Goto
<1>9. CASE Released(t)         BY <1>9, ReleasedInv
<1>10. CASE CommitUnlock(t)    BY <1>10, CommitUnlockInv
<1>11. CASE Notified(t)        BY <1>11, NotifiedInv
<1>12. QED
  BY <1>1, <1>2, <1>3, <1>4, <1>5, <1>6, <1>7, <1>8, <1>9, <1>10, <1>11 DEF TxStep

\* The initial state of NewKV.
LEMMA TxInitInv == TxInit => TxInv
<1> SUFFICES ASSUME TxInit PROVE TxInv
  OBVIOUS
<1>1. ongoing = <<>> /\ commits = <<>> /\ Len(ongoing) = 0 /\ Len(commits) = 0 /\ 1..0 = {}
  BY DEF TxInit
<1>2. TxTypeOK
  BY <1>1, EmptySeq DEF TxInit, TxTypeOK, EmptyLevel, Level, Entry, Tracked
<1>3. OngoingOrdered /\ CommitSerialised
  BY <1>1 DEF TxInit, OngoingOrdered, CommitSerialised, Tracked
<1>4. PhaseConsistent /\ ConflictIsReal
  BY DEF TxInit, PhaseConsistent, ConflictIsReal, MayCommit
<1>5. HistorySound /\ HistoryCovers /\ HistoryBounded /\ FirstCommitterWins
  BY <1>1 DEF TxInit, HistorySound, HistoryCovers, HistoryBounded, FirstCommitterWins, MayCommit
<1>6. QED  BY <1>2, <1>3, <1>4, <1>5 DEF TxInv

\* TxInv is inductive.
LEMMA TxNextInv == TxInv /\ [TxNext]_txVars => TxInv'
<1> SUFFICES ASSUME TxInv, [TxNext]_txVars PROVE TxInv'
  OBVIOUS
<1>1. ASSUME NEW t \in Tx, TxStep(t) PROVE TxInv'
  BY <1>1, TxStepInv
<1>2. ASSUME NEW t \in Tx, NEW k \in Keys, Del(t, k, Get(t, k)) PROVE TxInv'
  BY <1>2, WriteInv DEF Del
<1>3. ASSUME NEW t \in Tx, NEW k \in Keys, NEW v \in Vals, NEW mode \in Modes,
             SetEx(t, k, v, mode, Get(t, k))
      PROVE  TxInv'
  BY <1>3, WriteInv DEF SetEx
<1>4. CASE CompactorLock \/ CompactorUnlock \/ CloseBegin
  BY <1>4, SystemStepInv
<1>5. CASE UNCHANGED txVars
  <2> USE <1>5 DEF txVars, TxInv
  <2>1. TxTypeOK'           BY DEF TxTypeOK
  <2>2. OngoingOrdered' /\ CommitSerialised'
    BY DEF OngoingOrdered, CommitSerialised
  <2>3. PhaseConsistent' /\ ConflictIsReal'
    BY DEF PhaseConsistent, ConflictIsReal
  <2>4. HistorySound' /\ HistoryCovers' /\ HistoryBounded' /\ FirstCommitterWins'
    BY DEF HistorySound, HistoryCovers, HistoryBounded, FirstCommitterWins
  <2>5. QED  BY <2>1, <2>2, <2>3, <2>4
<1>6. QED  BY <1>1, <1>2, <1>3, <1>4, <1>5 DEF TxNext

-----------------------------------------------------------------------------

\* The transactions of db.KV keep their bookkeeping (kv.ongoing, kv.history,
\* kv.snapshot, kv.commit) consistent between any two steps.
THEOREM TxInvariant == TxSpec => []TxInv
<1>1. QED  BY TxInitInv, TxNextInv, PTL DEF TxSpec

\* First committer wins, for any number of transactions and keys: checkTXConflict,
\* reading the trimmed kv.history, never lets a lost update through.
THEOREM FirstCommitterWinsTheorem == TxSpec => []FirstCommitterWins
<1>1. TxInv => FirstCommitterWins
  BY DEF TxInv
<1>2. QED  BY <1>1, TxInvariant, PTL

\* untrackTXSync never trims a key some transaction that may commit still needs.
THEOREM HistoryCoversTheorem == TxSpec => []HistoryCovers
<1>1. TxInv => HistoryCovers
  BY DEF TxInv
<1>2. QED  BY <1>1, TxInvariant, PTL

\* untrackTXSync keeps kv.history no longer than the oldest snapshot in use needs.
THEOREM HistoryBoundedTheorem == TxSpec => []HistoryBounded
<1>1. TxInv => HistoryBounded
  BY DEF TxInv
<1>2. QED  BY <1>1, TxInvariant, PTL

\* Commit returns ErrTXConflict only to a transaction that has lost a race for a key.
THEOREM ConflictIsRealTheorem == TxSpec => []ConflictIsReal
<1>1. TxInv => ConflictIsReal
  BY DEF TxInv
<1>2. QED  BY <1>1, TxInvariant, PTL

-----------------------------------------------------------------------------

\* How the status of one transaction follows its place and its result.
LEMMA StatusStep ==
  ASSUME TxTypeOK, TxTypeOK', NEW t \in Tx,
         \A u \in Tx : u # t => pc'[u] = pc[u] /\ outcome'[u] = outcome[u]
  PROVE  Status' = [Status EXCEPT ![t] =
                      IF outcome'[t] # "none" THEN outcome'[t]
                      ELSE IF pc'[t] = "idle" THEN "idle" ELSE "active"]
BY DEF Status

\* A step that changes neither the result of t nor whether it has begun is invisible.
LEMMA StatusSame ==
  ASSUME TxTypeOK, NEW t \in Tx, outcome' = outcome, pc[t] # "idle", pc'[t] # "idle",
         \A u \in Tx : u # t => pc'[u] = pc[u]
  PROVE  Status' = Status
BY DEF Status

\* Every step of one transaction other than a read or a write of a key is a step of
\* snapshot isolation or invisible to it.
LEMMA TxStepRefines ==
  ASSUME TxInv, TxInv', NEW t \in Tx, TxStep(t)
  PROVE  [SI!SINext]_(SI!siVars)
<1>1. TxTypeOK /\ TxTypeOK'
  BY DEF TxInv
<1>2. /\ outcome[t] = "none" <=> pc[t] \in MayCommit \cup {"idle"}
      /\ Status[t] = IF outcome[t] # "none" THEN outcome[t]
                     ELSE IF pc[t] = "idle" THEN "idle" ELSE "active"
      /\ snapshot = Len(commits)
  BY DEF TxInv, PhaseConsistent, CommitSerialised, Status
<1>3. CASE NewTX(t)
  <2>1. /\ Status[t] = "idle"
        /\ Status' = [Status EXCEPT ![t] = "active"]
    BY <1>1, <1>2, <1>3, StatusStep DEF NewTX, Goto, TxTypeOK, MayCommit
  <2>2. SI!Begin(t)
    BY <2>1, <1>2, <1>3 DEF NewTX, SI!Begin
  <2>3. QED  BY <2>2 DEF SI!SINext
<1>4. CASE NewTXClosed(t)
  <2>1. /\ Status[t] = "idle"
        /\ Status' = [Status EXCEPT ![t] = "failed"]
    BY <1>1, <1>2, <1>4, StatusStep DEF NewTXClosed, Goto, Result, TxTypeOK, MayCommit
  <2>2. SI!Fail(t)
    BY <2>1, <1>4 DEF NewTXClosed, SI!Fail
  <2>3. QED  BY <2>2 DEF SI!SINext
<1>5. CASE Abort(t)
  <2>1. /\ Status[t] = "active"
        /\ Status' = [Status EXCEPT ![t] = "failed"]
    BY <1>1, <1>2, <1>5, StatusStep DEF Abort, Goto, Result, TxTypeOK, MayCommit
  <2>2. SI!Fail(t)
    BY <2>1, <1>5 DEF Abort, SI!Fail
  <2>3. QED  BY <2>2 DEF SI!SINext
<1>6. CASE CommitLock(t)
  <2>1. CASE KeysOf(updates[t]) = {} /\ Goto(t, "untrack") /\ Result(t, "readonly")
    <3>1. /\ Status[t] = "active"
          /\ Status' = [Status EXCEPT ![t] = "readonly"]
      BY <2>1, <1>1, <1>2, <1>6, StatusStep DEF CommitLock, Goto, Result, TxTypeOK, MayCommit
    <3>2. SI!CommitReadOnly(t)
      BY <3>1, <2>1, <1>6 DEF CommitLock, SI!CommitReadOnly, SI!KeysOf, KeysOf
    <3>3. QED  BY <3>2 DEF SI!SINext
  <2>2. CASE KeysOf(updates[t]) # {} /\ Goto(t, "check") /\ UNCHANGED outcome
    <3>1. Status' = Status
      BY <2>2, <1>1, <1>6, StatusSame DEF CommitLock, Goto, TxTypeOK
    <3>2. QED  BY <3>1, <1>6 DEF CommitLock, SI!siVars
  <2>3. QED  BY <2>1, <2>2, <1>6 DEF CommitLock
<1>7. CASE CheckTXConflict(t)
  <2>1. CASE HistoryConflict(t) /\ Goto(t, "untrack") /\ Result(t, "conflict")
    <3>1. /\ Status[t] = "active"
          /\ Status' = [Status EXCEPT ![t] = "conflict"]
      BY <2>1, <1>1, <1>2, <1>7, StatusStep DEF CheckTXConflict, Goto, Result, TxTypeOK, MayCommit
    <3>2. SI!Conflicts(commits, snap[t], updates[t])
      BY <2>1, <1>7, ConflictLemma DEF CheckTXConflict
    <3>3. SI!Refuse(t)
      BY <3>1, <3>2, <1>7 DEF CheckTXConflict, SI!Refuse
    <3>4. QED  BY <3>3 DEF SI!SINext
  <2>2. CASE Goto(t, "log") /\ UNCHANGED outcome
    <3>1. Status' = Status
      BY <2>2, <1>1, <1>7, StatusSame DEF CheckTXConflict, Goto, TxTypeOK
    <3>2. QED  BY <3>1, <1>7 DEF CheckTXConflict, SI!siVars
  <2>3. QED  BY <2>1, <2>2, <1>7 DEF CheckTXConflict
<1>8. CASE UpdateLog(t)
  <2>1. CASE Goto(t, "untrack") /\ Result(t, "failed")
    <3>1. /\ Status[t] = "active"
          /\ Status' = [Status EXCEPT ![t] = "failed"]
      BY <2>1, <1>1, <1>2, <1>8, StatusStep DEF UpdateLog, Goto, Result, TxTypeOK, MayCommit
    <3>2. SI!Fail(t)
      BY <3>1, <1>8 DEF UpdateLog, SI!Fail
    <3>3. QED  BY <3>2 DEF SI!SINext
  <2>2. CASE Goto(t, "apply") /\ UNCHANGED outcome
    <3>1. Status' = Status
      BY <2>2, <1>1, <1>8, StatusSame DEF UpdateLog, Goto, TxTypeOK
    <3>2. QED  BY <3>1, <1>8 DEF UpdateLog, SI!siVars
  <2>3. QED  BY <2>1, <2>2, <1>8 DEF UpdateLog
<1>9. CASE PublishCommit(t)
  <2>1. /\ Status[t] = "active"
        /\ Status' = [Status EXCEPT ![t] = "committed"]
    BY <1>1, <1>2, <1>9, StatusStep DEF PublishCommit, Goto, Result, TxTypeOK, MayCommit
  <2>2. KeysOf(updates[t]) # {} /\ ~SI!Conflicts(commits, snap[t], updates[t])
    BY <1>9 DEF PublishCommit, TxInv, PhaseConsistent
  <2>3. SI!Commit(t)
    BY <2>1, <2>2, <1>9 DEF PublishCommit, SI!Commit, SI!KeysOf, KeysOf
  <2>4. QED  BY <2>3 DEF SI!SINext
<1>10. CASE CommitUntrack(t)
  <2>1. Status' = Status
    BY <1>1, <1>10, StatusSame DEF CommitUntrack, Goto, TxTypeOK
  <2>2. QED  BY <2>1, <1>10 DEF CommitUntrack, SI!siVars
<1>11. CASE Released(t)
  <2>1. Status' = Status
    BY <1>1, <1>11, StatusSame DEF Released, Goto, TxTypeOK
  <2>2. QED  BY <2>1, <1>11 DEF Released, SI!siVars
<1>12. CASE CommitUnlock(t)
  <2>1. Status' = Status
    BY <1>1, <1>12, StatusSame DEF CommitUnlock, Goto, TxTypeOK
  <2>2. QED  BY <2>1, <1>12 DEF CommitUnlock, SI!siVars
<1>13. CASE Notified(t)
  <2>1. Status' = Status
    BY <1>1, <1>13, StatusSame DEF Notified, Goto, TxTypeOK
  <2>2. QED  BY <2>1, <1>13 DEF Notified, SI!siVars
<1>14. QED
  BY <1>3, <1>4, <1>5, <1>6, <1>7, <1>8, <1>9, <1>10, <1>11, <1>12, <1>13 DEF TxStep

\* A write through SetEx or Del, given what the committed prefix shows, is a write
\* of snapshot isolation.
LEMMA WriteRefines ==
  ASSUME TxInv, NEW t \in Tx, NEW k \in Keys
  PROVE  /\ Del(t, k, Get(t, k)) => SI!Delete(t, k)
         /\ \A v \in Vals, mode \in Modes : SetEx(t, k, v, mode, Get(t, k)) => SI!Put(t, k, v)
<1>1. pc[t] = "open" => Status[t] = "active"
  BY DEF TxInv, PhaseConsistent, MayCommit, Status
<1>2. UNCHANGED <<pc, outcome>> => Status' = Status
  BY DEF Status
<1>3. Del(t, k, Get(t, k)) => SI!Delete(t, k)
  BY <1>1, <1>2 DEF Del, Get, SI!Delete
<1>4. ASSUME NEW v \in Vals, NEW mode \in Modes, SetEx(t, k, v, mode, Get(t, k))
      PROVE  SI!Put(t, k, v)
  <2>1. Get(t, k) # v
    BY <1>4, EntryAssumption DEF SetEx, Updated
  <2>2. QED  BY <2>1, <1>1, <1>2, <1>4 DEF SetEx, Get, SI!Put
<1>5. QED  BY <1>3, <1>4

\* Commits made lock by lock, checked against a trimmed history, are atomic commits
\* under snapshot isolation: db.KV implements the abstract specification.
THEOREM ImplementsSITheorem == TxSpec => ImplementsSI
<1>1. TxInit => SI!SIInit
  BY DEF TxInit, SI!SIInit, Status, SI!EmptyLevel, EmptyLevel
<1>2. TxInv /\ TxInv' /\ [TxNext]_txVars => [SI!SINext]_(SI!siVars)
  <2> SUFFICES ASSUME TxInv, TxInv', [TxNext]_txVars PROVE [SI!SINext]_(SI!siVars)
    OBVIOUS
  <2>1. ASSUME NEW t \in Tx, TxStep(t) PROVE [SI!SINext]_(SI!siVars)
    BY <2>1, TxStepRefines
  <2>2. ASSUME NEW t \in Tx, NEW k \in Keys, Del(t, k, Get(t, k)) PROVE SI!SINext
    BY <2>2, WriteRefines DEF SI!SINext
  <2>3. ASSUME NEW t \in Tx, NEW k \in Keys, NEW v \in Vals, NEW mode \in Modes,
               SetEx(t, k, v, mode, Get(t, k))
        PROVE  SI!SINext
    BY <2>3, WriteRefines DEF SI!SINext
  <2>4. CASE CompactorLock \/ CompactorUnlock \/ CloseBegin
    BY <2>4 DEF CompactorLock, CompactorUnlock, CloseBegin, Status, SI!siVars
  <2>5. CASE UNCHANGED txVars
    BY <2>5 DEF txVars, Status, SI!siVars
  <2>6. QED  BY <2>1, <2>2, <2>3, <2>4, <2>5 DEF TxNext
<1>3. QED  BY <1>1, <1>2, TxInvariant, PTL DEF TxSpec, SI!SISpec, ImplementsSI

=============================================================================

----------------------------- MODULE LeaderReads -----------------------------
(***************************************************************************)
(* Linearizable reads on one node of the cluster: readReady, Get and Range *)
(* of ClusterKVServer (grpc/cluster_server.go) over the FSM, with the      *)
(* leadership fence of cluster/fence.go.                                   *)
(*                                                                         *)
(* Elections and replication belong to raft and are external.  The log is  *)
(* what is committed in the cluster; a leader knows all of it once the     *)
(* no-op of its term is committed, and not always before.  Restores and    *)
(* crashes are explored in the FSM's own runs.                             *)
(***************************************************************************)
EXTENDS FSM

CONSTANTS
  MaxWrites, \* how many entries are neither no-ops nor barriers
  MaxTerms   \* how often this node is elected

VARIABLES
  leader,    \* the node is the leader, and a quorum agrees
  noop,      \* the no-op of its term is committed
  terms,
  fence,     \* leadershipFenceLoop: "rest", "forced", "barrier" or "wake"
  barrier,   \* the index of its barrier
  rd,        \* one read request
  cache,     \* the read cache of the store
  woken,     \* the channel that the request holds has been closed
  raced      \* history variable: a Get has put into the cache what a commit had replaced

nodeVars == <<leader, noop, terms, fence, barrier>>
getVars == <<rd, cache, woken, raced>>
vars == <<fsmVars, events, nodeVars, getVars>>

NoRead == [pc |-> "idle", key |-> Absent, due |-> 0, target |-> 0, settled |-> FALSE,
           val |-> Absent]

Init ==
  /\ FSMInit
  /\ leader = FALSE /\ noop = FALSE /\ terms = 0
  /\ fence = "rest" /\ barrier = 0
  /\ rd = NoRead /\ cache = EmptyStore /\ woken = TRUE /\ raced = FALSE

-----------------------------------------------------------------------------
(* Leadership. *)

Up == fpc \notin {"down", "dead"} /\ ~startup

\* A leader holds every committed entry, but may not know that it is committed.
Elected ==
  /\ Up /\ ~leader /\ terms < MaxTerms
  /\ leader' = TRUE /\ noop' = FALSE /\ terms' = terms + 1
  /\ fence' = IF fence = "rest" THEN "forced" ELSE fence
  /\ UNCHANGED <<fsmVars, events, barrier, getVars>>

Deposed ==
  /\ leader /\ leader' = FALSE
  /\ UNCHANGED <<fsmVars, events, noop, terms, fence, barrier, getVars>>

\* This leader's entries are committed, after the no-op of its term.
LeaderCommits(entry) ==
  /\ leader /\ (noop \/ entry = Noop)
  /\ Commit(entry)
  /\ commitIdx' = Len(log')
  /\ UNCHANGED <<raftSnap, pending, fsmIdx, fpc, dir, swapVars, readers, applied, events, getVars>>

CommitNoop ==
  /\ ~noop /\ LeaderCommits(Noop)
  /\ noop' = TRUE
  /\ UNCHANGED <<leader, terms, fence, barrier>>

Writes == Len(SelectSeq(log, LAMBDA e : e \notin {Noop, Barrier}))

\* applyCommand on this server.
ClientWrites ==
  /\ Writes < MaxWrites /\ noop
  /\ \E e \in Commands : LeaderCommits(e)
  /\ UNCHANGED nodeVars

\* Another leader's entries are committed.
OthersWrite ==
  /\ Writes < MaxWrites /\ ~leader
  /\ \E e \in Commands : Commit(e)
  /\ UNCHANGED <<commitIdx, raftSnap, pending, fsmIdx, fpc, dir, swapVars, readers, applied, events,
                 nodeVars, getVars>>

-----------------------------------------------------------------------------
(* leadershipFenceLoop and fenceAppliedIndex. *)

\* An observed election, or the ticker when the applied index is behind the commit
\* index, appends a barrier to the log.
FenceBarrier ==
  /\ noop
  /\ fence = "forced" \/ (fence = "rest" /\ applied < commitIdx)
  /\ LeaderCommits(Barrier)
  /\ fence' = "barrier" /\ barrier' = Len(log')
  /\ UNCHANGED <<leader, noop, terms>>

\* The observation is dropped, the node is not the leader, or the barrier fails.
FenceFails ==
  /\ fence = "forced" \/ (fence = "barrier" /\ ~leader)
  /\ fence' = "rest" /\ barrier' = 0
  /\ UNCHANGED <<fsmVars, events, leader, noop, terms, getVars>>

\* The barrier resolves once the FSM goroutine has consumed it.  The waiters are woken
\* unless Apply has raised the index as far already.
FenceObserve ==
  /\ fence = "barrier" /\ fsmIdx >= barrier
  /\ ObserveAppliedIndex(barrier)
  /\ fence' = IF barrier > applied THEN "wake" ELSE "rest"
  /\ barrier' = 0
  /\ UNCHANGED <<leader, noop, terms, getVars>>

FenceWake ==
  /\ fence = "wake" /\ fence' = "rest"
  /\ woken' = TRUE
  /\ UNCHANGED <<fsmVars, events, leader, noop, terms, barrier, rd, cache, raced>>

-----------------------------------------------------------------------------
(* One read: readReady, then Get or Range. *)

\* A step of the request that leaves the FSM alone.
Quietly == UNCHANGED <<fsmVars, events, nodeVars, cache, raced>>

\* A request arrives at a node that is or was the leader; elsewhere it fails at once.
\* The history field due is what was committed by then.
ReadStarts(k) ==
  /\ Up /\ terms > 0 /\ rd.pc = "idle"
  /\ rd' = [NoRead EXCEPT !.pc = "verify", !.key = k, !.due = Len(log)]
  /\ UNCHANGED woken /\ Quietly

\* A round of heartbeats confirms that the node leads.
VerifyLeader ==
  /\ rd.pc = "verify" /\ leader
  /\ rd' = [rd EXCEPT !.pc = "commit", !.settled = noop]
  /\ UNCHANGED woken /\ Quietly

\* CommitIndex() is taken for the index to wait for, whoever leads by now.
ReadCommitIndex ==
  /\ rd.pc = "commit"
  /\ rd' = [rd EXCEPT !.pc = "channel", !.target = commitIdx]
  /\ UNCHANGED woken /\ Quietly

\* Variant: WaitForAppliedIndex looks at the index before it takes the channel.
TakeChannelLate ==
  /\ \/ rd.pc = "channel" /\ applied >= rd.target /\ rd' = [rd EXCEPT !.pc = "ready"] /\ UNCHANGED woken
     \/ rd.pc = "channel" /\ applied < rd.target /\ rd' = [rd EXCEPT !.pc = "late"] /\ UNCHANGED woken
     \/ rd.pc = "late" /\ woken' = FALSE /\ rd' = [rd EXCEPT !.pc = "select"]
  /\ Quietly

\* WaitForAppliedIndex takes the channel, then looks at the index.
TakeChannel ==
  /\ rd.pc = "channel"
  /\ woken' = FALSE
  /\ rd' = [rd EXCEPT !.pc = "check"]
  /\ Quietly

CheckApplied ==
  /\ rd.pc = "check"
  /\ rd' = [rd EXCEPT !.pc = IF applied >= rd.target THEN "ready" ELSE "select"]
  /\ UNCHANGED woken /\ Quietly

\* The channel is closed: look again.
Select ==
  /\ rd.pc = "select" /\ woken
  /\ rd' = [rd EXCEPT !.pc = "channel"]
  /\ UNCHANGED woken /\ Quietly

\* The context ends, or the node no longer leads.
ReadFails ==
  /\ (rd.pc = "verify" /\ ~leader) \/ rd.pc = "select"
  /\ rd' = NoRead
  /\ UNCHANGED woken /\ Quietly

\* FSM.Get takes the lock, and kv.Get asks the cache.
GetCached ==
  /\ rd.pc = "ready" /\ ReadLock
  /\ rd' = IF cache[rd.key] = Absent THEN [rd EXCEPT !.pc = "read"]
           ELSE [rd EXCEPT !.pc = "return", !.val = cache[rd.key]]
  /\ UNCHANGED <<nodeVars, cache, woken, raced>>

\* It reads a snapshot of the store.
GetStore ==
  /\ rd.pc = "read"
  /\ rd' = [rd EXCEPT !.pc = "fill", !.val = dir.live.data[rd.key]]
  /\ UNCHANGED woken /\ Quietly

\* What it has found goes into the cache, whatever has been committed since.
GetFill ==
  /\ rd.pc = "fill"
  /\ cache' = IF rd.val = Absent THEN cache ELSE [cache EXCEPT ![rd.key] = rd.val]
  /\ raced' = (raced \/ rd.val # dir.live.data[rd.key])
  /\ rd' = [rd EXCEPT !.pc = "return"]
  /\ UNCHANGED <<fsmVars, events, nodeVars, woken>>

GetReturns ==
  /\ rd.pc = "return" /\ ReadUnlock
  /\ rd' = NoRead
  /\ UNCHANGED <<nodeVars, cache, woken, raced>>

-----------------------------------------------------------------------------

Touched(cmd) == {cmd.muts[i].key : i \in DOMAIN cmd.muts}

\* Variant: the keys of a command stay cached.
CacheAfterKept == cache

\* invalidateCache drops the keys that a commit touched.
CacheAfter ==
  IF fpc # "invalidate" THEN cache
  ELSE [k \in Keys |-> IF k \in Touched(log[fsmIdx]) THEN Absent ELSE cache[k]]

\* The FSM goroutine, with what its steps do to the cache and to the waiters.
FSMRuns ==
  /\ FSMStep
  /\ cache' = CacheAfter
  /\ woken' = (woken \/ fpc = "wake")
  /\ UNCHANGED <<nodeVars, rd, raced>>

FenceRuns == FenceBarrier \/ FenceFails \/ FenceObserve \/ FenceWake

ReadRuns ==
  \/ VerifyLeader \/ ReadCommitIndex \/ TakeChannel \/ CheckApplied \/ Select
  \/ GetCached \/ GetStore \/ GetFill \/ GetReturns

FollowerLearns == ~leader /\ LearnCommit(Len(log)) /\ UNCHANGED <<nodeVars, getVars>>

Next ==
  \/ Elected \/ Deposed \/ CommitNoop \/ ClientWrites \/ OthersWrite
  \/ FSMRuns \/ FenceRuns \/ ReadRuns \/ FollowerLearns
  \/ (\E k \in Keys : ReadStarts(k)) \/ ReadFails

\* The goroutines of the node keep running, and a leader commits its no-op.  Nothing
\* is assumed of clients, elections, timeouts or streams.
Fairness == WF_vars(FSMRuns) /\ WF_vars(FenceRuns) /\ WF_vars(ReadRuns) /\ WF_vars(CommitNoop)

Spec == Init /\ [][Next]_vars /\ Fairness

-----------------------------------------------------------------------------

\* A linearizable read sees every write committed before it arrived: "served by the
\* leader after it confirms leadership, so it never returns stale data" (client Get).
ReadFresh ==
  rd.pc = "return" => \E i \in rd.due..Len(log) : rd.val = states[i][rd.key]

\* The same of a leader whose term has committed its no-op before it confirms
\* leadership, whose store never applied an entry twice, and whose cache no Get has
\* filled with a value that was replaced while it read it.
SettledReadFresh ==
  rd.pc = "return" /\ rd.settled /\ ~raced => (dir.live.pure => ReadFresh)

\* A read waiting for the applied index of a leader stops waiting, although raft never
\* hands the no-op of a term to the FSM.
ReadStopsWaiting == rd.pc = "channel" ~> (rd.pc \in {"ready", "idle"} \/ ~leader \/ ~Up)
=============================================================================

------------------------------ MODULE Membership ------------------------------
(***************************************************************************)
(* The life of one member in the raft configuration: cluster/membership.go *)
(* and Shutdown of cluster/node.go, as run by the servers that may lead,   *)
(* and by the member itself.                                               *)
(*                                                                         *)
(* Raft (elections, replication of the configuration) and serf (the status *)
(* of the member as each server sees it, and the events that announce a    *)
(* change of it) are external.  The servers are voters that stay: none of  *)
(* them is shut down, and removing the last voter does not arise.          *)
(* Addresses are numbers: 0 is none.                                       *)
(***************************************************************************)
EXTENDS Naturals, Sequences

CONSTANTS
  Servers, NoLeader,
  Configs,         \* how the member may be configured: JoinAddr and NonVoter
  Timers,          \* timers that a server may have at a time
  MaxEvents,       \* bound, for each configuration: depositions, failures, suspicions,
                   \* departures, moves and lags
  MaxMoves         \* bound: changes of address

VARIABLES
  leader,
  conf,      \* the member in the raft configuration: its suffrage and its address
  \* the member
  cfg,       \* its configuration; joinAddr is NoLeader when none is given
  up,        \* "up", "leaving", "left" or "down"
  addr,      \* its address
  sees,      \* its suffrage in the configuration it knows
  hears,     \* the leader it knows
  caught,    \* what caughtUp says now
  \* each server
  view,      \* what Members() says of the member
  events,    \* discovery events not handled yet
  pending,   \* pendingRemoval: the timer, or None
  timer,     \* the state of each timer and of its callback
  evicted,   \* the mark
  joins,     \* a Join request, and the handler that serves it
  \* history variables
  late,      \* timers still armed when the member's return was handled
  crossed,   \* a callback has dropped the entry of a newer timer
  missed,    \* the member has gone unseen, or a leader was elected, a removal failed or
             \* a join ended after that
  asked,     \* promotion since the member entered the configuration or started: "no",
             \* asked for when it was "ready", or "overtaken" by the entry or the start
  happened   \* the events that MaxEvents bounds

memberVars == <<cfg, up, addr, sees, hears, caught>>
serverVars == <<view, events, pending, timer, evicted, late, crossed>>
vars == <<leader, conf, memberVars, serverVars, joins, missed, asked, happened>>

None == 0
Happens == happened < MaxEvents[cfg] /\ happened' = happened + 1
Out == [suffrage |-> "none", addr |-> 0]
NoJoin == [pc |-> "none", to |-> NoLeader, addr |-> 0, nonVoter |-> TRUE]
Idle == [status |-> "unknown", addr |-> 0]

\* The member is a node that has just been started, unknown to all.
Init ==
  /\ leader \in Servers
  /\ conf = Out
  /\ cfg \in Configs
  /\ up = "up" /\ addr = 1 /\ sees = "none" /\ hears = NoLeader /\ caught = FALSE
  /\ view = [s \in Servers |-> Idle]
  /\ events = [s \in Servers |-> <<>>]
  /\ pending = [s \in Servers |-> None]
  /\ timer = [s \in Servers |-> [t \in Timers |-> "free"]]
  /\ evicted = [s \in Servers |-> FALSE]
  /\ joins = NoJoin
  /\ late = {} /\ crossed = FALSE /\ missed = FALSE /\ asked = "no"
  /\ happened = 0

-----------------------------------------------------------------------------
(* Raft. *)

Elected(s) ==
  /\ leader = NoLeader /\ leader' = s
  /\ missed' = (missed \/ up # "up")
  /\ UNCHANGED <<conf, memberVars, serverVars, joins, asked, happened>>

Deposed ==
  /\ Happens
  /\ leader # NoLeader /\ leader' = NoLeader
  /\ UNCHANGED <<conf, memberVars, serverVars, joins, missed, asked>>

\* AddNonvoter of a voter only changes its address.
AddNonvoter(a) ==
  /\ conf' = [suffrage |-> IF conf.suffrage = "voter" THEN "voter" ELSE "nonvoter", addr |-> a]
  /\ UNCHANGED <<sees, asked>>

AddVoter(a) == conf' = [suffrage |-> "voter", addr |-> a] /\ UNCHANGED <<sees, asked>>

\* A request for promotion is on its way, or a handler has decided to make a voter.
Promoting == joins.pc = "voter" \/ (joins.pc = "sent" /\ ~joins.nonVoter)

\* Raft stops replicating to a server that it removes: the member may learn of its
\* removal or not.
RemoveServer ==
  /\ conf' = Out
  /\ sees' \in {sees} \cup IF up = "up" /\ conf.addr = addr THEN {"none"} ELSE {}
  /\ asked' = IF Promoting THEN "overtaken" ELSE "no"

Replicates == up = "up" /\ leader # NoLeader /\ conf.suffrage # "none" /\ conf.addr = addr

\* The leader's messages make it known, and replicate the configuration.
LearnConfiguration ==
  /\ Replicates
  /\ hears' = leader /\ sees' \in {sees, conf.suffrage}
  /\ UNCHANGED <<leader, conf, cfg, up, addr, caught, serverVars, joins, missed, asked, happened>>

\* The member has not heard of the leader for an election timeout.
LoseLeader ==
  /\ up = "up" /\ hears # NoLeader /\ ~(Replicates /\ hears = leader)
  /\ hears' = NoLeader
  /\ UNCHANGED <<leader, conf, cfg, up, addr, sees, caught, serverVars, joins, missed, asked, happened>>

\* The member has applied what it knows to be committed; and it learns of more.
CatchUp ==
  /\ Replicates /\ ~caught
  /\ caught' = TRUE
  /\ UNCHANGED <<leader, conf, cfg, up, addr, sees, hears, serverVars, joins, missed, asked, happened>>

FallBehind ==
  /\ Replicates /\ caught /\ Happens
  /\ caught' = FALSE
  /\ UNCHANGED <<leader, conf, cfg, up, addr, sees, hears, serverVars, joins, missed, asked>>

-----------------------------------------------------------------------------
(* Serf, and the discovery adapter that turns its events into ours. *)

Announce(s, status, type) ==
  /\ view' = [view EXCEPT ![s] = [status |-> status, addr |-> addr]]
  /\ events' = [events EXCEPT ![s] = Append(@, [type |-> type, addr |-> addr])]
  /\ UNCHANGED <<leader, conf, memberVars, pending, timer, evicted, joins, late, crossed, missed, asked>>

SeesAlive(s) ==
  /\ up = "up" /\ view[s] # [status |-> "alive", addr |-> addr]
  /\ Announce(s, "alive", "join")
  /\ UNCHANGED happened

\* A member that is down is found out; one that is up may be suspected too.
SeesFailed(s) ==
  /\ view[s].status = "alive"
  /\ \/ up = "down" /\ UNCHANGED happened
     \/ up = "up" /\ Happens
  /\ Announce(s, "failed", "failed")

\* The intent to leave has no event of its own.
SeesLeaving(s) ==
  /\ up = "left" /\ view[s].status = "alive"
  /\ view' = [view EXCEPT ![s].status = "leaving"]
  /\ UNCHANGED <<leader, conf, memberVars, events, pending, timer, evicted, joins, late, crossed, missed, asked,
                 happened>>

SeesLeft(s) ==
  /\ up = "left" /\ view[s].status \in {"alive", "leaving", "failed"}
  /\ Announce(s, "left", "leave")
  /\ UNCHANGED happened

-----------------------------------------------------------------------------
(* The servers: events, timers and reconciliation. *)

\* cancelPendingRemoval: a timer whose callback has started is past stopping.
Cancelled(s) ==
  IF pending[s] # None /\ timer[s][pending[s]] = "armed"
  THEN [timer EXCEPT ![s][pending[s]] = "free"] ELSE timer

\* evictMember, from the check of leadership to RemoveServer, which may fail.
Evict(s) ==
  IF leader # s THEN UNCHANGED <<conf, sees, asked, evicted, missed>>
  ELSE /\ evicted' = [evicted EXCEPT ![s] = TRUE]
       /\ \/ RemoveServer /\ UNCHANGED missed
          \/ missed' = TRUE /\ UNCHANGED <<conf, sees, asked>>

\* addDiscoveredMember: a leader adds a member that the configuration does not have, or
\* has at another address; the error of AddNonvoter is ignored.
AddDiscovered(s, a) ==
  \/ leader = s /\ ~(conf.suffrage # "none" /\ conf.addr = a) /\ AddNonvoter(a)
  \/ UNCHANGED <<conf, sees, asked>>

\* Variant: the return of a member does not stop its timer.
HandleJoinRunning(s, a) ==
  /\ evicted' = [evicted EXCEPT ![s] = FALSE]
  /\ late' = late \cup {<<s, t>> : t \in {u \in Timers : timer[s][u] = "armed"}}
  /\ AddDiscovered(s, a)
  /\ UNCHANGED <<pending, timer, missed>>

\* A join or an update: the timer is stopped, the mark cleared and the member added.
HandleJoin(s, a) ==
  /\ pending' = [pending EXCEPT ![s] = None]
  /\ timer' = Cancelled(s)
  /\ late' = late \cup {<<s, t>> : t \in {u \in Timers : timer'[s][u] = "armed"}}
  /\ evicted' = [evicted EXCEPT ![s] = FALSE]
  /\ AddDiscovered(s, a)
  /\ UNCHANGED missed

HandleLeave(s) ==
  /\ pending' = [pending EXCEPT ![s] = None]
  /\ timer' = Cancelled(s)
  /\ Evict(s)
  /\ UNCHANGED late

\* scheduleFailedEviction.
HandleFailed(s) ==
  /\ IF pending[s] # None THEN UNCHANGED <<pending, timer, late>>
     ELSE \E t \in Timers :
            /\ timer[s][t] = "free" /\ \A u \in Timers : u < t => timer[s][u] # "free"
            /\ timer' = [timer EXCEPT ![s][t] = "armed"]
            /\ pending' = [pending EXCEPT ![s] = t]
            /\ late' = late \ {<<s, t>>}
  /\ UNCHANGED <<conf, sees, asked, evicted, missed>>

\* handleMembershipEvent.
HandleEvent(s) ==
  /\ events[s] # <<>>
  /\ events' = [events EXCEPT ![s] = Tail(@)]
  /\ LET e == Head(events[s])
     IN  CASE e.type = "join" -> HandleJoin(s, e.addr)
           [] e.type = "leave" -> HandleLeave(s)
           [] e.type = "failed" -> HandleFailed(s)
  /\ UNCHANGED <<leader, cfg, up, addr, hears, caught, view, crossed, joins, happened>>

\* The grace period is over and the callback starts.
Expire(s, t) ==
  /\ timer[s][t] = "armed"
  /\ timer' = [timer EXCEPT ![s][t] = "fired"]
  /\ UNCHANGED <<leader, conf, memberVars, view, events, pending, evicted, late, crossed, joins, missed, asked,
                 happened>>

\* Variant: a member that gossip still lists counts as alive.
EvictFailedListed(s, t) ==
  /\ timer[s][t] = "fired"
  /\ pending' = [pending EXCEPT ![s] = None]
  /\ crossed' = (crossed \/ pending[s] \notin {None, t})
  /\ timer' = [timer EXCEPT ![s][t] = IF view[s].status \in {"alive", "leaving", "failed"} THEN "free" ELSE "checked"]
  /\ UNCHANGED <<leader, conf, memberVars, view, events, evicted, late, joins, missed, asked, happened>>

\* evictFailedMember drops the entry, whoever it belongs to by now, and looks at the
\* status again.
EvictFailedMember(s, t) ==
  /\ timer[s][t] = "fired"
  /\ pending' = [pending EXCEPT ![s] = None]
  /\ crossed' = (crossed \/ pending[s] \notin {None, t})
  /\ timer' = [timer EXCEPT ![s][t] = IF view[s].status \in {"alive", "leaving"} THEN "free" ELSE "checked"]
  /\ UNCHANGED <<leader, conf, memberVars, view, events, evicted, late, joins, missed, asked, happened>>

EvictAfterCheck(s, t) ==
  /\ timer[s][t] = "checked"
  /\ timer' = [timer EXCEPT ![s][t] = "free"]
  /\ Evict(s)
  /\ UNCHANGED <<leader, cfg, up, addr, hears, caught, view, events, pending, late, crossed, joins, happened>>

\* Variant: reconciliation is left to the events.
ReconcileNothing(s) == FALSE /\ UNCHANGED vars

\* reconcileDiscovered: an alive member that the configuration does not know.
Reconcile(s) ==
  /\ leader = s /\ view[s].status = "alive" /\ ~evicted[s] /\ conf.suffrage = "none"
  /\ AddNonvoter(view[s].addr)
  /\ UNCHANGED <<leader, cfg, up, addr, hears, caught, serverVars, joins, missed, happened>>

-----------------------------------------------------------------------------
(* Join and Leave. *)

\* Whom promoteSelf asks: the leader it knows, or else JoinAddr.
Contact == IF hears # NoLeader THEN hears ELSE cfg.joinAddr

\* The request goes out; the history variable records a request for promotion.
Ask ==
  /\ joins' = [pc |-> "sent", to |-> Contact, addr |-> addr, nonVoter |-> sees = "none" \/ cfg.nonVoter]
  /\ asked' = IF ~Promoting' THEN asked
              ELSE IF conf.suffrage = "none" THEN "overtaken"
              ELSE IF caught THEN "ready" ELSE asked
  /\ UNCHANGED <<leader, conf, memberVars, serverVars, missed, happened>>

\* Variant: a node asks for promotion as soon as it is a non-voter.
PromoteSelfEarly ==
  /\ up = "up" /\ joins.pc = "none"
  /\ sees # "voter" /\ (sees = "nonvoter" => ~cfg.nonVoter) /\ Contact # NoLeader
  /\ Ask

\* promoteSelf: one step from unknown to voter.
PromoteSelf ==
  /\ up = "up" /\ joins.pc = "none"
  /\ sees # "voter" /\ (sees = "nonvoter" => ~cfg.nonVoter /\ caught) /\ Contact # NoLeader
  /\ Ask

\* Join on the leader stops the timer, reads the configuration and decides.
JoinRead(s) ==
  /\ joins.pc = "sent" /\ joins.to = s /\ leader = s
  /\ pending' = [pending EXCEPT ![s] = None]
  /\ timer' = Cancelled(s)
  /\ LET unmoved == conf.suffrage # "none" /\ conf.addr = joins.addr
     IN  joins' = IF unmoved /\ (conf.suffrage = "voter" \/ joins.nonVoter) THEN NoJoin
                  ELSE [joins EXCEPT !.pc = IF unmoved \/ conf.suffrage = "voter" THEN "voter" ELSE "nonvoter"]
  /\ UNCHANGED <<leader, conf, memberVars, view, events, evicted, late, crossed, missed, asked, happened>>

\* Its change of the configuration is made, whatever the configuration has become.
JoinApply ==
  /\ joins.pc \in {"voter", "nonvoter"} /\ leader = joins.to
  /\ IF joins.pc = "voter" THEN AddVoter(joins.addr) ELSE AddNonvoter(joins.addr)
  /\ joins' = NoJoin
  /\ missed' = (missed \/ up # "up")
  /\ UNCHANGED <<leader, cfg, up, addr, hears, caught, serverVars, happened>>

\* The server that was asked does not lead, or no longer when it makes the change.
\* joinRPC does not follow the redirection.
JoinFails ==
  /\ joins.pc # "none" /\ leader # joins.to
  /\ joins' = NoJoin
  /\ UNCHANGED <<leader, conf, memberVars, serverVars, missed, asked, happened>>

\* Leave on the leader, which knows the member.
Leave(s) ==
  /\ leader = s /\ conf.suffrage # "none"
  /\ pending' = [pending EXCEPT ![s] = None]
  /\ timer' = Cancelled(s)
  /\ Evict(s)

\* A request goes with its sender; a handler that has begun goes on.
DropRequest == joins' = IF joins.pc = "sent" THEN NoJoin ELSE joins

\* An operator removes a member that runs.
OperatorLeave(s) ==
  /\ Happens
  /\ up = "up"
  /\ Leave(s)
  /\ UNCHANGED <<leader, cfg, up, addr, hears, caught, view, events, late, crossed, joins>>

\* Shutdown with LeaveOnShutdown: the loops are cancelled, the leader is asked to
\* remove the node, and the departure is announced, whether that has failed or not.
ShutdownBegins ==
  /\ Happens
  /\ up = "up"
  /\ up' = "leaving" /\ DropRequest
  /\ missed' = \E s \in Servers : view[s].status # "alive"
  /\ UNCHANGED <<leader, conf, cfg, addr, sees, hears, caught, serverVars, asked>>

LeaveSelf ==
  /\ up = "leaving" /\ up' = "left"
  /\ \/ \E s \in Servers : Leave(s)
     \/ UNCHANGED <<conf, sees, asked, pending, timer, evicted, missed>>
  /\ UNCHANGED <<leader, cfg, addr, hears, caught, view, events, late, crossed, joins, happened>>

Down ==
  /\ Happens
  /\ up = "up" /\ up' = "down" /\ DropRequest
  /\ missed' = \E s \in Servers : view[s].status # "alive"
  /\ UNCHANGED <<leader, conf, cfg, addr, sees, hears, caught, serverVars, asked>>

\* The node starts again, perhaps elsewhere: it knows the configuration in its log, but
\* no leader and no commit index.  A departure has been announced to all by then: serf's
\* Leave waits for that.
Starts ==
  /\ up = "left" => \A s \in Servers : view[s].status \notin {"alive", "leaving", "failed"}
  /\ up \in {"down", "left"} /\ up' = "up"
  /\ hears' = NoLeader /\ caught' = FALSE
  /\ \/ UNCHANGED <<addr, happened>>
     \/ addr <= MaxMoves /\ addr' = addr + 1 /\ Happens
  /\ missed' = FALSE
  /\ asked' = IF conf.suffrage = "voter" THEN asked ELSE IF Promoting THEN "overtaken" ELSE "no"
  /\ UNCHANGED <<leader, conf, cfg, sees, serverVars, joins>>

-----------------------------------------------------------------------------

ServerStep(s) ==
  \/ HandleEvent(s) \/ Reconcile(s) \/ JoinRead(s)
  \/ \E t \in Timers : Expire(s, t) \/ EvictFailedMember(s, t) \/ EvictAfterCheck(s, t)

GossipStep(s) == SeesAlive(s) \/ SeesFailed(s) \/ SeesLeaving(s) \/ SeesLeft(s)

MemberStep ==
  \/ LearnConfiguration \/ LoseLeader \/ CatchUp \/ FallBehind
  \/ PromoteSelf \/ JoinApply \/ JoinFails \/ LeaveSelf

Next ==
  \/ \E s \in Servers : Elected(s) \/ ServerStep(s) \/ GossipStep(s) \/ OperatorLeave(s)
  \/ Deposed \/ MemberStep \/ ShutdownBegins \/ Down \/ Starts

\* Goroutines, timers, gossip and replication make progress; nothing is assumed of
\* elections, operators, failures and returns.
Fairness ==
  /\ \A s \in Servers :
       /\ WF_vars(HandleEvent(s)) /\ WF_vars(Reconcile(s)) /\ WF_vars(JoinRead(s))
       /\ WF_vars(SeesAlive(s)) /\ WF_vars(up = "down" /\ SeesFailed(s)) /\ WF_vars(SeesLeft(s))
       /\ \A t \in Timers :
            WF_vars(Expire(s, t) \/ EvictFailedMember(s, t) \/ EvictAfterCheck(s, t))
  /\ WF_vars(LearnConfiguration /\ sees' = conf.suffrage)
  /\ WF_vars(LoseLeader) /\ WF_vars(CatchUp) /\ WF_vars(PromoteSelf)
  /\ WF_vars(JoinApply) /\ WF_vars(JoinFails) /\ WF_vars(LeaveSelf)

Spec == Init /\ [][Next]_vars /\ Fairness

-----------------------------------------------------------------------------

\* "A flapping node that returns within the window is never removed": no timer evicts
\* that was still armed when the return of the member was handled, unless a callback
\* that was past stopping had dropped its entry.
GraceHonoured ==
  \A s \in Servers, t \in Timers : timer[s][t] = "checked" /\ <<s, t>> \in late => crossed

\* "A fresh replica must not count toward quorum while it is still receiving the log" (Join):
\* a voter has asked to be one since it entered the configuration and since it was last
\* started, when it had caught up by its own indexes; and it is not one that is configured
\* to stay a non-voter.  The code does not keep to this when the entry or the start
\* overtakes a request that was under way: Join decides by what it has read.
VotersCaughtUp == conf.suffrage = "voter" => asked # "no" /\ ~cfg.nonVoter

\* Neither side will ask again: the leader has a mark against adding the member, and the
\* member does not know of its removal or has nobody to ask.
Stranded(s) ==
  /\ evicted[s] /\ conf.suffrage = "none"
  /\ cfg.joinAddr # s \/ sees = "voter" \/ (sees = "nonvoter" /\ ~caught)

\* "A lost event or a mistaken eviction self-heals" (membershipLoop): a member that stays
\* up under a leader that stays becomes a voter, if it keeps its address, may vote, and is
\* not stranded by an eviction that was mistaken or asked for.
BecomesVoter ==
  \A s \in Servers :
    <>[](up = "up" /\ leader = s /\ addr = 1 /\ ~cfg.nonVoter /\ ~Stranded(s))
      => <>[](conf.suffrage = "voter")

\* "So a rolling replace cannot accumulate dead voters": a member that has gone and
\* stays away is removed by a leader that was there when it went, if gossip
\* had shown it alive until then and no change of the configuration was in the making.
DeadRemoved ==
  \A s \in Servers :
    <>[](up \in {"down", "left"} /\ leader = s /\ ~missed) => <>[](conf.suffrage = "none")
=============================================================================

----------------------------- MODULE ClientCalls -----------------------------
(***************************************************************************)
(* client/client.go with the write path of grpc/cluster_server.go:         *)
(* goroutines that share one Client send writes, follow the leader, and    *)
(* race its Close.                                                         *)
(*                                                                         *)
(* Raft is external: the leader may change at any time, an entry that it   *)
(* has accepted is committed or dropped, in order, and what a server says  *)
(* of the leader may be out of date.                                       *)
(***************************************************************************)
EXTENDS Naturals, Sequences

CONSTANTS
  Callers,        \* the goroutines, one write each
  Addrs, Seed,    \* addresses; Seed is the one the client was created with
  NoServer,
  Redirections,   \* settings.maxRedirects
  MaxTerms        \* bound on the changes of leader and on lost answers

ASSUME SeedAssumption == Seed \in Addrs /\ NoServer \notin Addrs
ASSUME RedirectionsAssumption == Redirections \in Nat

VARIABLES
  leaderAddr, \* raft: the address of the leader, or NoServer
  accepted,   \* entries it has accepted and not yet committed
  log,        \* committed entries; an entry is its caller and which attempt it was
  terms,      \* how often the leader has changed or an answer was lost
  conns,      \* c.conns: the connection for an address; a connection is the
              \* address and the goroutine that has dialled it
  dialled,    \* connections that are open
  active,     \* c.active
  closing,    \* what Close has still to close
  closed,     \* c.closed
  call        \* call[c]: the goroutine's progress

callVars == <<leaderAddr, accepted, log, terms, conns, dialled, active, closing, closed, call>>
raftVars == <<leaderAddr, accepted, log, terms>>
connVars == <<conns, dialled, active, closing, closed>>

NoConn == <<NoServer, NoServer>>
Addr(cn) == cn[1]

\* pc is where the goroutine is, cn the connection it uses, next the one that connFor
\* has found or is to dial, asked the candidates of resolveLeader that are left, and
\* attempt the redirects so far.
NotCalled == [pc |-> "idle", cn |-> NoConn, next |-> NoConn, asked |-> <<>>, attempt |-> 0]

CallInit ==
  /\ leaderAddr \in Addrs /\ accepted = <<>> /\ log = <<>> /\ terms = 0
  /\ conns = {<<Seed, NoServer>>} /\ dialled = conns /\ active = <<Seed, NoServer>>
  /\ closing = {} /\ closed = FALSE
  /\ call = [c \in Callers |-> NotCalled]

Goes(c, pc) == call' = [call EXCEPT ![c].pc = pc]

LogEntry(c) == <<c, call[c].attempt>>
Has(entries, e) == \E i \in DOMAIN entries : entries[i] = e

-----------------------------------------------------------------------------
(* Raft. *)

InTime == terms < MaxTerms /\ terms' = terms + 1

\* The leader changes; the handlers that wait on the old one get ErrLeadershipLost.
LeaderChanges(s) ==
  /\ s # leaderAddr /\ InTime
  /\ leaderAddr' = s
  /\ call' = [c \in Callers |-> IF call[c].pc = "wait"
                                THEN [call[c] EXCEPT !.pc = "unavailable"] ELSE call[c]]
  /\ UNCHANGED <<accepted, log, connVars>>

\* The first accepted entry is committed; or, when nobody waits for it, the leader that
\* came after may not have it.
Decide ==
  /\ accepted # <<>> /\ leaderAddr # NoServer
  /\ accepted' = Tail(accepted)
  /\ \/ log' = Append(log, Head(accepted))
     \/ ~(\E c \in Callers : call[c].pc = "wait" /\ LogEntry(c) = Head(accepted)) /\ UNCHANGED log
  /\ UNCHANGED <<leaderAddr, terms, connVars, call>>

-----------------------------------------------------------------------------
(* Client.call. *)

\* current: the active connection, or ErrClosed.
StartCall(c) ==
  /\ call[c].pc = "idle"
  /\ call' = [call EXCEPT ![c] = [@ EXCEPT !.pc = IF closed THEN "failed" ELSE "send",
                                           !.cn = IF closed THEN NoConn ELSE active]]
  /\ UNCHANGED <<raftVars, connVars>>

\* The request is sent.  A connection that was closed fails it for good; a server that is
\* not the leader refuses it (applyCommand, notLeaderError); the leader takes it.
Send(c) ==
  /\ call[c].pc = "send"
  /\ IF call[c].cn \notin dialled THEN Goes(c, "failed") /\ UNCHANGED accepted
     ELSE IF Addr(call[c].cn) # leaderAddr THEN Goes(c, "unavailable") /\ UNCHANGED accepted
     ELSE Goes(c, "wait") /\ accepted' = Append(accepted, LogEntry(c))
  /\ UNCHANGED <<leaderAddr, log, terms, connVars>>


\* waitFuture ends: the entry was committed and applied, or the context has ended, which
\* is not redirected.
Answered(c) ==
  /\ call[c].pc = "wait"
  /\ \/ Has(log, LogEntry(c)) /\ Goes(c, "done") /\ UNCHANGED terms
     \/ InTime /\ Goes(c, "failed")
  /\ UNCHANGED <<leaderAddr, accepted, log, connVars>>

\* The connection breaks, before or after the entry was applied: codes.Unavailable.
Breaks(c) ==
  /\ call[c].pc = "wait" /\ InTime
  /\ Goes(c, "unavailable")
  /\ UNCHANGED <<leaderAddr, accepted, log, connVars>>

\* Variant: as long as the error is one to redirect.
RedirectForever(c) ==
  /\ call[c].pc = "unavailable"
  /\ call' = [call EXCEPT ![c].pc = "lookup", ![c].attempt = IF @ < Redirections THEN @ + 1 ELSE @,
                            ![c].asked = <<call[c].cn, <<Seed, NoServer>> >>]
  /\ UNCHANGED <<raftVars, connVars>>

\* The loop of call: isRedirectable, and at most maxRedirects times; then resolveLeader
\* asks the server that failed, and the seed after it.
Redirect(c) ==
  /\ call[c].pc = "unavailable"
  /\ IF call[c].attempt < Redirections
     THEN call' = [call EXCEPT ![c].pc = "lookup", ![c].attempt = @ + 1,
                               ![c].asked = IF Addr(call[c].cn) = Seed THEN <<call[c].cn>>
                                            ELSE <<call[c].cn, <<Seed, NoServer>> >>]
     ELSE Goes(c, "failed")
  /\ UNCHANGED <<raftVars, connVars>>

\* One candidate of resolveLeader: it fails or knows no leader, or it names a server, for
\* which connFor has a connection or must dial one.
Lookup(c) ==
  /\ call[c].pc = "lookup"
  /\ \/ /\ call' = [call EXCEPT ![c].asked = Tail(@), ![c].pc = IF Len(call[c].asked) = 1 THEN "failed" ELSE @]
     \/ /\ call[c].asked[1] \in dialled /\ ~closed
        /\ \E s \in Addrs : LET known == {cn \in conns : Addr(cn) = s} IN
             \/ \E cn \in known : call' = [call EXCEPT ![c].next = cn, ![c].pc = "use"]
             \/ known = {} /\ call' = [call EXCEPT ![c].next = <<s, c>>, ![c].pc = "dial"]
  /\ UNCHANGED <<raftVars, connVars>>

\* connFor without c.mu: newConn.
Dial(c) ==
  /\ call[c].pc = "dial"
  /\ dialled' = dialled \cup {call[c].next}
  /\ Goes(c, "register")
  /\ UNCHANGED <<raftVars, conns, active, closing, closed>>

\* Variant: the map is not looked at again.
RegisterOver(c) ==
  /\ call[c].pc = "register"
  /\ \/ closed /\ dialled' = dialled \ {call[c].next} /\ UNCHANGED conns /\ Goes(c, "failed")
     \/ /\ ~closed /\ conns' = {cn \in conns : Addr(cn) # Addr(call[c].next)} \cup {call[c].next}
        /\ UNCHANGED dialled /\ Goes(c, "use")
  /\ UNCHANGED <<raftVars, active, closing, closed>>

\* Variant: nor whether the client was closed.
RegisterClosed(c) ==
  LET mine == call[c].next
      known == {cn \in conns : Addr(cn) = Addr(mine)}
  IN  /\ call[c].pc = "register"
      /\ \/ /\ dialled' = dialled \ {mine} /\ UNCHANGED conns
            /\ \E cn \in known : call' = [call EXCEPT ![c].next = cn, ![c].pc = "use"]
         \/ known = {} /\ conns' = conns \cup {mine} /\ UNCHANGED dialled /\ Goes(c, "use")
      /\ UNCHANGED <<raftVars, active, closing, closed>>

\* connFor under c.mu again: the client was closed, or another goroutine has dialled the
\* same address; then this connection goes.
Register(c) ==
  LET mine == call[c].next
      known == {cn \in conns : Addr(cn) = Addr(mine)}
  IN  /\ call[c].pc = "register"
      /\ \/ closed /\ dialled' = dialled \ {mine} /\ UNCHANGED conns /\ Goes(c, "failed")
         \/ /\ ~closed /\ dialled' = dialled \ {mine} /\ UNCHANGED conns
            /\ \E cn \in known : call' = [call EXCEPT ![c].next = cn, ![c].pc = "use"]
         \/ /\ ~closed /\ known = {}
            /\ conns' = conns \cup {mine} /\ UNCHANGED dialled /\ Goes(c, "use")
      /\ UNCHANGED <<raftVars, active, closing, closed>>

\* setActive, unless the client was closed since, and the next attempt, on the connection
\* that connFor gave; unless the leader is the server that has just failed.
Use(c) ==
  /\ call[c].pc = "use"
  /\ active' = IF closed THEN active ELSE call[c].next
  /\ call' = [call EXCEPT ![c].cn = call[c].next,
                          ![c].pc = IF call[c].next = call[c].cn THEN "failed" ELSE "send"]
  /\ UNCHANGED <<raftVars, conns, dialled, closing, closed>>

\* Close takes the connections under c.mu, and closes them after it, which ends the
\* calls that wait on them.
CloseBegins ==
  /\ ~closed
  /\ closed' = TRUE /\ closing' = conns /\ conns' = {} /\ active' = NoConn
  /\ UNCHANGED <<raftVars, dialled, call>>

CloseConns ==
  /\ closing # {}
  /\ dialled' = dialled \ closing /\ closing' = {}
  /\ call' = [c \in Callers |-> IF call[c].pc = "wait" /\ call[c].cn \in closing
                                THEN [call[c] EXCEPT !.pc = "failed"] ELSE call[c]]
  /\ UNCHANGED <<raftVars, conns, active, closed>>

CallerStep(c) ==
  Send(c) \/ Answered(c) \/ Redirect(c) \/ Lookup(c) \/ Dial(c) \/ Register(c) \/ Use(c)

CallNext ==
  \/ Decide \/ CloseBegins \/ CloseConns
  \/ \E s \in Addrs \cup {NoServer} : LeaderChanges(s)
  \/ \E c \in Callers : StartCall(c) \/ CallerStep(c) \/ Breaks(c)

\* The goroutines run, and raft decides what it has accepted once it has a leader.
CallFairness ==
  /\ \A c \in Callers : WF_callVars(CallerStep(c))
  /\ WF_callVars(Decide) /\ WF_callVars(CloseConns)
  /\ WF_callVars(leaderAddr = NoServer /\ \E s \in Addrs : LeaderChanges(s))

CallSpec == CallInit /\ [][CallNext]_callVars /\ CallFairness

-----------------------------------------------------------------------------

Ended(c) == call[c].pc \in {"done", "failed"}

\* A connection is open because the client keeps it, because Close is about to close it,
\* or because a goroutine has just dialled it: goroutines that dial the same address at
\* once, or while the client is closed, leave none behind.
NoConnLeaks ==
  /\ \A cn \in dialled : cn \in conns \cup closing \/ call[cn[2]].pc = "register"
  /\ conns \subseteq dialled
  /\ \A cn, dn \in conns : Addr(cn) = Addr(dn) => cn = dn

\* "Close releases every connection the Client opened, including connections created by
\* leader redirection": once Close has returned, no server takes another request of this
\* client, whatever its goroutines were doing when it was called.
NothingAfterClose ==
  [][closed /\ closing = {} => \A c \in Callers : call'[c].pc = "wait" => call[c].pc = "wait"]_callVars


\* A call returns, whatever the servers answer: it is redirected finitely often.
CallReturns == \A c \in Callers : (call[c].pc # "idle") ~> Ended(c)
=============================================================================

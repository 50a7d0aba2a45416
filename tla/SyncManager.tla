---------------------------- MODULE SyncManager ----------------------------
(***************************************************************************)
(* How nodes keep one connection to each peer: discovery and peer exchange *)
(* dial, both ends handshake and register, a tie-break closes duplicates,  *)
(* handlers clean up after themselves, and Close waits for all of them.    *)
(* What travels over the connections is the subject of Replication, and    *)
(* how it is queued that of SafeConn.                                      *)
(*                                                                         *)
(* A connection has two ends, `out' at the node that dialed and `in' at    *)
(* the other.  Once one end closes it, or the network breaks it, it is     *)
(* cut, and the other end finds out when it reads.                         *)
(***************************************************************************)
EXTENDS GoMap, Naturals, FiniteSets

CONSTANTS
  Nodes,        \* 1 .. n
  Conns,        \* 1 .. the connections that may exist at a time
  Networks      \* what may happen, of which one is chosen:
                \*   configured   node -> the peers in its PEERS
                \*   closers      the nodes that may be shut down
                \*   peerLimit    number of connections above which PEX is
                \*                ignored (50)
                \*   maxConns     bound on the connections at a time
                \*   maxFaults    bound on broken connections, late answers
                \*                and failed dials
                \*   maxCrashes   bound on the restarts

ASSUME SyncManagerAssumption ==
  /\ Nodes \subseteq Nat /\ IsFiniteSet(Nodes)
  /\ Conns \subseteq Nat
  /\ \A w \in Networks :
        /\ w.configured \in [Nodes -> SUBSET Nodes]
        /\ w.closers \subseteq Nodes
        /\ {w.peerLimit, w.maxConns, w.maxFaults, w.maxCrashes} \subseteq Nat

VARIABLES
  net,          \* the network, chosen once
  conns,        \* node -> peer -> registered connection
  activeDials,  \* node -> peers it is dialing
  uuid,         \* node -> its nodeUUID, the time it started
  closing,      \* node -> "no", "done" once done is closed, "waiting", "closed"
  accepting,    \* node -> the accept loop runs
  link,         \* connection -> its two ends
  pex,          \* peer addresses under way: [via, to, addr]
  faults, crashes

vars == <<net, conns, activeDials, uuid, closing, accepting, link, pex,
          faults, crashes>>
node == <<net, uuid, closing, accepting, crashes>>

NoLink == [from |-> 0, to |-> 0, out |-> "ended", in |-> "ended",
           fromUUID |-> 0, toUUID |-> 0, replied |-> FALSE, cut |-> FALSE]

Done(n) == closing[n] # "no"

\* What node n's end of a connection is called, its stage, and its peer.
End(n, c) == IF link[c].from = n THEN "out" ELSE "in"
Stage(n, c) == link[c][End(n, c)]
Peer(n, c) == IF link[c].from = n THEN link[c].to ELSE link[c].from
IsOutgoing(n, c) == link[c].from = n
PeerUUID(n, c) == IF IsOutgoing(n, c) THEN link[c].toUUID ELSE link[c].fromUUID

\* The links after some ends change; a connection both ends of which have
\* ended is gone, and so is what was under way on a cut one.
Settle(l) ==
  /\ link' = [c \in Conns |->
       IF l[c].out = "ended" /\ l[c].in = "ended" THEN NoLink ELSE l[c]]
  /\ pex' = {m \in pex : ~l[m.via].cut}

\* The handler of n's end of c returns, which closes the connection.
Returned(n, c, l) ==
  [l EXCEPT ![c] = [@ EXCEPT ![End(n, c)] = "ended", !.cut = TRUE]]

-----------------------------------------------------------------------------
(* tryConnect *)

Unused == {c \in Conns : c <= net.maxConns /\ link[c] = NoLink}

\* The peer is neither connected nor being dialed: a goroutine dials it.
Dial(n, p) ==
  /\ ~Done(n)
  /\ p \notin DOMAIN conns[n]
  /\ p \notin activeDials[n]
  /\ \E c \in Unused :
        /\ \A d \in Unused : c <= d
        /\ link' = [link EXCEPT ![c] = [NoLink EXCEPT
                      !.from = n, !.to = p, !.out = "dialing", !.fromUUID = uuid[n]]]
  /\ activeDials' = [activeDials EXCEPT ![n] = @ \cup {p}]

\* The dial goroutine ends without a connection: the peer does not answer, or
\* done is closed.
DialFails(c) ==
  LET l == link[c]
  IN  /\ l.out = "dialing"
      /\ \/ (Done(l.from) \/ ~accepting[l.to]) /\ UNCHANGED faults
         \/ faults < net.maxFaults /\ faults' = faults + 1
      /\ activeDials' = [activeDials EXCEPT ![l.from] = @ \ {l.to}]
      /\ link' = [link EXCEPT ![c] = NoLink]
      /\ UNCHANGED <<conns, pex, node>>

\* It connects, sends its handshake, starts the handler and ends.
DialConnects(c) ==
  LET l == link[c]
  IN  /\ l.out = "dialing"
      /\ ~Done(l.from) /\ accepting[l.to]
      /\ activeDials' = [activeDials EXCEPT ![l.from] = @ \ {l.to}]
      /\ link' = [link EXCEPT ![c].out = "reading", ![c].in = "backlog"]
      /\ UNCHANGED <<conns, pex, node, faults>>

-----------------------------------------------------------------------------
(* The accept loop *)

Accept(c) ==
  /\ link[c].in = "backlog"
  /\ accepting[link[c].to]
  /\ link' = [link EXCEPT ![c].in = "reading"]
  /\ UNCHANGED <<conns, activeDials, pex, node, faults>>

\* The listener is closed once done is: the loop ends, and what it has not
\* accepted is reset.
AcceptEnds(n) ==
  /\ accepting[n] /\ Done(n)
  /\ accepting' = [accepting EXCEPT ![n] = FALSE]
  /\ Settle([c \in Conns |->
       IF link[c].to = n /\ link[c].in = "backlog"
       THEN [link[c] EXCEPT !.in = "ended", !.cut = TRUE] ELSE link[c]])
  /\ UNCHANGED <<net, conns, activeDials, uuid, closing, faults, crashes>>

-----------------------------------------------------------------------------
(* handleConnection *)

\* The incoming end reads the handshake and queues its own, also when the
\* connection was cut after the handshake arrived.
Reply(c) ==
  /\ link[c].in = "reading"
  /\ link' = [link EXCEPT ![c].in = "replied", ![c].replied = ~link[c].cut,
                          ![c].toUUID = uuid[link[c].to]]
  /\ UNCHANGED <<conns, activeDials, pex, node, faults>>

\* An end is given up during the handshake: the connection is cut, or the
\* peer is too slow or not acceptable (its token, its pool network).
HandshakeFails(n, c) ==
  /\ Stage(n, c) = "reading"
  /\ \/ link[c].cut /\ UNCHANGED faults
     \/ faults < net.maxFaults /\ faults' = faults + 1
  /\ Settle(Returned(n, c, link))
  /\ UNCHANGED <<conns, activeDials, node>>

\* Mutant of ShouldKeepNewConnection: every node prefers its own connection.
ShouldKeepOutgoing(n, old, new) ==
  \/ PeerUUID(n, new) # PeerUUID(n, old)
  \/ IsOutgoing(n, new) = IsOutgoing(n, old)
  \/ IsOutgoing(n, new)

\* The connection that the node with the smaller UUID has dialed wins.  Two
\* nodes with the same UUID never get here.
ShouldKeepNewConnection(n, old, new) ==
  \/ PeerUUID(n, new) # PeerUUID(n, old)
  \/ IsOutgoing(n, new) = IsOutgoing(n, old)
  \/ IsOutgoing(n, new) /\ uuid[n] < PeerUUID(n, new)
  \/ ~IsOutgoing(n, new) /\ uuid[n] > PeerUUID(n, new)

\* The handshake of the peer is there: at the outgoing end the reply, at the
\* incoming end what Reply has read.
HandshakeRead(n, c) ==
  IF IsOutgoing(n, c) THEN link[c].out = "reading" /\ link[c].replied
                      ELSE link[c].in = "replied"

\* Under the lock, an end registers its connection and closes the one it
\* replaces, or yields to it.
Register(n, c) ==
  LET p == Peer(n, c)
      old == Lookup(conns[n], p) \ {c}
  IN  /\ HandshakeRead(n, c)
      /\ IF Done(n) \/ \E o \in old : ~ShouldKeepNewConnection(n, o, c)
         THEN /\ Settle(Returned(n, c, link))
              /\ UNCHANGED <<conns, activeDials>>
         ELSE /\ conns' = [conns EXCEPT ![n] = Put(@, p, c)]
              /\ Settle([d \in Conns |->
                   IF d = c THEN [link[d] EXCEPT ![End(n, c)] = "registered"]
                   ELSE IF d \in old THEN [link[d] EXCEPT !.cut = TRUE] ELSE link[d]])
              /\ activeDials' = IF IsOutgoing(n, c)
                                THEN [activeDials EXCEPT ![n] = @ \ {p}] ELSE activeDials
      /\ UNCHANGED <<node, faults>>

\* The addresses of the other peers are sent to the new one, and its address
\* to them.
Greet(n, c) ==
  LET p == Peer(n, c)
      others == DOMAIN conns[n] \ {p}
  IN  /\ Stage(n, c) = "registered"
      /\ link' = [link EXCEPT ![c] = [@ EXCEPT ![End(n, c)] = "serving"]]
      /\ pex' = pex \cup
           {m \in {[via |-> c, to |-> p, addr |-> q] : q \in others} \cup
                  {[via |-> conns[n][q], to |-> q, addr |-> p] : q \in others} :
              ~link[m.via].cut}
      /\ UNCHANGED <<conns, activeDials, node, faults>>

\* The read loop takes an address: it is dialed unless it is known or the
\* node has enough peers.
PexReceived(m) ==
  LET n == m.to
  IN  /\ Stage(n, m.via) = "serving"
      /\ pex' = pex \ {m}
      /\ \/ /\ Cardinality(DOMAIN conns[n]) < net.peerLimit
            /\ Dial(n, m.addr)
         \/ /\ \/ Cardinality(DOMAIN conns[n]) >= net.peerLimit
               \/ Done(n)
               \/ m.addr \in DOMAIN conns[n] \cup activeDials[n]
            /\ UNCHANGED <<link, activeDials>>
      /\ UNCHANGED <<conns, node, faults>>

\* Mutant of ReadFails: whatever is registered for the peer is removed.
ReadFailsForgets(n, c) ==
  LET p == Peer(n, c)
  IN  /\ Stage(n, c) = "serving"
      /\ link[c].cut
      /\ conns' = [conns EXCEPT ![n] = Delete(@, {p})]
      /\ Settle(Returned(n, c, link))
      /\ UNCHANGED <<activeDials, node, faults>>

\* The read loop finds the connection cut, and cleans up.
ReadFails(n, c) ==
  LET p == Peer(n, c)
  IN  /\ Stage(n, c) = "serving"
      /\ link[c].cut
      /\ conns' = [conns EXCEPT ![n] = IF c \in Lookup(@, p) THEN Delete(@, {p}) ELSE @]
      /\ Settle(Returned(n, c, link))
      /\ UNCHANGED <<activeDials, node, faults>>

\* The network breaks a connection, a peer is silent for too long or speaks
\* another protocol, or a full write queue makes a node close it.
Break(c) ==
  /\ link[c].out \in {"reading", "registered", "serving"}
  /\ ~link[c].cut
  /\ faults < net.maxFaults
  /\ faults' = faults + 1
  /\ Settle([link EXCEPT ![c].cut = TRUE])
  /\ UNCHANGED <<conns, activeDials, node>>

-----------------------------------------------------------------------------
(* Discovery, shutdown, and restart *)

\* Discovery dials a configured peer.  Its period of 30 s is longer than a
\* dial and a handshake, which end after 3 s and 5 s.
Discover(n, p) ==
  /\ p \in net.configured[n]
  /\ \A c \in Conns : ~ (link[c].from = n /\ link[c].to = p /\ link[c].out = "reading")
  /\ Dial(n, p)
  /\ UNCHANGED <<conns, pex, node, faults>>

\* Close: done is closed ...
CloseDone(n) ==
  /\ n \in net.closers
  /\ closing[n] = "no"
  /\ closing' = [closing EXCEPT ![n] = "done"]
  /\ UNCHANGED <<net, conns, activeDials, uuid, accepting, link, pex, faults, crashes>>

\* Mutant of CloseConns: the connections stay open.
CloseConnsNot(n) ==
  /\ closing[n] = "done"
  /\ closing' = [closing EXCEPT ![n] = "waiting"]
  /\ UNCHANGED <<net, conns, activeDials, uuid, accepting, link, pex, faults, crashes>>

\* ... then the registered connections, under the lock ...
CloseConns(n) ==
  /\ closing[n] = "done"
  /\ closing' = [closing EXCEPT ![n] = "waiting"]
  /\ Settle([c \in Conns |->
       IF \E p \in DOMAIN conns[n] : conns[n][p] = c
       THEN [link[c] EXCEPT !.cut = TRUE] ELSE link[c]])
  /\ UNCHANGED <<net, conns, activeDials, uuid, accepting, faults, crashes>>

\* The goroutines of n that dial and that handle a connection.
Dialing(n) == {c \in Conns : link[c].from = n /\ link[c].out = "dialing"}
Handling(n) ==
  {c \in Conns : n \in {link[c].from, link[c].to} /\
                 Stage(n, c) \in {"reading", "replied", "registered", "serving"}}

\* Mutant of CloseReturns: the handlers are waited for first.
CloseReturnsEarly(n) ==
  /\ closing[n] = "waiting"
  /\ Handling(n) = {}
  /\ closing' = [closing EXCEPT ![n] = "closed"]
  /\ UNCHANGED <<net, conns, activeDials, uuid, accepting, link, pex, faults, crashes>>

\* ... and acceptWg, dialWg and handlersWg are waited for.
CloseReturns(n) ==
  /\ closing[n] = "waiting"
  /\ ~accepting[n]
  /\ Dialing(n) = {}
  /\ Handling(n) = {}
  /\ closing' = [closing EXCEPT ![n] = "closed"]
  /\ UNCHANGED <<net, conns, activeDials, uuid, accepting, link, pex, faults, crashes>>

\* The process ends and starts again, with a later UUID; its connections are
\* reset.
Crash(n) ==
  /\ crashes < net.maxCrashes
  /\ ~Done(n)
  /\ crashes' = crashes + 1
  /\ uuid' = [uuid EXCEPT ![n] = Cardinality(Nodes) + crashes + 1]
  /\ conns' = [conns EXCEPT ![n] = EmptyMap]
  /\ activeDials' = [activeDials EXCEPT ![n] = {}]
  /\ Settle([c \in Conns |->
       IF link[c].from = n
       THEN [link[c] EXCEPT !.out = "ended", !.cut = TRUE,
                            !.in = IF @ = "backlog" THEN "ended" ELSE @]
       ELSE IF link[c].to = n /\ link[c].out # "dialing"
       THEN [link[c] EXCEPT !.in = "ended", !.cut = TRUE]
       ELSE link[c]])
  /\ UNCHANGED <<net, closing, accepting, faults>>

-----------------------------------------------------------------------------

Init ==
  /\ net \in Networks
  /\ conns = [n \in Nodes |-> EmptyMap]
  /\ activeDials = [n \in Nodes |-> {}]
  /\ uuid = [n \in Nodes |-> n]
  /\ closing = [n \in Nodes |-> "no"]
  /\ accepting = [n \in Nodes |-> TRUE]
  /\ link = [c \in Conns |-> NoLink]
  /\ pex = {} /\ faults = 0 /\ crashes = 0

\* What an end of a connection does next.
Handle(n, c) ==
  /\ n \in {link[c].from, link[c].to}
  /\ HandshakeFails(n, c) \/ Register(n, c) \/ Greet(n, c) \/ ReadFails(n, c)

Next ==
  \/ \E n, p \in Nodes : n # p /\ Discover(n, p)
  \/ \E c \in Conns :
        \/ DialFails(c) \/ DialConnects(c) \/ Accept(c) \/ Reply(c) \/ Break(c)
        \/ \E n \in Nodes : Handle(n, c)
  \/ \E m \in pex : PexReceived(m)
  \/ \E n \in Nodes :
        AcceptEnds(n) \/ CloseDone(n) \/ CloseConns(n) \/ CloseReturns(n) \/ Crash(n)

Spec == Init /\ [][Next]_vars

\* Goroutines that can run do: dials and reads have deadlines, discovery is
\* periodic, and Close is called by the main goroutine.  Faults and crashes
\* are not forced.
Fairness ==
  /\ \A n \in Nodes : WF_vars(\E p \in Nodes \ {n} : Discover(n, p))
  /\ \A c \in Conns :
        /\ WF_vars(DialConnects(c) \/ DialFails(c) \/ Accept(c) \/ Reply(c))
        /\ WF_vars(Handle(link[c].from, c))
        /\ WF_vars(Handle(link[c].to, c))
  /\ WF_vars(\E m \in pex : PexReceived(m))
  /\ \A n \in Nodes : WF_vars(AcceptEnds(n) \/ CloseConns(n) \/ CloseReturns(n))

FairSpec == Spec /\ Fairness

-----------------------------------------------------------------------------
(* Properties *)

\* Every registered connection exists and is one to that peer, and the ends
\* are at stages of their own.
TypeOK ==
  /\ \A c \in Conns :
        /\ link[c].out \in {"dialing", "reading", "registered", "serving", "ended"}
        /\ link[c].in \in {"backlog", "reading", "replied", "registered", "serving", "ended"}
  /\ \A n \in Nodes :
        /\ activeDials[n] \subseteq Nodes \ {n}
        /\ \A p \in DOMAIN conns[n] : Peer(n, conns[n][p]) = p
  /\ \A m \in pex : m.addr # m.to

Between(a, b) == {c \in Conns : {link[c].from, link[c].to} = {a, b}}

\* Nothing is going on between two nodes.
Quiet(a, b) ==
  \A c \in Between(a, b) :
     link[c].out = "serving" /\ link[c].in = "serving" /\ ~link[c].cut

\* When nothing is going on between two nodes, both have registered the same
\* connection and have no other, or neither has registered any: no end is
\* left behind by tie-breaks that ran at the same time, by the cleanup of a
\* connection that was replaced, or by a restart (handleConnection).
AgreeAtRest ==
  /\ TypeOK
  /\ \A a, b \in Nodes : a # b /\ Quiet(a, b) =>
        /\ Lookup(conns[a], b) = Between(a, b)
        /\ Cardinality(Between(a, b)) <= 1

\* Once Close has returned, the node is silent: it has no connection, no
\* handler and no dial, and none starts (the order of the three Waits, and
\* the looks at done under the lock).
ClosedIsSilent ==
  \A n \in Nodes : closing[n] = "closed" =>
     conns[n] = EmptyMap /\ Dialing(n) = {} /\ Handling(n) = {}

\* Close returns, whatever was going on when it was called: in the end, every
\* node that is being shut down has been.
CloseTerminates == <>[](\A n \in Nodes : Done(n) => closing[n] = "closed")

\* Two nodes that are configured with each other end up connected and stay
\* so once failures stop, whatever duplicates, tie-breaks and restarts there
\* were, unless one of them is shut down (startPeerDiscovery).
Reconnects ==
  <>[](\A a, b \in Nodes :
         b \in net.configured[a] /\ a \in net.configured[b] /\ ~Done(a) /\ ~Done(b) =>
            Lookup(conns[a], b) = Lookup(conns[b], a) /\ Lookup(conns[a], b) # {})

=============================================================================

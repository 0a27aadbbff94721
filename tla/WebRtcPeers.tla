---------------------------- MODULE WebRtcPeers ----------------------------
(***************************************************************************)
(* Two WebRtcConnection groups that find each other over a signaler and    *)
(* negotiate a peer-to-peer link: hello, role, offer, answer, candidates,  *)
(* the loss of a link and the replacement of the child that held it.       *)
(*                                                                         *)
(* A child is the WebRtcConnection::Impl a group keeps for one remote, and *)
(* a peer connection is named <<child, number>>.  libdatachannel, the      *)
(* network and the signaler are external: a peer connection opens when     *)
(* both ends hold each other's description and one holds a candidate of    *)
(* the other, and what is published to a group that has subscribed arrives,*)
(* in the order it was published.                                          *)
(* One thread hands a group its signals: the child is looked up or made    *)
(* under the group's mutex; that the child starts and handles the signal,  *)
(* and that the one it replaces is disconnected, are steps without it.     *)
(* The hello loop and scheduleReconnect() of a child never run: a group    *)
(* makes its children with reconnect = false.                              *)
(***************************************************************************)
EXTENDS Naturals, Sequences

CONSTANTS
  Peers,            \* the two groups
  Caller,           \* the one whose peerId compares greater: it offers
  JoinModes,        \* may the relay announce joins, as an HttpSignaler's does?
  Reconnect,        \* options.reconnect
  FirstToNotice,    \* the ends that may be the first to see a link fail
  EarlyLoss,        \* may a link fail before both ends have seen it up?
  MaxLinkLosses,    \* bound: links that fail
  MaxChildren,      \* bound: children a group makes
  MaxQueue          \* bound: signals under way before another periodic hello

ASSUME PeersAssumption ==
  /\ Caller \in Peers
  /\ \E q \in Peers : q # Caller /\ Peers = {Caller, q}
ASSUME ModeAssumption == JoinModes \subseteq BOOLEAN /\ Reconnect \in BOOLEAN
ASSUME BoundsAssumption ==
  MaxLinkLosses \in Nat /\ MaxChildren \in Nat /\ MaxQueue \in Nat \ {0}

VARIABLES
  joinMode,      \* supportsJoinAnnouncements()
  started,       \* groups that have subscribed to the signaler
  child,         \* the children for the remote, by where they are
  hand,          \* the signal it has a child for
  opening,       \* peer connections whose channel has opened, not yet marked
  everReady,     \* everReadyPeers
  everConnected, \* everConnected
  restartId,     \* restartIds
  restarts,      \* restart ids a group has made, children it has made
  made,
  net,           \* signals on their way to each group
  linkLosses     \* links that have failed

childVars == <<child, hand, opening, made>>
groupVars == <<started, everReady, everConnected, restartId, restarts>>
faultVars == <<joinMode, linkLosses>>
vars == <<childVars, groupVars, faultVars, net>>

Other(p) == CHOOSE q \in Peers : q # p

None == <<0, 0>>

\* Where a child is: in the map peers, oldChild of onSignal(), or taken out of
\* the map by the discovery thread.
Slots == {"peers", "old", "stale"}

\* link: the channel of its present peer connection.  closing: that of the peer
\* connection before has yet to be reported closed.
NoChild ==
  [id |-> 0, decided |-> FALSE, pc |-> 0, local |-> "none", gathered |-> FALSE,
   remote |-> None, haveRemote |-> FALSE, queued |-> {}, ice |-> FALSE,
   connected |-> FALSE, link |-> "none", closing |-> FALSE]

Mine(p) == child[p]["peers"]

Present(c) == c.id # 0

PcOf(c) == <<c.id, c.pc>>

Signal(type, pc, restart) == [type |-> type, pc |-> pc, restart |-> restart]

Hello == Signal("hello", None, 0)

\* for: the id of the child; new: it has yet to start.
Hand(m, c, new) == [signal |-> m, for |-> c, new |-> new]

Nothing == Hand(Hello, 0, FALSE)

Init ==
  /\ joinMode \in JoinModes
  /\ started = {}
  /\ child = [p \in Peers |-> [s \in Slots |-> NoChild]]
  /\ hand = [p \in Peers |-> Nothing] /\ opening = [p \in Peers |-> {}]
  /\ everReady = [p \in Peers |-> FALSE] /\ everConnected = everReady
  /\ restartId = [p \in Peers |-> 0] /\ restarts = restartId /\ made = restartId
  /\ net = [p \in Peers |-> <<>>]
  /\ linkLosses = 0

\* A signal reaches only a group that has subscribed.
Sent(n, p, signals) ==
  IF Other(p) \in started THEN [n EXCEPT ![Other(p)] = @ \o signals] ELSE n

(***************************************************************************)
(* A child's handling of one signal: what becomes of it, what it sends     *)
(***************************************************************************)

Outcome(c, signals) == [child |-> c, sends |-> signals]

\* setupPeerConnection(): any peer connection there was is gone, but connected
\* stays until its closing is reported.
FreshPc(c) ==
  [c EXCEPT !.pc = @ + 1, !.local = "none", !.gathered = FALSE,
            !.remote = None, !.ice = FALSE, !.link = "none",
            !.closing = @ \/ c.link = "open"]

\* setRemoteDescription(), the flag, and the candidates that waited for it.
WithRemote(c, pc) ==
  [c EXCEPT !.remote = pc, !.haveRemote = TRUE, !.ice = pc \in c.queued, !.queued = {}]

\* Mutant of OnHello: the role is decided anew at every hello.
OnHelloAnew(p, c) ==
  IF p = Caller
    THEN LET d == [FreshPc(c) EXCEPT !.local = "offer", !.decided = TRUE]
         IN  {Outcome(d, <<Signal("offer", PcOf(d), 0)>>)}
    ELSE {Outcome([FreshPc(c) EXCEPT !.decided = TRUE], <<Hello>>)}

OnHello(p, c) ==
  CASE c.decided -> {Outcome(c, <<>>)}
    [] ~c.decided /\ p = Caller ->
         LET d == [FreshPc(c) EXCEPT !.local = "offer", !.decided = TRUE]
         IN  {Outcome(d, <<Signal("offer", PcOf(d), 0)>>)}
    [] OTHER -> {Outcome([FreshPc(c) EXCEPT !.decided = TRUE], <<Hello>>)}

\* A peer connection that has a remote description may take or refuse a new
\* one, and one that has offered refuses an offer: caught and logged.
OnOffer(c, pc) ==
  LET d == IF c.pc = 0 THEN FreshPc(c) ELSE c
      answered == [WithRemote(d, pc) EXCEPT !.local = "answer", !.gathered = FALSE]
      taken == Outcome(answered, <<Signal("answer", PcOf(d), 0)>>)
      refused == Outcome(d, <<>>)
  IN  CASE c.connected -> {Outcome(c, <<>>)}
        [] ~c.connected /\ d.local = "none" -> {taken}
        [] ~c.connected /\ d.local = "answer" -> {taken, refused}
        [] OTHER -> {refused}

\* Nothing in an answer names the offer it answers.
OnAnswer(c, pc) ==
  IF ~c.connected /\ c.local = "offer" /\ c.remote = None
    THEN {Outcome(WithRemote(c, pc), <<>>)}
    ELSE {Outcome(c, <<>>)}

OnCandidate(c, pc) ==
  IF c.haveRemote /\ c.pc # 0
    THEN {Outcome([c EXCEPT !.ice = @ \/ c.remote = pc], <<>>)}
    ELSE {Outcome([c EXCEPT !.queued = @ \cup {pc}], <<>>)}

Handled(p, c, m) ==
  CASE m.type = "hello" -> OnHello(p, c)
    [] m.type = "offer" -> OnOffer(c, m.pc)
    [] m.type = "answer" -> OnAnswer(c, m.pc)
    [] m.type = "candidate" -> OnCandidate(c, m.pc)

(***************************************************************************)
(* The group                                                               *)
(***************************************************************************)

\* start().  A relay that announces joins tells each peer of the other.
Start(p) ==
  /\ p \notin started
  /\ started' = started \cup {p}
  /\ net' = IF joinMode /\ Other(p) \in started
              THEN [q \in Peers |-> Append(net[q], Hello)] ELSE net
  /\ UNCHANGED <<childVars, everReady, everConnected, restartId, restarts, faultVars>>

IsRestart(p, m) == m.restart # 0 /\ m.restart # restartId[p]

\* Mutant of Replaces: a child that has never been ready is replaced as well.
ReplacesUnready(p, m) ==
  /\ Present(Mine(p)) /\ m.type = "hello"
  /\ IsRestart(p, m) \/ ~Mine(p).connected

\* A hello replaces the child when its link was up and is down, or at once if
\* it carries a new restart id.
Replaces(p, m) ==
  /\ Present(Mine(p)) /\ m.type = "hello"
  /\ IsRestart(p, m) \/ (everReady[p] /\ ~Mine(p).connected)

\* Mutant of MarkAfter: the mark of the replaced child is kept.
MarkKept(p, m) == everReady[p]

MarkAfter(p, m) == everReady[p] /\ ~Replaces(p, m)

\* onSignal(): replace or create the child.  Any signal from an unknown remote
\* makes one.
OnSignal(p) ==
  /\ net[p] # <<>> /\ hand[p] = Nothing /\ ~Present(child[p]["old"])
  /\ LET m == Head(net[p])
         create == Replaces(p, m) \/ ~Present(Mine(p))
         fresh == [NoChild EXCEPT !.id = made[p] + 1]
     IN /\ create => made[p] < MaxChildren
        /\ child' = [child EXCEPT ![p]["old"] = IF Replaces(p, m) THEN Mine(p) ELSE @,
                                  ![p]["peers"] = IF create THEN fresh ELSE @]
        /\ hand' = [hand EXCEPT ![p] = Hand(m, IF create THEN fresh.id ELSE Mine(p).id, create)]
        /\ everReady' = [everReady EXCEPT ![p] = MarkAfter(p, m)]
        /\ made' = IF create THEN [made EXCEPT ![p] = @ + 1] ELSE made
        /\ restartId' = [restartId EXCEPT ![p] = IF IsRestart(p, m) THEN m.restart ELSE @]
  /\ net' = [net EXCEPT ![p] = Tail(@)]
  /\ UNCHANGED <<opening, started, everConnected, restarts, faultVars>>

\* A new child says hello, the child handles the signal; one that has been
\* disconnected meanwhile does nothing.
Deliver(p) ==
  /\ hand[p] # Nothing
  /\ LET h == hand[p]
         greeting == IF h.new THEN <<Hello>> ELSE <<>>
     IN \/ \E s \in Slots :
             /\ child[p][s].id = h.for
             /\ \E r \in Handled(p, child[p][s], h.signal) :
                  /\ child' = [child EXCEPT ![p][s] = r.child]
                  /\ net' = Sent(net, p, greeting \o r.sends)
        \/ /\ \A s \in Slots : child[p][s].id # h.for
           /\ net' = Sent(net, p, greeting)
           /\ UNCHANGED child
  /\ hand' = [hand EXCEPT ![p] = Nothing]
  /\ UNCHANGED <<opening, made, groupVars, faultVars>>

DisconnectOld(p) ==
  /\ hand[p] = Nothing /\ Present(child[p]["old"])
  /\ child' = [child EXCEPT ![p]["old"] = NoChild]
  /\ UNCHANGED <<hand, opening, made, groupVars, faultVars, net>>

(***************************************************************************)
(* The discovery thread                                                    *)
(***************************************************************************)

\* Mutant of SendHello: a group that was connected once is silent.
SendHelloUntilReady(p) ==
  /\ p \in started
  /\ ~joinMode /\ ~everConnected[p]
  /\ Len(net[Other(p)]) < MaxQueue
  /\ net' = Sent(net, p, <<Hello>>)
  /\ UNCHANGED <<childVars, groupVars, faultVars>>

SendHello(p) ==
  /\ p \in started
  /\ ~joinMode /\ (~everConnected[p] \/ Reconnect)
  /\ Len(net[Other(p)]) < MaxQueue
  /\ net' = Sent(net, p, <<Hello>>)
  /\ UNCHANGED <<childVars, groupVars, faultVars>>

\* A child whose link was up and is down is taken out of the map ...
Reap(p) ==
  /\ p \in started
  /\ Present(Mine(p)) /\ everReady[p] /\ ~Mine(p).connected
  /\ ~Present(child[p]["stale"])
  /\ child' = [child EXCEPT ![p]["stale"] = Mine(p), ![p]["peers"] = NoChild]
  /\ everReady' = [everReady EXCEPT ![p] = FALSE]
  /\ UNCHANGED <<hand, opening, made, started, everConnected, restartId, restarts, faultVars, net>>

\* ... disconnected, and the remote told to start afresh.
DisconnectStale(p) ==
  /\ Present(child[p]["stale"])
  /\ child' = [child EXCEPT ![p]["stale"] = NoChild]
  /\ IF joinMode /\ Reconnect
       THEN /\ restarts' = [restarts EXCEPT ![p] = @ + 1]
            /\ net' = Sent(net, p, <<Signal("hello", None, restarts[p] + 1)>>)
       ELSE UNCHANGED <<restarts, net>>
  /\ UNCHANGED <<hand, opening, made, started, everReady, everConnected, restartId, faultVars>>

(***************************************************************************)
(* The peer connections and the network                                    *)
(***************************************************************************)

\* The two ends of one link.
Paired(c, d) == Present(c) /\ Present(d) /\ c.remote = PcOf(d) /\ d.remote = PcOf(c)

BothUp == \A p \in Peers : Mine(p).connected

LiveAt(p) == {c \in {child[p][s] : s \in Slots} : Present(c) /\ c.link # "lost"}

Reachable(p, c) ==
  \E d \in LiveAt(Other(p)) : Paired(c, d) /\ (c.ice \/ d.ice)

Gather(p, s) ==
  LET c == child[p][s]
  IN  /\ c.local # "none" /\ ~c.gathered
      /\ child' = [child EXCEPT ![p][s].gathered = TRUE]
      /\ net' = Sent(net, p, <<Signal("candidate", PcOf(c), 0)>>)
      /\ UNCHANGED <<hand, opening, made, groupVars, faultVars>>

\* The data channel opens ...
Open(p, s) ==
  LET c == child[p][s]
  IN  /\ c.link = "none" /\ Reachable(p, c)
      /\ child' = [child EXCEPT ![p][s].link = "open", ![p][s].connected = TRUE]
      /\ opening' = [opening EXCEPT ![p] = @ \cup {PcOf(c)}]
      /\ UNCHANGED <<hand, made, groupVars, faultVars, net>>

\* ... and onStateChange(true) marks the remote, whatever child it has by now.
Mark(p) ==
  /\ \E n \in opening[p] : opening' = [opening EXCEPT ![p] = @ \ {n}]
  /\ everReady' = [everReady EXCEPT ![p] = TRUE]
  /\ everConnected' = [everConnected EXCEPT ![p] = TRUE]
  /\ UNCHANGED <<child, hand, made, started, restartId, restarts, faultVars, net>>

\* A channel is reported closed, after what else it has reported: the one that
\* was replaced, or else the present one.
Report(p, s) ==
  LET c == child[p][s]
      down == [c EXCEPT !.connected = FALSE]
  IN  /\ child' = [child EXCEPT ![p][s] =
                     IF c.closing THEN [down EXCEPT !.closing = FALSE]
                                  ELSE [down EXCEPT !.link = "lost"]]
      /\ \A n \in opening[p] : n[1] = c.id => c.closing /\ n[2] = c.pc
      /\ UNCHANGED <<hand, opening, made, groupVars, joinMode, net>>

\* One end sees the link fail; the other end sees it when it does.
Lose(p) ==
  /\ p \in FirstToNotice /\ (EarlyLoss \/ BothUp)
  /\ Mine(p).link = "open" /\ ~Mine(p).closing
  /\ linkLosses < MaxLinkLosses
  /\ linkLosses' = linkLosses + 1
  /\ Report(p, "peers")

Notice(p, s) ==
  /\ \/ child[p][s].closing
     \/ child[p][s].link = "open" /\ ~Reachable(p, child[p][s])
  /\ Report(p, s)
  /\ UNCHANGED linkLosses

(***************************************************************************)
(* Specification                                                           *)
(***************************************************************************)

Next ==
  \E p \in Peers :
    \/ Start(p) \/ OnSignal(p) \/ Deliver(p) \/ DisconnectOld(p)
    \/ SendHello(p) \/ Reap(p) \/ DisconnectStale(p)
    \/ \E s \in Slots : Gather(p, s) \/ Open(p, s) \/ Notice(p, s)
    \/ Mark(p) \/ Lose(p)

Spec == Init /\ [][Next]_vars

SignalThread(p) == OnSignal(p) \/ Deliver(p) \/ DisconnectOld(p)
Reports(p) == Open(p, "peers") \/ Mark(p) \/ Notice(p, "peers")

\* The applications start, the threads run, and the network lets two peer
\* connections that can reach each other connect.
Fairness ==
  \A p \in Peers :
    /\ WF_vars(Start(p)) /\ WF_vars(SignalThread(p))
    /\ WF_vars(SendHello(p)) /\ WF_vars(Reap(p)) /\ WF_vars(DisconnectStale(p))
    /\ WF_vars(Gather(p, "peers")) /\ WF_vars(Reports(p))

FairSpec == Spec /\ Fairness

(***************************************************************************)
(* Properties                                                              *)
(***************************************************************************)

Orderly == ~joinMode

\* remoteDescSet tells the truth: a candidate is handed to the peer connection
\* only when that one, and not one it replaced, has the remote description.
\* (Not so when the caller is the first to see a link fail: its offer may then
\* make a child that the hello after it gives another peer connection.)
RemoteDescIsReal ==
  Orderly => \A p \in Peers : Mine(p).haveRemote => Mine(p).remote # None

\* A child is taken for one whose link was up only if it was up: the mark in
\* everReadyPeers is by remote and outlives the child that earned it. (Not so
\* in the same case, where the child outlives the link that earned it.)
ReadyIsOfThisChild ==
  Orderly => \A p \in Peers : everReady[p] /\ Present(Mine(p)) => Mine(p).link # "none"

\* In whatever order the two start, they get connected.
PeersConnect == [](linkLosses = 0) => <>BothUp

\* The two are connected again and again, though links fail: the option is to
\* "automatically re-establish the peer connection when it drops".
Reconnects == []Orderly => []<>BothUp
=============================================================================

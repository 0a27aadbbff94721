------------------------- MODULE WebRtcPeersProofs -------------------------
(***************************************************************************)
(* Theorems about two groups that negotiate, for any number of children    *)
(* and link failures, whoever sees a link fail first, and signal queues of *)
(* any length.                                                             *)
(***************************************************************************)
EXTENDS WebRtcPeers, TLAPS

\* There are two peers, each the other of the other.
LEMMA TwoPeers ==
  ASSUME NEW p \in Peers
  PROVE  Other(p) \in Peers /\ Other(p) # p /\ Peers = {p, Other(p)}
<1>1. PICK q \in Peers : q # Caller /\ Peers = {Caller, q}
  BY PeersAssumption
<1>2. \E o \in Peers : o # p
  BY <1>1, PeersAssumption
<1>3. Other(p) \in Peers /\ Other(p) # p
  BY <1>2 DEF Other
<1>4. QED
  BY <1>1, <1>3

-----------------------------------------------------------------------------
(* Types.                                                                  *)

PcName == Nat \X Nat

ChildType ==
  [id : Nat, decided : BOOLEAN, pc : Nat, local : {"none", "offer", "answer"},
   gathered : BOOLEAN, remote : PcName, haveRemote : BOOLEAN,
   queued : SUBSET PcName, ice : BOOLEAN, connected : BOOLEAN,
   link : {"none", "open", "lost"}, closing : BOOLEAN]

SignalType ==
  [type : {"hello", "offer", "answer", "candidate"}, pc : PcName, restart : Nat]

HandType == [signal : SignalType, for : Nat, new : BOOLEAN]

Types ==
  /\ joinMode \in BOOLEAN /\ started \in SUBSET Peers
  /\ child \in [Peers -> [Slots -> ChildType]]
  /\ hand \in [Peers -> HandType] /\ opening \in [Peers -> SUBSET PcName]
  /\ everReady \in [Peers -> BOOLEAN] /\ everConnected \in [Peers -> BOOLEAN]
  /\ restartId \in [Peers -> Nat] /\ restarts \in [Peers -> Nat]
  /\ made \in [Peers -> Nat]
  /\ net \in [Peers -> Seq(SignalType)]
  /\ linkLosses \in Nat

-----------------------------------------------------------------------------
(* What a child makes of a signal.                                         *)

\* A child with no peer connection has no part of a negotiation.
Blank(c) == c.pc = 0 => c.link = "none" /\ c.local = "none" /\ c.remote = None

\* One child for another with the same peer connection in the same state, or with
\* a new one.
SamePc(c, d) ==
  d.pc = c.pc /\ d.link = c.link /\ d.connected = c.connected /\ d.closing = c.closing

NextPc(c, d) ==
  /\ d.pc = c.pc + 1 /\ d.link = "none" /\ d.connected = c.connected
  /\ d.closing = (c.closing \/ c.link = "open")

\* d is what becomes of the child c when it handles a signal.
Becomes(c, d) ==
  /\ d \in ChildType /\ d.id = c.id
  /\ SamePc(c, d) \/ NextPc(c, d)
  /\ Blank(c) => Blank(d)

\* No signal of the sequence asks for a restart.
Unrestarted(n) == \A i \in DOMAIN n : n[i].restart = 0

\* No child is a value of the type of children, with no link.
LEMMA NoChildType ==
  /\ NoChild \in ChildType /\ ~Present(NoChild) /\ Blank(NoChild)
  /\ NoChild.link = "none" /\ ~NoChild.connected /\ ~NoChild.closing /\ NoChild.pc = 0
  BY DEF NoChild, ChildType, PcName, None, Present, Blank

\* A hello is a signal, and asks for no restart.
LEMMA HelloType ==
  /\ Hello \in SignalType /\ Hello.restart = 0
  /\ <<Hello>> \in Seq(SignalType) /\ Unrestarted(<<Hello>>)
  /\ Nothing \in HandType /\ Nothing.signal = Hello
  BY DEF Hello, Signal, SignalType, PcName, None, Unrestarted, Nothing, Hand, HandType

\* setupPeerConnection() forgets the negotiation but remoteDescSet, and what
\* the channel that is gone has yet to report remains.
LEMMA FreshPcType ==
  ASSUME NEW c \in ChildType
  PROVE  /\ FreshPc(c) \in ChildType /\ FreshPc(c).id = c.id /\ FreshPc(c).pc # 0
         /\ NextPc(c, FreshPc(c)) /\ FreshPc(c).local = "none"
<1> DEFINE k == c.closing \/ c.link = "open"
<1>1. /\ c.pc + 1 \in Nat /\ c.pc + 1 # 0 /\ None \in PcName
      /\ k \in BOOLEAN
      /\ FreshPc(c) = [c EXCEPT !.pc = @ + 1, !.local = "none", !.gathered = FALSE,
                         !.remote = None, !.ice = FALSE, !.link = "none", !.closing = k]
  BY DEF ChildType, PcName, None, FreshPc
<1> HIDE DEF k
<1>2. FreshPc(c) \in ChildType
  BY <1>1 DEF ChildType
<1>3. /\ FreshPc(c).pc = c.pc + 1 /\ FreshPc(c).link = "none" /\ FreshPc(c).id = c.id
      /\ FreshPc(c).connected = c.connected /\ FreshPc(c).closing = k
      /\ FreshPc(c).local = "none"
  BY <1>1 DEF ChildType
<1>4. QED
  BY <1>1, <1>2, <1>3 DEF NextPc, k

\* setRemoteDescription() changes what the child knows of the remote alone.
LEMMA WithRemoteType ==
  ASSUME NEW c \in ChildType, NEW pc \in PcName
  PROVE  /\ WithRemote(c, pc) \in ChildType /\ WithRemote(c, pc).id = c.id
         /\ SamePc(c, WithRemote(c, pc))
<1> DEFINE iced == pc \in c.queued
<1>1. iced \in BOOLEAN /\ WithRemote(c, pc) = [c EXCEPT !.remote = pc, !.haveRemote = TRUE,
                                                    !.ice = iced, !.queued = {}]
  BY DEF WithRemote
<1> HIDE DEF iced
<1>2. QED
  BY <1>1 DEF ChildType, SamePc

\* What a child says in answer to a signal.
Says(r) ==
  /\ r.sends \in Seq(SignalType)
  /\ Unrestarted(r.sends)

\* The answers there are.
LEMMA SaysSignal ==
  ASSUME NEW c \in ChildType
  PROVE  /\ <<>> \in Seq(SignalType) /\ Unrestarted(<<>>)
         /\ \A x \in {"offer", "answer", "candidate"} :
              /\ Signal(x, PcOf(c), 0) \in SignalType
              /\ <<Signal(x, PcOf(c), 0)>> \in Seq(SignalType)
              /\ Unrestarted(<<Signal(x, PcOf(c), 0)>>)
<1>1. PcOf(c) \in PcName
  BY DEF PcOf, PcName, ChildType
<1>2. ASSUME NEW x \in {"offer", "answer", "candidate"}
      PROVE  Signal(x, PcOf(c), 0) \in SignalType /\ Signal(x, PcOf(c), 0).restart = 0
  BY <1>1 DEF Signal, SignalType
<1>3. QED
  BY <1>2 DEF Unrestarted

\* A hello decides a role once, with a new peer connection.
LEMMA HelloOutcome ==
  ASSUME NEW p \in Peers, NEW c \in ChildType, NEW r \in OnHello(p, c)
  PROVE  Becomes(c, r.child) /\ Says(r)
<1> DEFINE f == FreshPc(c)
           d == [f EXCEPT !.local = "offer", !.decided = TRUE]
           e == [f EXCEPT !.decided = TRUE]
<1>1. f \in ChildType /\ f.id = c.id /\ f.pc # 0 /\ NextPc(c, f)
  BY FreshPcType
<1>2. \/ r = Outcome(c, <<>>)
      \/ r = Outcome(d, <<Signal("offer", PcOf(d), 0)>>)
      \/ r = Outcome(e, <<Hello>>)
  BY DEF OnHello
<1> HIDE DEF f
<1>3. /\ d \in ChildType /\ d.id = c.id /\ d.pc # 0 /\ NextPc(c, d)
      /\ e \in ChildType /\ e.id = c.id /\ e.pc # 0 /\ NextPc(c, e)
  BY <1>1 DEF ChildType, NextPc
<1> HIDE DEF d, e
<1>4. CASE r = Outcome(c, <<>>)
  BY <1>4, SaysSignal DEF Outcome, Becomes, SamePc, Says
<1>5. CASE r = Outcome(d, <<Signal("offer", PcOf(d), 0)>>)
  BY <1>3, <1>5, SaysSignal DEF Outcome, Becomes, Blank, Says
<1>6. CASE r = Outcome(e, <<Hello>>)
  BY <1>3, <1>6, HelloType DEF Outcome, Becomes, Blank, Says
<1>7. QED
  BY <1>2, <1>4, <1>5, <1>6

\* An offer is answered from the peer connection there is or a new one, or it
\* changes nothing but that there is one.
LEMMA OfferOutcome ==
  ASSUME NEW p \in Peers, NEW c \in ChildType, NEW pc \in PcName, NEW r \in OnOffer(c, pc)
  PROVE  Becomes(c, r.child) /\ Says(r)
<1> DEFINE d == IF c.pc = 0 THEN FreshPc(c) ELSE c
           f == WithRemote(d, pc)
           g == [f EXCEPT !.local = "answer", !.gathered = FALSE]
<1>1. d \in ChildType /\ d.id = c.id /\ d.pc # 0 /\ (SamePc(c, d) \/ NextPc(c, d))
  BY FreshPcType DEF SamePc
<1>2. \/ r = Outcome(c, <<>>)
      \/ r = Outcome(d, <<>>)
      \/ r = Outcome(g, <<Signal("answer", PcOf(d), 0)>>)
  BY DEF OnOffer
<1> HIDE DEF d
<1>3. f \in ChildType /\ f.id = d.id /\ SamePc(d, f)
  BY <1>1, WithRemoteType
<1> HIDE DEF f
<1>4. g \in ChildType /\ g.id = d.id /\ SamePc(d, g)
  BY <1>3 DEF ChildType, SamePc
<1> HIDE DEF g
<1>5. CASE r = Outcome(c, <<>>)
  BY <1>5, SaysSignal DEF Outcome, Becomes, SamePc, Says
<1>6. CASE r = Outcome(d, <<>>)
  BY <1>1, <1>6, SaysSignal DEF Outcome, Becomes, Blank, Says
<1>7. CASE r = Outcome(g, <<Signal("answer", PcOf(d), 0)>>)
  <2>1. r.child = g /\ r.sends = <<Signal("answer", PcOf(d), 0)>>
    BY <1>7 DEF Outcome
  <2>2. Says(r)
    BY <1>1, <2>1, SaysSignal DEF Says
  <2>3. g.pc # 0 /\ (SamePc(c, g) \/ NextPc(c, g))
    BY <1>1, <1>4 DEF SamePc, NextPc
  <2>4. QED
    BY <1>1, <1>4, <2>1, <2>2, <2>3 DEF Becomes, Blank
<1>8. QED
  BY <1>2, <1>5, <1>6, <1>7

\* An answer completes a child that has offered and has had none, or it changes
\* nothing.
LEMMA AnswerOutcome ==
  ASSUME NEW p \in Peers, NEW c \in ChildType, NEW pc \in PcName, NEW r \in OnAnswer(c, pc)
  PROVE  Becomes(c, r.child) /\ Says(r)
<1> DEFINE d == WithRemote(c, pc)
<1>1. d \in ChildType /\ d.id = c.id /\ SamePc(c, d)
  BY WithRemoteType
<1>2. \/ r = Outcome(c, <<>>)
      \/ c.local = "offer" /\ r = Outcome(d, <<>>)
  BY DEF OnAnswer
<1> HIDE DEF d
<1>3. CASE r = Outcome(c, <<>>)
  BY <1>3, SaysSignal DEF Outcome, Becomes, SamePc, Says
<1>4. CASE c.local = "offer" /\ r = Outcome(d, <<>>)
  BY <1>1, <1>4, SaysSignal DEF Outcome, Becomes, SamePc, Blank, Says
<1>5. QED
  BY <1>2, <1>3, <1>4

\* A candidate adds to the candidates of a child, and changes nothing else.
LEMMA CandidateOutcome ==
  ASSUME NEW p \in Peers, NEW c \in ChildType, NEW pc \in PcName, NEW r \in OnCandidate(c, pc)
  PROVE  Becomes(c, r.child) /\ Says(r)
<1>1. r.sends = <<>> /\ r.child \in ChildType /\ r.child.id = c.id /\ SamePc(c, r.child)
      /\ r.child.local = c.local /\ r.child.remote = c.remote
  BY DEF OnCandidate, Outcome, ChildType, SamePc
<1>2. QED
  BY <1>1, SaysSignal DEF Becomes, SamePc, Blank, Says

\* What any signal does to a child.
LEMMA HandledOutcome ==
  ASSUME NEW p \in Peers, NEW c \in ChildType, NEW m \in SignalType,
         NEW r \in Handled(p, c, m)
  PROVE  Becomes(c, r.child) /\ Says(r)
<1>1. m.pc \in PcName /\ m.type \in {"hello", "offer", "answer", "candidate"}
  BY DEF SignalType
<1>2. \/ r \in OnHello(p, c) \/ r \in OnOffer(c, m.pc)
      \/ r \in OnAnswer(c, m.pc) \/ r \in OnCandidate(c, m.pc)
  BY <1>1 DEF Handled
<1>3. QED
  BY <1>1, <1>2, HelloOutcome, OfferOutcome, AnswerOutcome, CandidateOutcome

-----------------------------------------------------------------------------
(* The steps.                                                              *)

\* What publishing does to the queues: the other's grows, if it has subscribed.
LEMMA SentType ==
  ASSUME NEW n \in [Peers -> Seq(SignalType)], NEW p \in Peers,
         NEW u \in Seq(SignalType)
  PROVE  /\ Sent(n, p, u) \in [Peers -> Seq(SignalType)]
         /\ \A q \in Peers : Sent(n, p, u)[q] = n[q] \/ Sent(n, p, u)[q] = n[q] \o u
<1>1. Other(p) \in Peers
  BY TwoPeers
<1>2. n[Other(p)] \o u \in Seq(SignalType)
  BY <1>1
<1>3. QED
  BY <1>1, <1>2 DEF Sent

\* A group's children, but for the one at s.
SlotBecomes(p, s, x) ==
  /\ child' \in [Peers -> [Slots -> ChildType]]
  /\ child'[p][s] = x
  /\ \A q \in Peers, t \in Slots : q # p \/ t # s => child'[q][t] = child[q][t]

\* The new value of one place is all that changes.
LEMMA OneSlot ==
  ASSUME Types, NEW p \in Peers, NEW s \in Slots, NEW x \in ChildType,
         child' = [child EXCEPT ![p][s] = x]
  PROVE  SlotBecomes(p, s, x)
  BY DEF Types, SlotBecomes

\* Two places of one group.
LEMMA TwoSlots ==
  ASSUME Types, NEW p \in Peers, NEW s \in Slots, NEW t \in Slots, s # t,
         NEW x \in ChildType, NEW y \in ChildType,
         child' = [child EXCEPT ![p][s] = x, ![p][t] = y]
  PROVE  /\ child' \in [Peers -> [Slots -> ChildType]]
         /\ child'[p][s] = x /\ child'[p][t] = y
         /\ \A q \in Peers, u \in Slots : q # p \/ (u # s /\ u # t) => child'[q][u] = child[q][u]
  BY DEF Types

\* The step of one group, whichever it is.
Step(p) ==
  \/ Start(p) \/ OnSignal(p) \/ Deliver(p) \/ DisconnectOld(p)
  \/ SendHello(p) \/ Reap(p) \/ DisconnectStale(p)
  \/ \E s \in Slots : Gather(p, s) \/ Open(p, s) \/ Notice(p, s)
  \/ Mark(p) \/ Lose(p)

\* The child that onSignal() makes.
Made(p) == [NoChild EXCEPT !.id = made[p] + 1]

LEMMA MadeType ==
  ASSUME Types, NEW p \in Peers
  PROVE  /\ Made(p) \in ChildType /\ Present(Made(p)) /\ Blank(Made(p))
         /\ Made(p).link = "none" /\ ~Made(p).connected /\ ~Made(p).closing
         /\ Made(p).pc = 0 /\ made[p] + 1 \in Nat
<1>1. made[p] + 1 \in Nat /\ made[p] + 1 # 0
  BY DEF Types
<1>2. /\ Made(p) \in ChildType /\ Made(p).id = made[p] + 1 /\ Made(p).pc = NoChild.pc
      /\ Made(p).link = NoChild.link /\ Made(p).connected = NoChild.connected
      /\ Made(p).closing = NoChild.closing
      /\ Made(p).local = NoChild.local /\ Made(p).remote = NoChild.remote
  BY <1>1, NoChildType DEF Made, ChildType
<1>3. QED
  BY <1>1, <1>2, NoChildType DEF Present, Blank

\* onSignal() with its choices named: m is for the child there is, or for a new
\* one that takes its place.
Hears(p, m, create, replace) ==
  /\ net[p] # <<>> /\ m = Head(net[p]) /\ m \in SignalType
  /\ replace = Replaces(p, m) /\ create = (replace \/ ~Present(Mine(p)))
  /\ child' \in [Peers -> [Slots -> ChildType]]
  /\ child'[p]["old"] = (IF replace THEN Mine(p) ELSE child[p]["old"])
  /\ child'[p]["peers"] = (IF create THEN Made(p) ELSE Mine(p))
  /\ child'[p]["stale"] = child[p]["stale"]
  /\ \A q \in Peers : q # p => child'[q] = child[q]
  /\ hand' \in [Peers -> HandType] /\ hand'[p].signal = m
  /\ \A q \in Peers : q # p => hand'[q] = hand[q]
  /\ everReady' = [everReady EXCEPT ![p] = @ /\ ~replace]
  /\ made' \in [Peers -> Nat] /\ restartId' \in [Peers -> Nat]
  /\ net' = [net EXCEPT ![p] = Tail(@)]
  /\ UNCHANGED <<opening, started, everConnected, restarts, faultVars>>

LEMMA OnSignalHears ==
  ASSUME Types, NEW p \in Peers, OnSignal(p)
  PROVE  \E m \in SignalType : \E create, replace \in BOOLEAN : Hears(p, m, create, replace)
<1> DEFINE m == Head(net[p])
           replace == Replaces(p, m)
           create == replace \/ ~Present(Mine(p))
           x == IF replace THEN Mine(p) ELSE child[p]["old"]
           y == IF create THEN Made(p) ELSE Mine(p)
           h == Hand(m, IF create THEN Made(p).id ELSE Mine(p).id, create)
<1>1. net[p] # <<>> /\ m \in SignalType
  BY DEF OnSignal, Types
<1>2. /\ child[p]["peers"] \in ChildType /\ child[p]["old"] \in ChildType
      /\ Mine(p) = child[p]["peers"] /\ replace \in BOOLEAN /\ create \in BOOLEAN
  BY DEF Types, Slots, Mine, Replaces
<1>3. x \in ChildType /\ y \in ChildType
  BY <1>2, MadeType
<1>4. child' = [child EXCEPT ![p]["old"] = x, ![p]["peers"] = y]
  BY DEF OnSignal, Made, Mine
<1>5. h \in HandType
  <2>1. Made(p).id \in Nat /\ Mine(p).id \in Nat
    BY <1>2, MadeType DEF ChildType
  <2> HIDE DEF m, create
  <2>2. QED
    BY <1>1, <1>2, <2>1 DEF Hand, HandType
<1>6. hand' = [hand EXCEPT ![p] = h]
  BY DEF OnSignal, Made
<1>7. h.signal = m
  BY DEF Hand
<1>8. /\ everReady' = [everReady EXCEPT ![p] = @ /\ ~replace]
      /\ net' = [net EXCEPT ![p] = Tail(@)]
      /\ UNCHANGED <<opening, started, everConnected, restarts, faultVars>>
  BY DEF OnSignal, MarkAfter
<1>9. made' \in [Peers -> Nat]
  BY MadeType DEF OnSignal, Types
<1>10. restartId' \in [Peers -> Nat]
  BY <1>1 DEF OnSignal, Types, SignalType
<1> HIDE DEF x, y, h, m, replace, create
<1>11. /\ child' \in [Peers -> [Slots -> ChildType]]
       /\ child'[p]["old"] = x /\ child'[p]["peers"] = y
       /\ child'[p]["stale"] = child[p]["stale"]
       /\ \A q \in Peers : q # p => child'[q] = child[q]
  BY <1>3, <1>4 DEF Types, Slots
<1>12. /\ hand' \in [Peers -> HandType] /\ hand'[p].signal = m
       /\ \A q \in Peers : q # p => hand'[q] = hand[q]
  BY <1>5, <1>6, <1>7 DEF Types
<1>13. Hears(p, m, create, replace)
  BY <1>1, <1>2, <1>8, <1>9, <1>10, <1>11, <1>12 DEF Hears, m, replace, create, x, y
<1>14. QED
  BY <1>1, <1>2, <1>13

\* Deliver with its choices named: at most one child becomes another.
Delivers(p) ==
  /\ \/ UNCHANGED child
     \/ \E s \in Slots, d \in ChildType : Becomes(child[p][s], d) /\ SlotBecomes(p, s, d)
  /\ \E u \in Seq(SignalType) : Unrestarted(u) /\ net' = Sent(net, p, u)
  /\ hand' = [hand EXCEPT ![p] = Nothing]
  /\ UNCHANGED <<opening, made, groupVars, faultVars>>

\* Sequences that ask for no restart, put together or taken apart.
LEMMA UnrestartedParts ==
  ASSUME NEW n \in Seq(SignalType), NEW u \in Seq(SignalType),
         Unrestarted(n), Unrestarted(u)
  PROVE  Unrestarted(n \o u) /\ (n # <<>> => Unrestarted(Tail(n)) /\ Head(n).restart = 0)
  BY DEF Unrestarted

LEMMA DeliverDelivers ==
  ASSUME Types, NEW p \in Peers, Deliver(p)
  PROVE  Delivers(p)
<1> DEFINE h == hand[p]
           greeting == IF h.new THEN <<Hello>> ELSE <<>>
<1>1. h.signal \in SignalType
  BY DEF Types, HandType
<1>2. greeting \in Seq(SignalType) /\ Unrestarted(greeting)
  BY HelloType DEF Unrestarted
<1>3. /\ hand' = [hand EXCEPT ![p] = Nothing]
      /\ UNCHANGED <<opening, made, groupVars, faultVars>>
  BY DEF Deliver
<1>4. CASE \E s \in Slots : \E r \in Handled(p, child[p][s], h.signal) :
             /\ child' = [child EXCEPT ![p][s] = r.child]
             /\ net' = Sent(net, p, greeting \o r.sends)
  <2>1. PICK s \in Slots : \E r \in Handled(p, child[p][s], h.signal) :
             /\ child' = [child EXCEPT ![p][s] = r.child]
             /\ net' = Sent(net, p, greeting \o r.sends)
    BY <1>4
  <2>2. PICK r \in Handled(p, child[p][s], h.signal) :
             /\ child' = [child EXCEPT ![p][s] = r.child]
             /\ net' = Sent(net, p, greeting \o r.sends)
    BY <2>1
  <2>3. child[p][s] \in ChildType
    BY DEF Types
  <2> HIDE DEF h, greeting
  <2>4. Becomes(child[p][s], r.child) /\ Says(r)
    BY <1>1, <2>2, <2>3, HandledOutcome
  <2>5. r.child \in ChildType /\ SlotBecomes(p, s, r.child)
    BY <2>2, <2>4, OneSlot DEF Becomes
  <2>6. greeting \o r.sends \in Seq(SignalType) /\ Unrestarted(greeting \o r.sends)
    BY <1>2, <2>4, UnrestartedParts DEF Says
  <2>7. QED
    BY <1>3, <2>2, <2>4, <2>5, <2>6 DEF Delivers
<1>5. CASE net' = Sent(net, p, greeting) /\ UNCHANGED child
  BY <1>2, <1>3, <1>5 DEF Delivers
<1>6. QED
  BY <1>4, <1>5 DEF Deliver

\* What the peer connections do to a child, and the network to its link.
LEMMA GatherChanges ==
  ASSUME Types, NEW p \in Peers, NEW s \in Slots, Gather(p, s)
  PROVE  \E d \in ChildType :
           /\ SlotBecomes(p, s, d) /\ d.id = child[p][s].id
           /\ SamePc(child[p][s], d) /\ (Blank(child[p][s]) => Blank(d))
<1> DEFINE c == child[p][s]
           d == [c EXCEPT !.gathered = TRUE]
<1>1. c \in ChildType
  BY DEF Types
<1>2. child' = [child EXCEPT ![p][s] = d]
  BY DEF Gather
<1> HIDE DEF c
<1>3. d \in ChildType /\ d.id = c.id /\ SamePc(c, d) /\ (Blank(c) => Blank(d))
  BY <1>1 DEF ChildType, SamePc, Blank
<1> HIDE DEF d
<1>4. QED
  BY <1>2, <1>3, OneSlot DEF c

LEMMA OpenChanges ==
  ASSUME Types, NEW p \in Peers, NEW s \in Slots, Open(p, s)
  PROVE  \E d \in ChildType :
           /\ SlotBecomes(p, s, d) /\ d.id = child[p][s].id /\ d.pc = child[p][s].pc
           /\ d.link = "open" /\ d.connected /\ d.closing = child[p][s].closing
<1> DEFINE c == child[p][s]
           d == [c EXCEPT !.link = "open", !.connected = TRUE]
<1>1. c \in ChildType
  BY DEF Types
<1>2. child' = [child EXCEPT ![p][s] = d]
  BY DEF Open, Types
<1> HIDE DEF c
<1>3. /\ d \in ChildType /\ d.id = c.id /\ d.pc = c.pc
      /\ d.link = "open" /\ d.connected /\ d.closing = c.closing
  BY <1>1 DEF ChildType
<1> HIDE DEF d
<1>4. QED
  BY <1>2, <1>3, OneSlot DEF c

LEMMA ReportChanges ==
  ASSUME Types, NEW p \in Peers, NEW s \in Slots, Report(p, s)
  PROVE  \E d \in ChildType :
           /\ SlotBecomes(p, s, d) /\ d.id = child[p][s].id /\ d.pc = child[p][s].pc
           /\ ~child[p][s].closing => d.link = "lost" /\ ~d.connected /\ ~d.closing
<1> DEFINE c == child[p][s]
           down == [c EXCEPT !.connected = FALSE]
           d == IF c.closing THEN [down EXCEPT !.closing = FALSE] ELSE [down EXCEPT !.link = "lost"]
<1>1. c \in ChildType
  BY DEF Types
<1>2. child' = [child EXCEPT ![p][s] = d]
  BY DEF Report
<1> HIDE DEF c
<1>3. /\ d \in ChildType /\ d.id = c.id /\ d.pc = c.pc
      /\ ~c.closing => d.link = "lost" /\ ~d.connected /\ ~d.closing
  BY <1>1 DEF ChildType
<1> HIDE DEF d
<1>4. QED
  BY <1>2, <1>3, OneSlot DEF c

\* Every step keeps the types.
LEMMA StepKeepsTypes ==
  ASSUME Types, [Next]_vars
  PROVE  Types'
<1>1. CASE UNCHANGED vars
  BY <1>1 DEF vars, childVars, groupVars, faultVars, Types
<1>2. ASSUME NEW p \in Peers, Step(p) PROVE Types'
  <2>1. /\ child \in [Peers -> [Slots -> ChildType]]
        /\ hand \in [Peers -> HandType] /\ opening \in [Peers -> SUBSET PcName]
        /\ net \in [Peers -> Seq(SignalType)]
        /\ \A s \in Slots : child[p][s] \in ChildType
    BY DEF Types
  <2>2. {"peers", "old", "stale"} \subseteq Slots
    BY DEF Slots
  <2>3. ASSUME NEW x \in SignalType
        PROVE  Sent(net, p, <<x>>) \in [Peers -> Seq(SignalType)]
    <3>1. <<x>> \in Seq(SignalType)
      OBVIOUS
    <3>2. QED
      BY <2>1, <3>1, SentType
  <2>4. CASE Start(p)
    <3>1. [q \in Peers |-> Append(net[q], Hello)] \in [Peers -> Seq(SignalType)]
      BY <2>1, HelloType
    <3>2. QED
      BY <2>4, <3>1 DEF Start, childVars, faultVars, Types
  <2>5. CASE OnSignal(p)
    <3>1. PICK m \in SignalType : \E create, replace \in BOOLEAN : Hears(p, m, create, replace)
      BY <2>5, OnSignalHears
    <3>2. PICK create \in BOOLEAN, replace \in BOOLEAN : Hears(p, m, create, replace)
      BY <3>1
    <3>3. net' \in [Peers -> Seq(SignalType)]
      BY <2>1, <3>2 DEF Hears
    <3>4. (everReady[p] /\ ~replace) \in BOOLEAN
      OBVIOUS
    <3>5. everReady' \in [Peers -> BOOLEAN]
      BY <3>2, <3>4 DEF Hears, Types
    <3>6. QED
      BY <3>2, <3>3, <3>5 DEF Hears, Types, faultVars
  <2>6. CASE Deliver(p)
    <3>1. Delivers(p)
      BY <2>6, DeliverDelivers
    <3>2. child' \in [Peers -> [Slots -> ChildType]]
      BY <2>1, <3>1 DEF Delivers, SlotBecomes
    <3>3. net' \in [Peers -> Seq(SignalType)]
      <4>1. PICK u \in Seq(SignalType) : net' = Sent(net, p, u)
        BY <3>1 DEF Delivers
      <4>2. QED
        BY <2>1, <4>1, SentType
    <3>4. hand' \in [Peers -> HandType]
      BY <2>1, <3>1, HelloType DEF Delivers
    <3>5. QED
      BY <3>1, <3>2, <3>3, <3>4 DEF Delivers, groupVars, faultVars, Types
  <2>7. CASE DisconnectOld(p)
    <3>1. child' \in [Peers -> [Slots -> ChildType]]
      BY <2>2, <2>7, NoChildType, OneSlot DEF DisconnectOld, SlotBecomes
    <3>2. QED
      BY <2>7, <3>1 DEF DisconnectOld, groupVars, faultVars, Types
  <2>8. CASE SendHello(p)
    BY <2>3, <2>8, HelloType DEF SendHello, childVars, groupVars, faultVars, Types
  <2>9. CASE Reap(p)
    <3>1. child' \in [Peers -> [Slots -> ChildType]]
      BY <2>1, <2>2, <2>9, NoChildType, TwoSlots DEF Reap, Mine
    <3>2. QED
      BY <2>9, <3>1 DEF Reap, faultVars, Types
  <2>10. CASE DisconnectStale(p)
    <3>1. child' \in [Peers -> [Slots -> ChildType]]
      BY <2>2, <2>10, NoChildType, OneSlot DEF DisconnectStale, SlotBecomes
    <3>2. restarts[p] + 1 \in Nat
      BY DEF Types
    <3>3. [restarts EXCEPT ![p] = @ + 1] \in [Peers -> Nat]
      BY <3>2 DEF Types
    <3>4. Signal("hello", None, restarts[p] + 1) \in SignalType
      BY <3>2 DEF Signal, SignalType, PcName, None
    <3>5. restarts' \in [Peers -> Nat] /\ net' \in [Peers -> Seq(SignalType)]
      BY <2>3, <2>10, <3>3, <3>4 DEF DisconnectStale, Types
    <3>6. QED
      BY <2>10, <3>1, <3>5 DEF DisconnectStale, faultVars, Types
  <2>11. ASSUME NEW s \in Slots, Gather(p, s) PROVE Types'
    <3>1. PICK d \in ChildType : SlotBecomes(p, s, d)
      BY <2>11, GatherChanges
    <3>2. net' \in [Peers -> Seq(SignalType)]
      BY <2>1, <2>3, <2>11, SaysSignal DEF Gather
    <3>3. QED
      BY <2>11, <3>1, <3>2 DEF Gather, SlotBecomes, groupVars, faultVars, Types
  <2>12. ASSUME NEW s \in Slots, Open(p, s) PROVE Types'
    <3>1. PICK d \in ChildType : SlotBecomes(p, s, d)
      BY <2>12, OpenChanges
    <3>2. PcOf(child[p][s]) \in PcName
      BY <2>1 DEF PcOf, PcName, ChildType
    <3>3. opening' \in [Peers -> SUBSET PcName]
      BY <2>1, <2>12, <3>2 DEF Open
    <3>4. QED
      BY <2>12, <3>1, <3>3 DEF Open, SlotBecomes, groupVars, faultVars, Types
  <2>13. ASSUME NEW s \in Slots, Report(p, s), linkLosses' \in Nat PROVE Types'
    <3>1. PICK d \in ChildType : SlotBecomes(p, s, d)
      BY <2>13, ReportChanges
    <3>2. QED
      BY <2>13, <3>1 DEF Report, SlotBecomes, groupVars, Types
  <2>14. ASSUME NEW s \in Slots, Notice(p, s) PROVE Types'
    BY <2>13, <2>14 DEF Notice, Types
  <2>15. CASE Mark(p)
    <3>1. opening' \in [Peers -> SUBSET PcName]
      BY <2>1, <2>15 DEF Mark
    <3>2. QED
      BY <2>15, <3>1 DEF Mark, faultVars, Types
  <2>16. CASE Lose(p)
    <3>1. linkLosses + 1 \in Nat
      BY DEF Types
    <3>2. QED
      BY <2>2, <2>13, <2>16, <3>1 DEF Lose
  <2>17. QED
    BY <1>2, <2>4, <2>5, <2>6, <2>7, <2>8, <2>9, <2>10, <2>11, <2>12, <2>14, <2>15, <2>16
       DEF Step
<1>3. QED
  BY <1>1, <1>2 DEF Next, Step

\* The types hold when the two start.
LEMMA InitTypes == Init => Types
  BY NoChildType, HelloType, ModeAssumption DEF Init, Types

\* Every variable keeps its type: in particular nothing but signals is ever
\* under way, and a child is never made of anything but what it was told.
THEOREM TypeCorrect == Spec => []Types
<1>1. QED
  BY InitTypes, StepKeepsTypes, PTL DEF Spec

-----------------------------------------------------------------------------
(* The mark of a remote whose link was up is of the child there is.        *)

\* No child has had a second peer connection: each has been greeted before it
\* was offered anything.
OnePeerConnection == \A p \in Peers, s \in Slots : child[p][s].pc <= 1

\* A child's flag agrees with its link, and nothing is left to be reported.
Settled(c) ==
  /\ Blank(c) /\ ~c.closing
  /\ c.connected => c.link = "open"
  /\ c.link = "open" => c.connected

\* The mark is of the child there is, whose link has been up and still is while
\* its opening is being reported; the children that were replaced have lost theirs.
ReadyOf(p) ==
  /\ everReady[p] => Present(Mine(p)) /\ Mine(p).link # "none"
  /\ \A n \in opening[p] : Present(Mine(p)) /\ n = PcOf(Mine(p)) /\ Mine(p).link = "open"
  /\ \A s \in Slots : Settled(child[p][s])
  /\ \A s \in {"old", "stale"} : Present(child[p][s]) => child[p][s].link = "lost"
  /\ Unrestarted(net[p]) /\ hand[p].signal.restart = 0

ReadyInv == ~joinMode => \A p \in Peers : ReadyOf(p)

\* With one peer connection each, a signal changes nothing of a child's link.
LEMMA HandledLink ==
  ASSUME NEW c \in ChildType, NEW d, Becomes(c, d), Settled(c), d.pc <= 1
  PROVE  /\ Settled(d) /\ d.link = c.link /\ Present(c) = Present(d)
         /\ c.link # "none" => PcOf(d) = PcOf(c)
<1>1. c.pc \in Nat /\ c.link \in {"none", "open", "lost"}
  BY DEF ChildType
<1>2. CASE SamePc(c, d)
  BY <1>2 DEF SamePc, Becomes, Settled, Present, PcOf
<1>3. CASE NextPc(c, d)
  <2>1. c.pc = 0
    BY <1>1, <1>3 DEF NextPc
  <2>2. QED
    BY <1>3, <2>1 DEF NextPc, Becomes, Settled, Blank, Present
<1>4. QED
  BY <1>2, <1>3 DEF Becomes

\* What a queue becomes when it loses its head or gains signals.
LEMMA SentUnrestarted ==
  ASSUME Types, NEW p \in Peers, NEW u \in Seq(SignalType), Unrestarted(u),
         \A q \in Peers : Unrestarted(net[q]), net' = Sent(net, p, u)
  PROVE  \A q \in Peers : Unrestarted(net'[q])
<1>1. SUFFICES ASSUME NEW q \in Peers PROVE Unrestarted(net'[q])
  OBVIOUS
<1>2. net \in [Peers -> Seq(SignalType)]
  BY DEF Types
<1>3. net'[q] = net[q] \/ net'[q] = net[q] \o u
  BY <1>2, SentType
<1>4. net[q] \in Seq(SignalType)
  BY <1>2
<1>5. QED
  BY <1>3, <1>4, UnrestartedParts

\* Every step keeps the mark of a remote with the child whose link was up.
LEMMA StepKeepsReady ==
  ASSUME Types, ReadyInv, OnePeerConnection', [Next]_vars
  PROVE  ReadyInv'
<1>1. CASE UNCHANGED vars
  BY <1>1 DEF vars, childVars, groupVars, faultVars, ReadyInv, ReadyOf, Mine
<1>2. CASE joinMode
  <2>1. ASSUME NEW p \in Peers, Step(p) PROVE joinMode' = joinMode
    <3>1. CASE Start(p) \/ OnSignal(p) \/ Deliver(p) \/ DisconnectOld(p)
      BY <3>1 DEF Start, OnSignal, Deliver, DisconnectOld, faultVars
    <3>2. CASE SendHello(p) \/ Reap(p) \/ DisconnectStale(p) \/ Mark(p)
      BY <3>2 DEF SendHello, Reap, DisconnectStale, Mark, faultVars
    <3>3. CASE Lose(p) \/ \E s \in Slots : Gather(p, s) \/ Open(p, s) \/ Notice(p, s)
      BY <3>3 DEF Gather, Open, Notice, Lose, Report, faultVars
    <3>4. QED
      BY <2>1, <3>1, <3>2, <3>3 DEF Step
  <2>2. QED
    BY <1>1, <1>2, <2>1 DEF ReadyInv, Next, Step
<1>3. ASSUME ~joinMode, NEW p \in Peers, Step(p) PROVE ReadyInv'
  <2>1. /\ child \in [Peers -> [Slots -> ChildType]]
        /\ hand \in [Peers -> HandType] /\ opening \in [Peers -> SUBSET PcName]
        /\ everReady \in [Peers -> BOOLEAN]
        /\ net \in [Peers -> Seq(SignalType)]
        /\ \A q \in Peers, s \in Slots : child[q][s] \in ChildType
    BY DEF Types
  <2>2. \A q \in Peers : ReadyOf(q)
    BY <1>3 DEF ReadyInv
  <2>3. /\ {"peers", "old", "stale"} = Slots /\ "peers" # "old" /\ "peers" # "stale"
        /\ "old" # "stale" /\ \A q \in Peers : Mine(q) = child[q]["peers"] /\ Mine(q)' = child'[q]["peers"]
    BY DEF Slots, Mine
  <2>4. /\ \A q \in Peers : Unrestarted(net[q]) /\ hand[q].signal.restart = 0
        /\ \A q \in Peers, s \in Slots : Settled(child[q][s])
        /\ \A q \in Peers : child[q]["peers"].link \in {"none", "open", "lost"}
    BY <2>1, <2>2, <2>3 DEF ReadyOf, ChildType
  <2>5. SUFFICES ASSUME NEW q \in Peers PROVE ReadyOf(q)'
    BY DEF ReadyInv
  \* The child there is changes, if at all, without a change of its name or link.
  <2>6. ASSUME NEW s \in Slots, NEW d, SlotBecomes(p, s, d), Settled(d),
               d.link = child[p][s].link, Present(d) = Present(child[p][s]),
               d.link # "none" => PcOf(d) = PcOf(child[p][s]),
               UNCHANGED <<everReady, opening>>,
               Unrestarted(net'[q]), hand'[q].signal.restart = 0
        PROVE  ReadyOf(q)'
    <3>1. /\ \A t \in Slots : /\ Settled(child'[q][t])
                              /\ child'[q][t].link = child[q][t].link
                              /\ Present(child'[q][t]) = Present(child[q][t])
          /\ child[q]["peers"].link # "none" => PcOf(child'[q]["peers"]) = PcOf(child[q]["peers"])
      BY <2>3, <2>4, <2>6 DEF SlotBecomes
    <3>2. QED
      BY <2>2, <2>3, <2>6, <3>1 DEF ReadyOf
  \* No child changes.
  <2>7. ASSUME UNCHANGED <<child, everReady, opening>>,
               Unrestarted(net'[q]), hand'[q].signal.restart = 0
        PROVE  ReadyOf(q)'
    BY <2>2, <2>3, <2>7 DEF ReadyOf
  \* A child that was replaced is gone.
  <2>8. ASSUME NEW s \in {"old", "stale"}, SlotBecomes(p, s, NoChild),
               UNCHANGED <<everReady, opening>>,
               Unrestarted(net'[q]), hand'[q].signal.restart = 0
        PROVE  ReadyOf(q)'
    BY <2>2, <2>3, <2>8, NoChildType DEF ReadyOf, SlotBecomes, Settled
  <2>9. CASE Start(p)
    <3>1. ASSUME NEW r \in Peers PROVE Unrestarted(Append(net[r], Hello))
      <4>1. net[r] \in Seq(SignalType) /\ Unrestarted(net[r])
        BY <2>1, <2>4
      <4>2. QED
        BY <4>1, HelloType DEF Unrestarted
    <3>2. Unrestarted(net'[q])
      BY <2>4, <2>9, <3>1 DEF Start
    <3>3. QED
      BY <2>4, <2>7, <2>9, <3>2 DEF Start, childVars
  <2>10. CASE OnSignal(p)
    <3>1. PICK m \in SignalType : \E create, replace \in BOOLEAN : Hears(p, m, create, replace)
      BY <2>10, OnSignalHears
    <3>2. PICK create \in BOOLEAN, replace \in BOOLEAN : Hears(p, m, create, replace)
      BY <3>1
    <3>3. m.restart = 0 /\ Unrestarted(Tail(net[p]))
      BY <2>1, <2>4, <3>2, HelloType, UnrestartedParts DEF Hears
    <3>4. replace => everReady[p] /\ ~Mine(p).connected
      BY <3>2, <3>3 DEF Hears, Replaces, IsRestart
    <3>5. replace => Mine(p).link = "lost" /\ opening[p] = {}
      BY <2>2, <2>3, <2>4, <3>4 DEF ReadyOf, Settled
    <3>6. create => opening[p] = {} /\ ~everReady'[p]
      BY <2>1, <2>2, <3>2, <3>5 DEF ReadyOf, Hears
    <3>7. /\ Settled(Made(p)) /\ Made(p).link = "none"
      BY MadeType DEF Settled
    <3>8. Unrestarted(net'[q]) /\ hand'[q].signal.restart = 0
      BY <2>1, <2>4, <3>2, <3>3 DEF Hears
    <3>9. CASE q = p
      <4>1. /\ everReady'[p] => everReady[p] /\ opening' = opening
        BY <2>1, <3>2 DEF Hears
      <4>2. /\ (child'[p]["old"] = Mine(p) /\ replace) \/ child'[p]["old"] = child[p]["old"]
            /\ child'[p]["stale"] = child[p]["stale"]
            /\ create => child'[p]["peers"] = Made(p)
            /\ ~create => child'[p]["peers"] = child[p]["peers"]
        BY <2>3, <3>2 DEF Hears
      <4>3. \A s \in Slots : Settled(child'[p][s])
        BY <2>3, <2>4, <3>7, <4>2
      <4>4. \A s \in {"old", "stale"} : Present(child'[p][s]) => child'[p][s].link = "lost"
        BY <2>2, <2>3, <3>5, <4>2 DEF ReadyOf
      <4>5. opening' = opening
        BY <3>2 DEF Hears
      <4>6. CASE create
        BY <3>6, <3>8, <3>9, <4>3, <4>4, <4>5, <4>6 DEF ReadyOf
      <4>7. CASE ~create
        BY <2>2, <2>3, <3>8, <3>9, <4>1, <4>2, <4>3, <4>4, <4>5, <4>7 DEF ReadyOf
      <4>8. QED
        BY <4>6, <4>7
    <3>10. CASE q # p
      <4>1. child'[q] = child[q] /\ everReady'[q] = everReady[q] /\ opening' = opening
        BY <2>1, <3>2, <3>10 DEF Hears
      <4>2. QED
        BY <2>2, <2>3, <3>8, <4>1 DEF ReadyOf
    <3>11. QED
      BY <3>9, <3>10
  <2>11. CASE Deliver(p)
    <3>1. Delivers(p)
      BY <2>11, DeliverDelivers
    <3>2. PICK u \in Seq(SignalType) : Unrestarted(u) /\ net' = Sent(net, p, u)
      BY <3>1 DEF Delivers
    <3>3. Unrestarted(net'[q])
      BY <2>4, <3>2, SentUnrestarted
    <3>4. hand'[q].signal.restart = 0
      BY <2>1, <2>4, <3>1, HelloType DEF Delivers
    <3>5. UNCHANGED <<everReady, opening>>
      BY <3>1 DEF Delivers, groupVars
    <3>6. CASE UNCHANGED child
      BY <2>7, <3>3, <3>4, <3>5, <3>6
    <3>7. ASSUME NEW s \in Slots, NEW d \in ChildType,
                 Becomes(child[p][s], d), SlotBecomes(p, s, d)
          PROVE  ReadyOf(q)'
      <4>1. d.pc <= 1
        BY <3>7 DEF OnePeerConnection, SlotBecomes
      <4>2. /\ Settled(d) /\ d.link = child[p][s].link /\ Present(child[p][s]) = Present(d)
            /\ d.link # "none" => PcOf(d) = PcOf(child[p][s])
        BY <2>1, <2>4, <3>7, <4>1, HandledLink
      <4>3. QED
        BY <2>6, <3>3, <3>4, <3>5, <3>7, <4>2
    <3>8. QED
      BY <3>1, <3>6, <3>7 DEF Delivers
  <2>12. CASE DisconnectOld(p)
    <3>1. SlotBecomes(p, "old", NoChild)
      BY <2>3, <2>12, NoChildType, OneSlot DEF DisconnectOld
    <3>2. QED
      BY <2>4, <2>8, <2>12, <3>1 DEF DisconnectOld, groupVars
  <2>13. CASE SendHello(p)
    <3>1. Unrestarted(net'[q])
      BY <2>4, <2>13, HelloType, SentUnrestarted DEF SendHello
    <3>2. QED
      BY <2>4, <2>7, <2>13, <3>1 DEF SendHello, childVars, groupVars
  <2>14. CASE Reap(p)
    <3>1. Mine(p).link = "lost" /\ opening[p] = {}
      BY <2>2, <2>3, <2>4, <2>14 DEF Reap, ReadyOf, Settled
    <3>2. /\ child'[p]["stale"] = Mine(p) /\ child'[p]["peers"] = NoChild
          /\ \A r \in Peers, u \in Slots :
               r # p \/ (u # "stale" /\ u # "peers") => child'[r][u] = child[r][u]
      BY <2>1, <2>3, <2>14, NoChildType, TwoSlots DEF Reap
    <3>3. /\ ~everReady'[p] /\ (q # p => everReady'[q] = everReady[q])
          /\ UNCHANGED <<opening, hand, net>>
      BY <2>1, <2>14 DEF Reap
    <3>4. QED
      BY <2>2, <2>3, <2>4, <3>1, <3>2, <3>3, NoChildType DEF ReadyOf, Settled
  <2>15. CASE DisconnectStale(p)
    <3>1. SlotBecomes(p, "stale", NoChild)
      BY <2>3, <2>15, NoChildType, OneSlot DEF DisconnectStale
    <3>2. UNCHANGED <<net, hand, everReady, opening>>
      BY <1>3, <2>15 DEF DisconnectStale
    <3>3. QED
      BY <2>4, <2>8, <3>1, <3>2
  <2>16. ASSUME NEW s \in Slots, Gather(p, s) PROVE ReadyOf(q)'
    <3>1. PICK d \in ChildType :
            /\ SlotBecomes(p, s, d) /\ d.id = child[p][s].id
            /\ SamePc(child[p][s], d) /\ (Blank(child[p][s]) => Blank(d))
      BY <2>16, GatherChanges
    <3>2. Unrestarted(net'[q])
      BY <2>1, <2>4, <2>16, SaysSignal, SentUnrestarted DEF Gather
    <3>3. /\ Settled(d) /\ d.link = child[p][s].link /\ Present(child[p][s]) = Present(d)
          /\ PcOf(d) = PcOf(child[p][s])
      BY <2>4, <3>1 DEF Settled, SamePc, Present, PcOf
    <3>4. QED
      BY <2>4, <2>6, <2>16, <3>1, <3>2, <3>3 DEF Gather, groupVars
  <2>17. ASSUME NEW s \in Slots, Open(p, s) PROVE ReadyOf(q)'
    <3>1. PICK d \in ChildType :
            /\ SlotBecomes(p, s, d) /\ d.id = child[p][s].id /\ d.pc = child[p][s].pc
            /\ d.link = "open" /\ d.connected /\ d.closing = child[p][s].closing
      BY <2>17, OpenChanges
    <3>2. Present(child[p][s]) /\ child[p][s].remote # None /\ child[p][s].link = "none"
      <4>1. PICK e \in LiveAt(Other(p)) : Paired(child[p][s], e)
        BY <2>17 DEF Open, Reachable
      <4>2. e \in ChildType
        BY <2>1, <4>1, TwoPeers DEF LiveAt
      <4>3. QED
        BY <2>17, <4>1, <4>2 DEF Open, Paired, Present, PcOf, None, ChildType
    <3>3. s = "peers"
      BY <2>2, <2>3, <3>2 DEF ReadyOf
    <3>4. child[p][s].pc # 0
      BY <2>4, <3>2 DEF Settled, Blank
    <3>5. Settled(d) /\ Present(d) /\ PcOf(d) = PcOf(child[p][s])
      BY <2>4, <3>1, <3>2, <3>4 DEF Settled, Blank, Present, PcOf
    <3>6. /\ UNCHANGED <<everReady, net, hand>>
          /\ opening'[p] = opening[p] \cup {PcOf(child[p][s])}
          /\ q # p => opening'[q] = opening[q]
      BY <2>1, <2>17 DEF Open, groupVars
    <3>7. opening[p] = {}
      BY <2>2, <2>3, <3>2, <3>3 DEF ReadyOf
    <3>8. QED
      BY <2>2, <2>3, <2>4, <3>1, <3>3, <3>5, <3>6, <3>7 DEF ReadyOf, SlotBecomes
  <2>18. ASSUME NEW s \in Slots, Report(p, s),
                child[p][s].closing \/ child[p][s].link = "open"
         PROVE  ReadyOf(q)'
    <3>1. PICK d \in ChildType :
            /\ SlotBecomes(p, s, d) /\ d.id = child[p][s].id /\ d.pc = child[p][s].pc
            /\ ~child[p][s].closing => d.link = "lost" /\ ~d.connected /\ ~d.closing
      BY <2>18, ReportChanges
    <3>2. ~child[p][s].closing /\ child[p][s].link = "open" /\ child[p][s].pc # 0
      BY <2>4, <2>18 DEF Settled, Blank
    <3>3. s = "peers" /\ Present(child[p][s]) => opening[p] = {}
      BY <2>2, <2>3, <2>18, <3>2 DEF Report, ReadyOf, PcOf
    <3>4. Settled(d) /\ d.link = "lost" /\ Present(d) = Present(child[p][s])
      BY <3>1, <3>2 DEF Settled, Blank, Present
    <3>5. UNCHANGED <<everReady, net, hand, opening>>
      BY <2>18 DEF Report, groupVars
    <3>6. s = "peers" /\ ~Present(child[p][s]) => opening[p] = {}
      BY <2>2, <2>3 DEF ReadyOf
    <3>7. QED
      BY <2>2, <2>3, <2>4, <3>1, <3>3, <3>4, <3>5, <3>6 DEF ReadyOf, SlotBecomes
  <2>19. ASSUME NEW s \in Slots, Notice(p, s) PROVE ReadyOf(q)'
    BY <2>18, <2>19 DEF Notice
  <2>20. CASE Mark(p)
    <3>1. Present(Mine(p)) /\ Mine(p).link = "open"
      BY <2>2, <2>20 DEF Mark, ReadyOf
    <3>2. /\ opening'[p] \subseteq opening[p] /\ (q # p => opening'[q] = opening[q])
          /\ (q # p => everReady'[q] = everReady[q])
          /\ UNCHANGED <<child, hand, net>>
      BY <2>1, <2>20 DEF Mark
    <3>3. QED
      BY <2>2, <2>3, <3>1, <3>2 DEF ReadyOf
  <2>21. CASE Lose(p)
    BY <2>3, <2>18, <2>21 DEF Lose
  <2>22. QED
    BY <1>3, <2>9, <2>10, <2>11, <2>12, <2>13, <2>14, <2>15, <2>16, <2>17, <2>19, <2>20, <2>21
       DEF Step
<1>4. QED
  BY <1>1, <1>2, <1>3 DEF Next, Step

\* No remote is marked when the two start.
LEMMA InitReady == Init => ReadyInv
<1>1. Unrestarted(<<>>) /\ Settled(NoChild)
  BY NoChildType DEF Unrestarted, Settled
<1>2. ASSUME Init, NEW p \in Peers
      PROVE  /\ ~everReady[p] /\ net[p] = <<>> /\ opening[p] = {} /\ hand[p] = Nothing
             /\ \A s \in Slots : child[p][s] = NoChild
  BY <1>2 DEF Init
<1>3. Nothing.signal.restart = 0
  BY HelloType
<1>4. ASSUME Init, NEW p \in Peers PROVE ReadyOf(p)
  <2>1. Unrestarted(net[p]) /\ hand[p].signal.restart = 0
    BY <1>1, <1>2, <1>3, <1>4
  <2>2. \A s \in Slots : Settled(child[p][s]) /\ ~Present(child[p][s])
    BY <1>1, <1>2, <1>4, NoChildType
  <2>3. QED
    BY <1>2, <1>4, <2>1, <2>2 DEF ReadyOf, Slots
<1>5. QED
  BY <1>4 DEF ReadyInv

\* With a relay that announces nothing, the mark a remote has in everReadyPeers
\* is never worn by a child whose own link was never up, though it is set by
\* remote, after the lock-free test of a link that may open or fall meanwhile:
\* for any number of children and lost links, as long as no child is offered
\* something before it has been greeted and so sets up a second peer connection.
THEOREM ReadyCorrect == Spec /\ []OnePeerConnection => []ReadyIsOfThisChild
<1>1. ReadyInv => ReadyIsOfThisChild
  BY DEF ReadyInv, ReadyOf, ReadyIsOfThisChild, Orderly
<1>2. Types /\ ReadyInv /\ OnePeerConnection /\ OnePeerConnection' /\ [Next]_vars => ReadyInv'
  BY StepKeepsReady
<1>3. QED
  BY <1>1, <1>2, InitReady, TypeCorrect, PTL DEF Spec

=============================================================================

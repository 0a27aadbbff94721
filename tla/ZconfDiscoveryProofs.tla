------------------------ MODULE ZconfDiscoveryProofs ------------------------
(***************************************************************************)
(* Theorems about the tables of a ZconfDiscovery, for any number of peers, *)
(* addresses and callers, whatever the network loses and reorders.         *)
(***************************************************************************)
EXTENDS ZconfDiscovery, TLAPS

USE LowerAssumption, PeersAssumption, TargetAssumption, BoundAssumption

\* The steps of Next, one disjunct per action.
LEMMA NextCases ==
  ASSUME Next
  PROVE  \/ HandlePtr \/ HandleBye \/ HandleSrv \/ HandleTxt
         \/ ParkAddress \/ DropAddress \/ AddAddress \/ RemoveAddress
         \/ AskAll \/ Close
         \/ \E n \in Peers : AskInstance(n) \/ AskHost(n) \/ OtherAsks(n)
         \/ \E n \in Peers : StopAdvertising(n) \/ Crash(n)
         \/ \E n \in Peers, a \in Addresses : Advertise(n, a)
         \/ \E packet \in net : Receive(packet) \/ Lose(packet)
         \/ \E r \in Resolvers : Resolve(r) \/ Wait(r) \/ GiveUp(r) \/ FindLate(r)
                                 \/ Deadline(r)
  BY DEF Next, Worker

-----------------------------------------------------------------------------
(* Types.                                                                  *)

\* What a peer sends is made of records about itself.
LEMMA RecordTypes ==
  ASSUME NEW n \in Peers
  PROVE  /\ \A t \in {"PTR", "SRV", "TXT"}, live \in BOOLEAN : Rec(t, n, None, live) \in Record
         /\ \A a \in Addresses, live \in BOOLEAN : Rec("A", n, a, live) \in Record
<1>1. ASSUME NEW t \in {"PTR", "SRV", "TXT"}, NEW live \in BOOLEAN
      PROVE  Rec(t, n, None, live) \in Record
  BY Zenon DEF Rec, Record
<1>2. ASSUME NEW a \in Addresses, NEW live \in BOOLEAN
      PROVE  Rec("A", n, a, live) \in Record
  BY Zenon DEF Rec, Record
<1>3. QED
  BY <1>1, <1>2

LEMMA Fours ==
  ASSUME NEW S, NEW a \in S, NEW b \in S, NEW c \in S, NEW d \in S
  PROVE  <<a, b, c, d>> \in Seq(S) /\ <<b, c, d>> \in Seq(S) /\ <<d>> \in Seq(S)
  OBVIOUS

LEMMA PacketTypes ==
  ASSUME NEW n \in Peers, adv[n] \in Addresses
  PROVE  /\ Announce(n) \in Seq(Record) /\ SrvAnswer(n) \in Seq(Record)
         /\ TxtAnswer(n) \in Seq(Record) /\ HostAnswer(n) \in Seq(Record)
         /\ Withdrawal(n) \in Seq(Record)
<1>1. Address(n) \in Record /\ \A t \in {"PTR", "SRV", "TXT"} : Entry(t, n) \in Record
  BY RecordTypes DEF Address, Entry
<1>2. Rec("A", n, adv[n], FALSE) \in Record
  BY RecordTypes
<1>3. Rec("SRV", n, None, FALSE) \in Record /\ Rec("TXT", n, None, FALSE) \in Record
  BY RecordTypes
<1>4. Announce(n) \in Seq(Record) /\ SrvAnswer(n) \in Seq(Record)
  BY <1>1, Fours, Zenon DEF Announce, SrvAnswer
<1>5. TxtAnswer(n) \in Seq(Record) /\ HostAnswer(n) \in Seq(Record)
  BY <1>1, Fours, Zenon DEF TxtAnswer, HostAnswer
<1>6. Withdrawal(n) \in Seq(Record)
  BY <1>2, <1>3, Fours, Zenon DEF Withdrawal
<1>7. QED
  BY <1>4, <1>5, <1>6

LEMMA GoodbyeType ==
  ASSUME NEW n \in Peers
  PROVE  Goodbye(n) \in Seq(Record)
<1>1. Rec("PTR", n, None, FALSE) \in Record
  BY RecordTypes
<1>2. QED
  BY <1>1, Fours, Zenon DEF Goodbye

\* Packets that are sent keep the network's type.
LEMMA SentTypes ==
  ASSUME NEW packets, Sent(packets), packets \subseteq Seq(Record), net \subseteq Seq(Record)
  PROVE  net' \subseteq Seq(Record)
  BY DEF Sent

\* The record in the worker's hands names a key, an address record also an
\* address.
LEMMA HeadType ==
  ASSUME TypeOK, NEW type, NEW live, Parsing(type, live)
  PROVE  /\ Key \in Keys
         /\ type = "A" => Head(records).ip \in Addresses
         /\ records' \in Seq(Record)
<1>1. Head(records) \in Record /\ Tail(records) \in Seq(Record)
  BY DEF TypeOK, Parsing
<1>2. QED
  BY <1>1 DEF Record, Parsing, Key, Keys

LEMMA StepKeepsTypes == TypeOK /\ [Next]_vars => TypeOK'
<1> SUFFICES ASSUME TypeOK, [Next]_vars
             PROVE  TypeOK'
  OBVIOUS
<1> DEFINE States == {"idle", "test", "asleep", "late", "found", "failed"}
           a0 == Head(records).ip
<1>0. /\ running \in BOOLEAN
      /\ known \subseteq Keys /\ srv \subseteq known /\ hosts \subseteq Keys
      /\ ips \in [Keys -> SUBSET Addresses] /\ pending \in [Keys -> SUBSET Addresses]
      /\ gone \in [Keys -> SUBSET Addresses]
      /\ askedInst \subseteq Keys /\ askedHost \subseteq Keys
      /\ records \in Seq(Record) /\ net \subseteq Seq(Record)
      /\ resolver \in [Resolvers -> States]
      /\ adv \in [Peers -> Addresses \cup {None}] /\ changes \in [Peers -> 0 .. MaxChanges]
  BY DEF TypeOK
<1> SUFFICES
      /\ running' \in BOOLEAN
      /\ known' \subseteq Keys /\ srv' \subseteq known' /\ hosts' \subseteq Keys
      /\ ips' \in [Keys -> SUBSET Addresses] /\ pending' \in [Keys -> SUBSET Addresses]
      /\ gone' \in [Keys -> SUBSET Addresses]
      /\ askedInst' \subseteq Keys /\ askedHost' \subseteq Keys
      /\ records' \in Seq(Record) /\ net' \subseteq Seq(Record)
      /\ resolver' \in [Resolvers -> States]
      /\ adv' \in [Peers -> Addresses \cup {None}] /\ changes' \in [Peers -> 0 .. MaxChanges]
  BY DEF TypeOK
<1> USE DEF tableVars, askVars, peerVars
<1>a. Notified => resolver' \in [Resolvers -> States]
  BY <1>0 DEF Notified
<1>b. \A n \in Peers : Lower[n] \in Keys
  BY DEF Keys
<1>1. CASE HandlePtr \/ HandleTxt
  BY <1>0, <1>1, <1>a, HeadType DEF HandlePtr, HandleTxt
<1>2. CASE HandleBye
  <2>1. Key \in Keys /\ records' \in Seq(Record)
    BY <1>2, HeadType DEF HandleBye
  <2>2. gone' \in [Keys -> SUBSET Addresses] /\ ips' \in [Keys -> SUBSET Addresses]
    BY <1>0, <1>2, <2>1 DEF HandleBye
  <2>3. QED
    BY <1>0, <1>2, <1>a, <2>1, <2>2 DEF HandleBye
<1>3. CASE HandleSrv
  <2>1. Key \in Keys /\ records' \in Seq(Record)
    BY <1>3, HeadType DEF HandleSrv
  <2>2. ips' \in [Keys -> SUBSET Addresses] /\ pending' \in [Keys -> SUBSET Addresses]
    BY <1>0, <1>3, <2>1 DEF HandleSrv
  <2>3. QED
    BY <1>0, <1>3, <1>a, <2>1, <2>2 DEF HandleSrv
<1>4. CASE ParkAddress \/ DropAddress
  <2>1. Key \in Keys /\ a0 \in Addresses /\ records' \in Seq(Record)
    <3>1. PICK live \in BOOLEAN : Parsing("A", live)
      BY <1>4 DEF ParkAddress, DropAddress
    <3>2. QED
      BY <3>1, HeadType
  <2>2. pending' \in [Keys -> SUBSET Addresses]
    <3>1. CASE ParkAddress
      BY <1>0, <2>1, <3>1 DEF ParkAddress
    <3>2. CASE DropAddress
      BY <1>0, <3>2 DEF DropAddress
    <3>3. QED
      BY <1>4, <3>1, <3>2
  <2>3. QED
    BY <1>0, <1>4, <2>1, <2>2 DEF ParkAddress, DropAddress
<1>5. CASE AddAddress \/ RemoveAddress
  <2>1. Key \in Keys /\ a0 \in Addresses /\ records' \in Seq(Record)
    <3>1. PICK live \in BOOLEAN : Parsing("A", live)
      BY <1>5 DEF AddAddress, RemoveAddress
    <3>2. QED
      BY <3>1, HeadType
  <2>2. ips[Key] \cup {a0} \subseteq Addresses /\ gone[Key] \cup {a0} \subseteq Addresses
    BY <1>0, <2>1
  <2>3. ips' \in [Keys -> SUBSET Addresses] /\ gone' \in [Keys -> SUBSET Addresses]
    <3>1. CASE AddAddress
      BY <1>0, <2>2, <3>1 DEF AddAddress
    <3>2. CASE RemoveAddress
      BY <1>0, <2>2, <3>2 DEF RemoveAddress
    <3>3. QED
      BY <1>5, <3>1, <3>2
  <2>4. /\ Notified
        /\ UNCHANGED <<running, known, srv, hosts, pending, askVars, peerVars, net>>
    BY <1>5 DEF AddAddress, RemoveAddress
  <2>5. QED
    BY <1>0, <1>a, <2>1, <2>3, <2>4
<1>6. CASE AskAll
  <2>1. {Announce(n) : n \in {m \in Peers : On(m)}} \subseteq Seq(Record)
    BY <1>0, PacketTypes DEF On
  <2>2. net' \subseteq Seq(Record)
    BY <1>0, <1>6, <2>1, SentTypes DEF AskAll
  <2>3. QED
    BY <1>0, <1>6, <2>2 DEF AskAll
<1>7. ASSUME NEW n \in Peers, AskInstance(n) \/ AskHost(n) \/ OtherAsks(n)
      PROVE  TypeOK'
  <2>1. On(n) => {SrvAnswer(n), TxtAnswer(n)} \subseteq Seq(Record)
                 /\ {HostAnswer(n)} \subseteq Seq(Record)
    BY <1>0, PacketTypes DEF On
  <2>2. PICK packets \in SUBSET Seq(Record) : Sent(packets)
    BY <1>7, <2>1 DEF AskInstance, AskHost, OtherAsks
  <2>3. net' \subseteq Seq(Record)
    BY <1>0, <2>2, SentTypes
  <2>4. QED
    BY <1>0, <1>7, <1>b, <2>3 DEF AskInstance, AskHost, OtherAsks, TypeOK
<1>8. ASSUME NEW n \in Peers, StopAdvertising(n) \/ Crash(n) PROVE TypeOK'
  <2>1. Changed(n, None)
    BY <1>8 DEF StopAdvertising, Crash
  <2>2. CASE StopAdvertising(n)
    <3>1. PICK packet \in {Goodbye(n), Withdrawal(n)} : Sent({packet})
      BY <2>2 DEF StopAdvertising
    <3>2. {packet} \subseteq Seq(Record)
      BY <1>0, <2>2, <3>1, GoodbyeType, PacketTypes DEF StopAdvertising, On
    <3>3. net' \subseteq Seq(Record)
      BY <1>0, <3>1, <3>2, SentTypes
    <3>4. changes' \in [Peers -> 0 .. MaxChanges]
      BY <1>0, <2>1 DEF Changed
    <3>5. QED
      BY <1>0, <2>1, <3>3, <3>4 DEF Changed, TypeOK
  <2>3. CASE Crash(n)
    <3>1. changes' \in [Peers -> 0 .. MaxChanges]
      BY <1>0, <2>1 DEF Changed
    <3>2. QED
      BY <1>0, <2>1, <2>3, <3>1 DEF Changed, Crash, TypeOK
  <2>4. QED
    BY <1>8, <2>2, <2>3
<1>9. ASSUME NEW n \in Peers, NEW a \in Addresses, Advertise(n, a) PROVE TypeOK'
  <2>1. Changed(n, a) /\ adv'[n] = a
    BY <1>0, <1>9 DEF Advertise, Changed
  <2>2. Announce(n)' \in Seq(Record)
    <3>1. \A t \in {"PTR", "SRV", "TXT"} : Entry(t, n) \in Record
      BY RecordTypes DEF Entry
    <3>2. Rec("A", n, adv'[n], TRUE) \in Record
      BY <2>1, RecordTypes
    <3>3. Announce(n)' = <<Entry("PTR", n), Entry("SRV", n), Entry("TXT", n),
                           Rec("A", n, adv'[n], TRUE)>>
      BY DEF Announce, Address, Entry, Rec
    <3>4. \A d \in Record :
            <<Entry("PTR", n), Entry("SRV", n), Entry("TXT", n), d>> \in Seq(Record)
      BY <3>1, Fours, Zenon
    <3>5. QED
      BY <3>2, <3>3, <3>4, Zenon
  <2>3. net' \subseteq Seq(Record)
    BY <1>0, <1>9, <2>2, SentTypes DEF Advertise
  <2>4. changes' \in [Peers -> 0 .. MaxChanges]
    BY <1>0, <2>1 DEF Changed
  <2>5. QED
    BY <1>0, <2>1, <2>3, <2>4 DEF Changed, TypeOK
<1>10. ASSUME NEW packet \in net, Receive(packet) \/ Lose(packet) PROVE TypeOK'
  BY <1>0, <1>10 DEF Receive, Lose, TypeOK
<1>11. ASSUME NEW r \in Resolvers,
              Resolve(r) \/ Wait(r) \/ GiveUp(r) \/ FindLate(r) \/ Deadline(r)
       PROVE  TypeOK'
  BY <1>0, <1>11 DEF Resolve, Wait, GiveUp, FindLate, Deadline, ResolverAt, TypeOK
<1>12. CASE Close \/ UNCHANGED vars
  BY <1>0, <1>12 DEF Close, vars
<1>13. QED
  BY <1>1, <1>2, <1>3, <1>4, <1>5, <1>6, <1>7, <1>8, <1>9, <1>10, <1>11, <1>12, NextCases
     DEF TypeOK

LEMMA InitTypes == Init => TypeOK
<1> SUFFICES ASSUME Init
             PROVE  TypeOK
  OBVIOUS
<1>1. changes \in [Peers -> 0 .. MaxChanges]
  BY DEF Init
<1>2. records \in Seq(Record) /\ net \subseteq Seq(Record)
  BY DEF Init
<1>3. QED
  BY <1>1, <1>2 DEF Init, TypeOK

\* The tables are keyed by the peers' ids in lower case, and an entry whose
\* port is set exists.
THEOREM TypeCorrect == Spec => []TypeOK
  BY InitTypes, StepKeepsTypes, PTL DEF Spec

\* An id that is not in lower case is never resolved, whoever advertises it.
COROLLARY OnlyLowerCaseFound ==
  Spec => [](\A i \in Ids : Lower[i] # i => ~Resolved(i))
<1>1. TypeOK => \A i \in Ids : Lower[i] # i => ~Resolved(i)
  BY DEF TypeOK, Keys, Resolved
<1>2. QED
  BY <1>1, TypeCorrect, PTL

-----------------------------------------------------------------------------
(* Addresses.                                                              *)

LEMMA StepKeepsParked ==
  ASSUME TypeOK, ParkedForUnknownHostOnly, [Next]_vars
  PROVE  ParkedForUnknownHostOnly'
<1> USE DEF ParkedForUnknownHostOnly, tableVars
<1>0. pending \in [Keys -> SUBSET Addresses] /\ hosts \subseteq Keys
  BY DEF TypeOK
<1>1. CASE HandleSrv
  <2>1. /\ hosts' = hosts \cup {Key}
        /\ pending' = [pending EXCEPT ![Key] = {}]
        /\ Key \in Keys
    BY <1>1, HeadType DEF HandleSrv
  <2>2. QED
    BY <1>0, <2>1
<1>2. CASE ParkAddress
  <2>1. hosts' = hosts /\ \A k \in hosts : pending'[k] = pending[k]
    BY <1>0, <1>2 DEF ParkAddress
  <2>2. QED
    BY <2>1
<1>3. CASE UNCHANGED <<hosts, pending>>
  BY <1>3
<1>4. QED
  BY <1>1, <1>2, <1>3, NextCases
     DEF vars, HandlePtr, HandleBye, HandleTxt, DropAddress, AddAddress, RemoveAddress,
         AskAll, Close, AskInstance, AskHost, OtherAsks,
         StopAdvertising, Crash, Advertise, Changed, Receive, Lose,
         Resolve, Wait, GiveUp, FindLate, Deadline, ResolverAt

\* An address waits only for a host that is not known, in whatever order the
\* records come: the SRV record that makes it known takes all of them over.
THEOREM ParkedCorrect == Spec => []ParkedForUnknownHostOnly
<1>1. Init => ParkedForUnknownHostOnly
  BY DEF Init, ParkedForUnknownHostOnly
<1>2. QED
  BY <1>1, InitTypes, StepKeepsTypes, StepKeepsParked, PTL DEF Spec

\* Before its host is known an entry lists no address, so none has left it.
ListedForKnownHostOnly ==
  \A k \in Keys \ hosts : ips[k] = {} /\ gone[k] = {}

GoneInv ==
  ParkedForUnknownHostOnly /\ ListedForKnownHostOnly /\ GoneUntilHeard

LEMMA StepKeepsGone ==
  ASSUME TypeOK, GoneInv, [Next]_vars
  PROVE  GoneInv'
<1> USE DEF tableVars
<1>0. /\ ips \in [Keys -> SUBSET Addresses] /\ pending \in [Keys -> SUBSET Addresses]
      /\ gone \in [Keys -> SUBSET Addresses]
      /\ \A k \in hosts : pending[k] = {}
      /\ \A k \in Keys \ hosts : ips[k] = {} /\ gone[k] = {}
      /\ \A k \in Keys : ips[k] \cap gone[k] = {}
  BY DEF TypeOK, GoneInv, ParkedForUnknownHostOnly, ListedForKnownHostOnly, GoneUntilHeard
<1>1. ParkedForUnknownHostOnly'
  BY StepKeepsParked DEF GoneInv
<1> SUFFICES /\ \A k \in Keys \ hosts' : ips'[k] = {} /\ gone'[k] = {}
             /\ \A k \in Keys : ips'[k] \cap gone'[k] = {}
  BY <1>1 DEF GoneInv, ListedForKnownHostOnly, GoneUntilHeard
<1>2. CASE HandleSrv
  <2>1. /\ Key \in Keys /\ hosts' = hosts \cup {Key} /\ gone' = gone
        /\ ips' = [ips EXCEPT ![Key] = @ \cup pending[Key]]
    BY <1>2, HeadType DEF HandleSrv
  <2>2. pending[Key] \cap gone[Key] = {}
    BY <1>0, <2>1
  <2>3. QED
    BY <1>0, <2>1, <2>2
<1>3. CASE HandleBye
  <2>1. /\ Key \in Keys /\ hosts' = hosts
        /\ ips' = [ips EXCEPT ![Key] = {}]
        /\ gone' = [gone EXCEPT ![Key] = @ \cup ips[Key]]
    BY <1>3, HeadType DEF HandleBye
  <2>2. QED
    BY <1>0, <2>1
<1>4. CASE AddAddress
  <2>1. /\ Key \in hosts /\ hosts' = hosts
        /\ ips' = [ips EXCEPT ![Key] = @ \cup {Head(records).ip}]
        /\ gone' = [gone EXCEPT ![Key] = @ \ {Head(records).ip}]
    BY <1>4 DEF AddAddress
  <2>2. QED
    BY <1>0, <2>1
<1>5. CASE RemoveAddress
  <2>1. /\ Key \in hosts /\ hosts' = hosts
        /\ ips' = [ips EXCEPT ![Key] = @ \ {Head(records).ip}]
        /\ gone' = [gone EXCEPT ![Key] = @ \cup {Head(records).ip}]
    BY <1>5 DEF RemoveAddress
  <2>2. QED
    BY <1>0, <2>1
<1>6. CASE UNCHANGED <<hosts, ips, gone>>
  BY <1>0, <1>6
<1>7. QED
  BY <1>2, <1>3, <1>4, <1>5, <1>6, NextCases
     DEF vars, HandlePtr, HandleTxt, ParkAddress, DropAddress,
         AskAll, Close, AskInstance, AskHost, OtherAsks,
         StopAdvertising, Crash, Advertise, Changed, Receive, Lose,
         Resolve, Wait, GiveUp, FindLate, Deadline, ResolverAt

\* An address that was withdrawn, or went with its entry, comes back only with
\* a record that says so: what waited for the host was taken over once.
THEOREM GoodbyeCorrect == Spec => []GoneUntilHeard
<1>1. Init => GoneInv
  BY DEF Init, GoneInv, ParkedForUnknownHostOnly, ListedForKnownHostOnly, GoneUntilHeard
<1>2. GoneInv => GoneUntilHeard
  BY DEF GoneInv
<1>3. QED
  BY <1>1, <1>2, InitTypes, StepKeepsTypes, StepKeepsGone, PTL DEF Spec

-----------------------------------------------------------------------------
(* Callers.                                                                *)

LEMMA StepKeepsAwake ==
  ASSUME TypeOK, NoSleepOnResolved, [Next]_vars
  PROVE  NoSleepOnResolved'
<1> USE DEF NoSleepOnResolved, Resolved, tableVars
<1>0. resolver \in [Resolvers -> {"idle", "test", "asleep", "late", "found", "failed"}]
  BY DEF TypeOK
<1>1. CASE Notified
  BY <1>0, <1>1 DEF Notified
<1>2. ASSUME NEW r \in Resolvers,
             Resolve(r) \/ Wait(r) \/ GiveUp(r) \/ FindLate(r) \/ Deadline(r)
      PROVE  NoSleepOnResolved'
  BY <1>0, <1>2 DEF Resolve, Wait, GiveUp, FindLate, Deadline, ResolverAt
<1>3. CASE UNCHANGED <<srv, ips, resolver>>
  BY <1>3
<1>4. QED
  BY <1>1, <1>2, <1>3, NextCases
     DEF vars, HandlePtr, HandleBye, HandleSrv, HandleTxt, ParkAddress, DropAddress,
         AddAddress, RemoveAddress, AskAll, Close, AskInstance, AskHost,
         OtherAsks, StopAdvertising, Crash, Advertise, Changed, Receive, Lose

\* Nobody sleeps in resolve_node() on a node that is resolved: whichever
\* record completes an entry wakes every caller.
THEOREM CallersWoken == Spec => []NoSleepOnResolved
<1>1. Init => NoSleepOnResolved
  BY DEF Init, NoSleepOnResolved
<1>2. QED
  BY <1>1, InitTypes, StepKeepsTypes, StepKeepsAwake, PTL DEF Spec
=============================================================================

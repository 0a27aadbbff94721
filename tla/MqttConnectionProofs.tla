------------------------ MODULE MqttConnectionProofs ------------------------
(***************************************************************************)
(* Theorems about the subscriptions of an MqttConnection, for any number   *)
(* of filters, registrations and threads, and any loss of the connection.  *)
(***************************************************************************)
EXTENDS MqttConnection, TLAPS

USE HandleAssumption, CameUpAssumption, BoundAssumption

\* The registrations for one filter are made and removed by one thread: what
\* the code needs (MqttConnection_shared shows what happens otherwise).
OneOwnerPerFilter ==
  \A g, h \in Handles : FilterOf[g] = FilterOf[h] => Owner[g] = Owner[h]

\* A connection has come up that the network thread has not seen.
ComingUp == \E i \in DOMAIN arriving : arriving[i] = CameUp

\* The table holds registrations of its own filters; a registration that is
\* about to unsubscribe has left nobody behind.
TableInv ==
  /\ \A f \in Filters : \A h \in table[f] : FilterOf[h] = f
  /\ \A h \in Handles : phase[h] = "last" => table[FilterOf[h]] = {}

\* The broker knows f, or somebody is going to tell it.
Covered(f) ==
  \/ f \in broker \/ f \in toSubscribe \/ ComingUp
  \/ \E h \in Handles : FilterOf[h] = f /\ phase[h] = "first"

CoveredInv == \A f \in Filters : connected /\ table[f] # {} => Covered(f)

\* The steps of Next, one disjunct per action.
LEMMA NextCases ==
  ASSUME Next
  PROVE  \/ \E h \in Handles : Insert(h) \/ Subscribe(h) \/ Erase(h) \/ Unsubscribe(h)
         \/ Up \/ Down \/ \E t \in Topics : BrokerDelivers(t)
         \/ OnConnected \/ OnMessage \/ Return
         \/ \E f \in Filters : Resubscribe(f)
         \/ \E h \in Handles : CallBack(h)
  BY DEF Next, Network

-----------------------------------------------------------------------------
(* Types.                                                                  *)

LEMMA StepKeepsTypes == TypeOK /\ [Next]_vars => TypeOK'
<1> SUFFICES ASSUME TypeOK, [Next]_vars
             PROVE  TypeOK'
  OBVIOUS
<1> USE DEF TypeOK, linkVars, networkVars, Reach
<1>1. ASSUME NEW h \in Handles, Insert(h) PROVE TypeOK'
  BY <1>1 DEF Insert
<1>2. ASSUME NEW h \in Handles, Subscribe(h) PROVE TypeOK'
  BY <1>2 DEF Subscribe
<1>3. ASSUME NEW h \in Handles, Erase(h) PROVE TypeOK'
  BY <1>3 DEF Erase
<1>4. ASSUME NEW h \in Handles, Unsubscribe(h) PROVE TypeOK'
  BY <1>4 DEF Unsubscribe
<1>5. CASE Up
  BY <1>5 DEF Up
<1>6. CASE Down
  <2>1. drops' \in 0 .. MaxDrops
    BY <1>6 DEF Down
  <2>2. QED
    BY <1>6, <2>1 DEF Down
<1>7. ASSUME NEW t \in Topics, BrokerDelivers(t) PROVE TypeOK'
  BY <1>7 DEF BrokerDelivers
<1>8. CASE OnConnected
  BY <1>8 DEF OnConnected, Reports, InTable
<1>9. CASE OnMessage
  <2>1. toCall' \subseteq Handles
    BY <1>9 DEF OnMessage, InTable
  <2>2. QED
    BY <1>9, <2>1 DEF OnMessage, Reports
<1>10. CASE Return
  BY <1>10 DEF Return
<1>11. ASSUME NEW f \in Filters, Resubscribe(f) PROVE TypeOK'
  BY <1>11 DEF Resubscribe
<1>12. ASSUME NEW h \in Handles, CallBack(h) PROVE TypeOK'
  BY <1>12 DEF CallBack
<1>13. CASE UNCHANGED vars
  BY <1>13 DEF vars
<1>14. QED
  BY <1>1, <1>2, <1>3, <1>4, <1>5, <1>6, <1>7, <1>8, <1>9, <1>10, <1>11, <1>12,
     <1>13, NextCases

LEMMA InitTypes == Init => TypeOK
<1> SUFFICES ASSUME Init
             PROVE  TypeOK
  OBVIOUS
<1>1. drops \in 0 .. MaxDrops
  BY DEF Init
<1>2. arriving \in Seq(Topics \cup {CameUp})
  BY DEF Init
<1>3. QED
  BY <1>1, <1>2 DEF Init, TypeOK

\* The table keeps callbacks by filter, the copies hold callbacks and filters.
THEOREM TypeCorrect == Spec => []TypeOK
  BY InitTypes, StepKeepsTypes, PTL DEF Spec

-----------------------------------------------------------------------------
(* The table.                                                              *)

LEMMA StepKeepsTable ==
  ASSUME OneOwnerPerFilter, TypeOK, TableInv, [Next]_vars
  PROVE  TableInv'
<1> USE DEF TableInv, TypeOK, linkVars, networkVars, Reach
<1>1. ASSUME NEW h \in Handles, Insert(h) PROVE TableInv'
  <2>1. \A g \in Handles : FilterOf[g] = FilterOf[h] => phase[g] # "last"
    BY <1>1 DEF Insert, Busy, OneOwnerPerFilter
  <2>2. phase'[h] # "last" /\ \A g \in Handles \ {h} : phase'[g] = phase[g]
    BY <1>1 DEF Insert
  <2>3. \A f \in Filters : IF f = FilterOf[h] THEN \A g \in table'[f] : g \in table[f] \/ g = h
                                             ELSE table'[f] = table[f]
    BY <1>1 DEF Insert
  <2>4. ASSUME NEW g \in Handles, phase'[g] = "last" PROVE table'[FilterOf[g]] = {}
    <3>1. g # h /\ phase[g] = "last" /\ FilterOf[g] # FilterOf[h] /\ FilterOf[g] \in Filters
      BY <2>1, <2>2, <2>4
    <3>2. QED
      BY <2>3, <3>1
  <2>5. \A f \in Filters : \A g \in table'[f] : FilterOf[g] = f
    BY <2>3
  <2>6. QED
    BY <2>4, <2>5
<1>2. ASSUME NEW h \in Handles, Erase(h) PROVE TableInv'
  <2>1. phase'[h] = "last" => table[FilterOf[h]] = {h}
    BY <1>2 DEF Erase
  <2>2. \A g \in Handles \ {h} : phase'[g] = phase[g]
    BY <1>2 DEF Erase
  <2>3. \A f \in Filters : table'[f] = IF f = FilterOf[h] THEN table[f] \ {h} ELSE table[f]
    BY <1>2 DEF Erase
  <2>4. QED
    BY <2>1, <2>2, <2>3
<1>3. ASSUME NEW h \in Handles, Subscribe(h) \/ Unsubscribe(h) PROVE TableInv'
  BY <1>3 DEF Subscribe, Unsubscribe
<1>4. CASE UNCHANGED <<table, phase>>
  BY <1>4
<1>5. QED
  BY <1>1, <1>2, <1>3, <1>4, NextCases
     DEF vars, Up, Down, BrokerDelivers, OnConnected, OnMessage, Return, Resubscribe, CallBack

-----------------------------------------------------------------------------
(* The subscriptions.                                                      *)

\* What the network thread has not seen stays unseen until it is reported.
LEMMA MessageKeepsComingUp ==
  ASSUME TypeOK, NEW e \in Topics \cup {CameUp}, arriving' = Append(arriving, e)
  PROVE  /\ ComingUp => ComingUp'
         /\ e = CameUp => ComingUp'
<1>1. /\ DOMAIN arriving = 1 .. Len(arriving) /\ Len(arriving) \in Nat
      /\ DOMAIN arriving' = 1 .. Len(arriving) + 1
      /\ \A i \in 1 .. Len(arriving) : arriving'[i] = arriving[i]
      /\ arriving'[Len(arriving) + 1] = e
  BY DEF TypeOK
<1>2. QED
  BY <1>1 DEF ComingUp

LEMMA ReportKeepsComingUp ==
  ASSUME TypeOK, ComingUp, Reports(Topics)
  PROVE  ComingUp'
<1>1. PICK i \in DOMAIN arriving : arriving[i] = CameUp
  BY DEF ComingUp
<1>2. arriving # <<>> /\ Head(arriving) # CameUp /\ arriving' = Tail(arriving)
  BY DEF Reports
<1>3. i # 1 /\ i \in 1 .. Len(arriving) /\ Len(arriving) \in Nat
  BY <1>1, <1>2 DEF TypeOK
<1>4. i - 1 \in DOMAIN arriving' /\ arriving'[i - 1] = arriving[i]
  BY <1>2, <1>3 DEF TypeOK
<1>5. QED
  BY <1>1, <1>4 DEF ComingUp

LEMMA StepKeepsCovered ==
  ASSUME TypeOK, TableInv, CoveredInv, [Next]_vars
  PROVE  CoveredInv'
<1> SUFFICES ASSUME NEW f \in Filters, connected', table'[f] # {}
             PROVE  Covered(f)'
  BY DEF CoveredInv
<1>0. connected /\ table[f] # {} => Covered(f)
  BY DEF CoveredInv
<1> USE DEF TypeOK, Covered, linkVars, networkVars, Reach
<1>1. ASSUME NEW h \in Handles, Insert(h) PROVE Covered(f)'
  <2>1. /\ connected /\ UNCHANGED <<broker, toSubscribe, arriving>>
        /\ phase[h] = "new" /\ \A g \in Handles \ {h} : phase'[g] = phase[g]
    BY <1>1 DEF Insert
  <2>2. CASE table[f] # {}
    BY <1>0, <2>1, <2>2 DEF ComingUp
  <2>3. CASE table[f] = {}
    <3>1. f = FilterOf[h] /\ phase'[h] = "first"
      BY <1>1, <2>3 DEF Insert
    <3>2. QED
      BY <3>1
  <2>4. QED
    BY <2>2, <2>3
<1>2. ASSUME NEW h \in Handles, Subscribe(h) PROVE Covered(f)'
  <2>1. /\ connected /\ UNCHANGED <<table, toSubscribe, arriving>>
        /\ broker' = broker \cup {FilterOf[h]}
        /\ \A g \in Handles \ {h} : phase'[g] = phase[g]
    BY <1>2 DEF Subscribe
  <2>2. QED
    BY <1>0, <2>1 DEF ComingUp
<1>3. ASSUME NEW h \in Handles, Erase(h) PROVE Covered(f)'
  <2>1. /\ connected /\ UNCHANGED <<broker, toSubscribe, arriving>>
        /\ phase[h] = "added" /\ \A g \in Handles \ {h} : phase'[g] = phase[g]
        /\ table'[f] \subseteq table[f]
    BY <1>3 DEF Erase
  <2>2. QED
    BY <1>0, <2>1 DEF ComingUp
<1>4. ASSUME NEW h \in Handles, Unsubscribe(h) PROVE Covered(f)'
  <2>1. /\ connected /\ UNCHANGED <<table, toSubscribe, arriving>>
        /\ broker' = broker \ {FilterOf[h]} /\ phase[h] = "last"
        /\ \A g \in Handles \ {h} : phase'[g] = phase[g]
    BY <1>4 DEF Unsubscribe
  <2>2. f # FilterOf[h]
    BY <2>1 DEF TableInv
  <2>3. QED
    BY <1>0, <2>1, <2>2 DEF ComingUp
<1>5. CASE Up
  BY <1>5, MessageKeepsComingUp DEF Up
<1>6. CASE Down
  BY <1>6 DEF Down
<1>7. ASSUME NEW t \in Topics, BrokerDelivers(t) PROVE Covered(f)'
  <2>1. ComingUp => ComingUp'
    BY <1>7, MessageKeepsComingUp DEF BrokerDelivers
  <2>2. QED
    BY <1>0, <1>7, <2>1 DEF BrokerDelivers
<1>8. CASE OnConnected
  BY <1>8 DEF OnConnected, Reports, InTable
<1>9. CASE OnMessage
  <2>1. ComingUp => ComingUp'
    BY <1>9, ReportKeepsComingUp DEF OnMessage
  <2>2. QED
    BY <1>0, <1>9, <2>1 DEF OnMessage
<1>10. CASE Return \/ UNCHANGED vars
  BY <1>0, <1>10 DEF Return, vars, ComingUp
<1>11. ASSUME NEW g \in Filters, Resubscribe(g) PROVE Covered(f)'
  BY <1>0, <1>11 DEF Resubscribe, ComingUp
<1>12. ASSUME NEW h \in Handles, CallBack(h) PROVE Covered(f)'
  BY <1>0, <1>12 DEF CallBack, ComingUp
<1>13. QED
  BY <1>1, <1>2, <1>3, <1>4, <1>5, <1>6, <1>7, <1>8, <1>9, <1>10, <1>11, <1>12,
     NextCases

\* A filter that has one owner is never left without its subscription: once
\* nobody is about to talk to the broker about it, the broker knows it.
THEOREM SubscriptionsAgree ==
  ASSUME OneOwnerPerFilter
  PROVE  Spec => []SubscribedWhenQuiet
<1> DEFINE IInv == TypeOK /\ TableInv /\ CoveredInv
<1>1. Init => IInv
  BY InitTypes DEF Init, TableInv, CoveredInv
<1>2. IInv /\ [Next]_vars => IInv'
  BY StepKeepsTypes, StepKeepsTable, StepKeepsCovered
<1>3. IInv => SubscribedWhenQuiet
  BY DEF CoveredInv, Covered, ComingUp, SubscribedWhenQuiet, Quiet
<1>4. QED
  BY <1>1, <1>2, <1>3, PTL DEF Spec

=============================================================================

--------------------------- MODULE MqttConnection ---------------------------
(***************************************************************************)
(* magpie::MqttConnection: one broker connection shared by readers,        *)
(* requesters and responders.  The callbacks they register are kept in a   *)
(* table by topic filter; the first callback of a filter subscribes, the   *)
(* last one to go unsubscribes, both after the table's mutex is released.  *)
(* The client library's network thread subscribes again to every filter in *)
(* the table whenever a connection comes up, and hands out the messages.   *)
(*                                                                         *)
(* A handle stands for one registration, made and removed once.  A request *)
(* to the broker is one step: it takes effect, or fails as the connection  *)
(* is down (the code logs the failure and goes on; so it does when the     *)
(* broker's answer takes longer than the five seconds it waits).           *)
(***************************************************************************)
EXTENDS MqttTopics, FiniteSets

CONSTANTS
  Filters, Topics,  \* character sequences: filters used, topics published to
  Handles,          \* registrations
  FilterOf,         \* the filter of each
  Threads, Owner,   \* the thread that adds and removes each
  MaxDrops,         \* bound: how often the connection is lost
  MaxArriving,      \* bound: messages received and not yet handed out
  CameUp            \* stands for a new connection

ASSUME HandleAssumption ==
  FilterOf \in [Handles -> Filters] /\ Owner \in [Handles -> Threads]
ASSUME FilterAssumption == \A f \in Filters : ValidFilter(f)
ASSUME CameUpAssumption == CameUp \notin Topics
ASSUME BoundAssumption == MaxDrops \in Nat /\ MaxArriving \in Nat

VARIABLES
  table,       \* subscriptions: filter -> callbacks
  phase,       \* how far each registration is
  cleanStart,  \* options.session.cleanStart
  connected,   \* client->is_connected()
  drops,
  broker,      \* the filters the broker has for this session
  network,     \* where its thread is: "idle", "resubscribing" or "calling"
  toSubscribe, toCall,   \* the local copies it works from
  topic,       \* of the message it is handing out
  arriving     \* what it is to report next: a connection, or a message's topic

linkVars == <<connected, drops>>
networkVars == <<network, toSubscribe, toCall, topic>>
vars == <<table, phase, cleanStart, linkVars, broker, networkVars, arriving>>

Init ==
  /\ table = [f \in Filters |-> {}]
  /\ phase = [h \in Handles |-> "new"]
  /\ cleanStart \in BOOLEAN
  /\ connected = FALSE /\ drops = 0
  /\ broker = {}
  /\ network = "idle" /\ toSubscribe = {} /\ toCall = {}
  /\ topic = <<>>
  /\ arriving = <<>>

(***************************************************************************)
(* addSubscription() and removeSubscription()                              *)
(***************************************************************************)

\* A thread makes one call at a time.
Busy(t) == \E h \in Handles : Owner[h] = t /\ phase[h] \in {"first", "last"}

Reach(h, from, to) ==
  /\ phase[h] = from
  /\ phase' = [phase EXCEPT ![h] = to]

Insert(h) ==
  LET f == FilterOf[h]
  IN  /\ ~Busy(Owner[h])
      /\ Reach(h, "new", IF table[f] = {} THEN "first" ELSE "added")
      /\ table' = [table EXCEPT ![f] = @ \cup {h}]
      /\ UNCHANGED <<cleanStart, linkVars, broker, networkVars, arriving>>

\* Nothing is sent while the connection is down.
Subscribe(h) ==
  /\ Reach(h, "first", "added")
  /\ broker' = IF connected THEN broker \cup {FilterOf[h]} ELSE broker
  /\ UNCHANGED <<table, cleanStart, linkVars, networkVars, arriving>>

\* Mutant of Erase: whoever goes first unsubscribes for all.
EraseAndUnsubscribe(h) ==
  /\ ~Busy(Owner[h])
  /\ Reach(h, "added", "last")
  /\ table' = [table EXCEPT ![FilterOf[h]] = @ \ {h}]
  /\ UNCHANGED <<cleanStart, linkVars, broker, networkVars, arriving>>

Erase(h) ==
  LET f == FilterOf[h]
  IN  /\ ~Busy(Owner[h])
      /\ Reach(h, "added", IF table[f] = {h} THEN "last" ELSE "gone")
      /\ table' = [table EXCEPT ![f] = @ \ {h}]
      /\ UNCHANGED <<cleanStart, linkVars, broker, networkVars, arriving>>

Unsubscribe(h) ==
  /\ Reach(h, "last", "gone")
  /\ broker' = IF connected THEN broker \ {FilterOf[h]} ELSE broker
  /\ UNCHANGED <<table, cleanStart, linkVars, networkVars, arriving>>

(***************************************************************************)
(* The connection: connect(), disconnect() and the library's reconnection. *)
(* A broker forgets the subscriptions of a session that starts clean.      *)
(***************************************************************************)

Up ==
  /\ ~connected
  /\ connected' = TRUE
  /\ arriving' = Append(arriving, CameUp)
  /\ broker' = IF cleanStart THEN {} ELSE broker
  /\ UNCHANGED <<table, phase, cleanStart, drops, networkVars>>

Down ==
  /\ connected /\ drops < MaxDrops
  /\ connected' = FALSE
  /\ drops' = drops + 1
  /\ UNCHANGED <<table, phase, cleanStart, broker, networkVars, arriving>>

\* The broker sends this client what some subscription of the session accepts.
BrokerDelivers(t) ==
  /\ connected /\ Len(SelectSeq(arriving, LAMBDA e : e # CameUp)) < MaxArriving
  /\ \E f \in broker : Accepts(f, t)
  /\ arriving' = Append(arriving, t)
  /\ UNCHANGED <<table, phase, cleanStart, linkVars, broker, networkVars>>

(***************************************************************************)
(* The network thread                                                      *)
(***************************************************************************)

\* Everything is reported in the order it happened.
Reports(kind) ==
  /\ network = "idle" /\ arriving # <<>> /\ Head(arriving) \in kind
  /\ arriving' = Tail(arriving)

InTable == {f \in Filters : table[f] # {}}

\* Mutant of OnConnected: only the first connection subscribes.
OnFirstConnected ==
  /\ Reports({CameUp})
  /\ network' = "resubscribing"
  /\ toSubscribe' = IF drops = 0 THEN InTable ELSE {}
  /\ UNCHANGED <<table, phase, cleanStart, linkVars, broker, toCall, topic>>

\* onConnected(): the filters are copied under the mutex.
OnConnected ==
  /\ Reports({CameUp})
  /\ network' = "resubscribing"
  /\ toSubscribe' = InTable
  /\ UNCHANGED <<table, phase, cleanStart, linkVars, broker, toCall, topic>>

Resubscribe(f) ==
  /\ network = "resubscribing" /\ f \in toSubscribe
  /\ toSubscribe' = toSubscribe \ {f}
  /\ broker' = IF connected THEN broker \cup {f} ELSE broker
  /\ UNCHANGED <<table, phase, cleanStart, linkVars, network, toCall, topic, arriving>>

\* onMessage(): the callbacks are copied under the mutex, and called without.
OnMessage ==
  /\ Reports(Topics)
  /\ topic' = Head(arriving)
  /\ network' = "calling"
  /\ toCall' = UNION {table[f] : f \in {g \in InTable : TopicMatches(g, topic')}}
  /\ UNCHANGED <<table, phase, cleanStart, linkVars, broker, toSubscribe>>

CallBack(h) ==
  /\ network = "calling" /\ h \in toCall
  /\ toCall' = toCall \ {h}
  /\ UNCHANGED <<table, phase, cleanStart, linkVars, broker, network, toSubscribe, topic, arriving>>

Return ==
  /\ \/ network = "resubscribing" /\ toSubscribe = {}
     \/ network = "calling" /\ toCall = {}
  /\ network' = "idle"
  /\ topic' = <<>>
  /\ UNCHANGED <<table, phase, cleanStart, linkVars, broker, toSubscribe, toCall, arriving>>

(***************************************************************************)
(* Specification                                                           *)
(***************************************************************************)

Network ==
  \/ OnConnected \/ OnMessage \/ Return
  \/ \E f \in Filters : Resubscribe(f)
  \/ \E h \in Handles : CallBack(h)

Next ==
  \/ \E h \in Handles : Insert(h) \/ Subscribe(h) \/ Erase(h) \/ Unsubscribe(h)
  \/ Up \/ Down \/ \E t \in Topics : BrokerDelivers(t)
  \/ Network

Spec == Init /\ [][Next]_vars

\* Threads run, and callbacks return; nobody owes a connection, a message, a
\* registration or its removal.
Fairness ==
  /\ WF_vars(Network)
  /\ \A h \in Handles : WF_vars(Subscribe(h) \/ Unsubscribe(h))

FairSpec == Spec /\ Fairness

(***************************************************************************)
(* Properties                                                              *)
(***************************************************************************)

TypeOK ==
  /\ table \in [Filters -> SUBSET Handles]
  /\ phase \in [Handles -> {"new", "first", "added", "last", "gone"}]
  /\ cleanStart \in BOOLEAN /\ connected \in BOOLEAN
  /\ drops \in 0 .. MaxDrops
  /\ broker \subseteq Filters /\ toSubscribe \subseteq Filters
  /\ network \in {"idle", "resubscribing", "calling"}
  /\ toCall \subseteq Handles
  /\ topic \in Topics \cup {<<>>} /\ arriving \in Seq(Topics \cup {CameUp})

\* Nobody is about to talk to the broker about f.
Quiet(f) ==
  /\ toSubscribe = {} /\ \A i \in DOMAIN arriving : arriving[i] # CameUp
  /\ \A h \in Handles : FilterOf[h] = f => phase[h] \notin {"first", "last"}

\* Once the calls about a filter are over and the connection is up, the broker
\* knows every filter somebody is registered for: no unsubscribe, reconnection
\* or snapshot of the table has taken a registered filter away.
SubscribedWhenQuiet ==
  \A f \in Filters : connected /\ Quiet(f) /\ table[f] # {} => f \in broker

\* A registration that stays is subscribed for good once the connection stays.
RegisteredIsSubscribed ==
  \A f \in Filters : <>[](connected /\ table[f] # {}) => <>[](f \in broker)

=============================================================================

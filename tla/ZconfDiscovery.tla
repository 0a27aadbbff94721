--------------------------- MODULE ZconfDiscovery ---------------------------
(***************************************************************************)
(* ZconfDiscovery: the tables one process builds from the mDNS records it  *)
(* hears, the callers of resolve_node() that wait on them, and the peers   *)
(* (the same code, advertising, or another mDNS responder that withdraws   *)
(* more than its PTR record) whose packets the network may lose and        *)
(* reorder.  Peers leave with a goodbye or crash, and come back at another *)
(* address.                                                                *)
(*                                                                         *)
(* A peer is known by the id it advertises under, from which advertise()   *)
(* makes its instance and its host name.  The tables are keyed by that id  *)
(* in lower case (node_id_from_instance(), norm_host()), while             *)
(* resolve_node() looks up the very id it is given.  An address stands for *)
(* an A or an AAAA record, which handle_record() treats alike, and the     *)
(* order in which an entry lists them is not kept.  Every record of a      *)
(* packet is handled under mtx_ by itself.  Expiry only filters what       *)
(* list_nodes() shows, which reads the tables and changes nothing.         *)
(***************************************************************************)
EXTENDS Naturals, FiniteSets, Sequences

CONSTANTS
  Ids,          \* node ids, in whatever case
  Lower,        \* to_lower()
  Peers,        \* the ids the peers advertise under
  Addresses,    \* addresses a peer may have
  Resolvers,    \* threads that call resolve_node()
  Target,       \* the id each of them asks for
  MaxChanges,   \* bound: how often each peer comes and goes
  MaxUnderWay   \* bound: packets under way, one of each peer at the least

ASSUME LowerAssumption == Lower \in [Ids -> Ids] /\ \A i \in Ids : Lower[Lower[i]] = Lower[i]
\* No two peers share an id, whatever its case.
ASSUME PeersAssumption ==
  Peers \subseteq Ids /\ \A m, n \in Peers : Lower[m] = Lower[n] => m = n
ASSUME TargetAssumption == Target \in [Resolvers -> Ids]
ASSUME BoundAssumption == MaxChanges \in Nat /\ MaxUnderWay \in Nat

VARIABLES
  running,     \* running_
  known,       \* nodes_: the keys that have an entry
  srv,         \* entries whose port and host are set
  ips,         \* entry -> its addresses
  hosts,       \* host_to_node_: the keys whose host is mapped
  pending,     \* pending_ips_by_host_
  askedInst, askedHost,   \* queried_instance_, queried_host_
  records,     \* the rest of the packet the worker is parsing
  resolver,    \* where each resolve_node() is
  adv,         \* the address each peer advertises, or None
  changes,     \* how often each peer has come or gone
  net,         \* packets under way
  gone         \* history: the addresses that left an entry, withdrawn or with the
               \* whole entry, and that were not heard of since

tableVars == <<known, srv, ips, hosts, pending>>
askVars == <<askedInst, askedHost>>
peerVars == <<adv, changes>>
vars == <<running, tableVars, askVars, records, resolver, peerVars, net, gone>>

None == "none"

Keys == {Lower[n] : n \in Peers}

Init ==
  /\ running = TRUE
  /\ known = {} /\ srv = {} /\ hosts = {}
  /\ ips = [k \in Keys |-> {}]
  /\ pending = [k \in Keys |-> {}]
  /\ askedInst = {} /\ askedHost = {}
  /\ records = <<>>
  /\ resolver = [r \in Resolvers |-> "idle"]
  /\ adv = [n \in Peers |-> None]
  /\ changes = [n \in Peers |-> 0]
  /\ net = {}
  /\ gone = [k \in Keys |-> {}]

\* A record about peer n; one that is not live has ttl 0.
Rec(type, n, a, live) == [type |-> type, node |-> n, ip |-> a, live |-> live]

Entry(type, n) == Rec(type, n, None, TRUE)

Address(n) == Rec("A", n, adv[n], TRUE)

\* The packets of a peer: every answer carries SRV, TXT and addresses as well.
Announce(n) == <<Entry("PTR", n), Entry("SRV", n), Entry("TXT", n), Address(n)>>
SrvAnswer(n) == <<Entry("SRV", n), Entry("SRV", n), Entry("TXT", n), Address(n)>>
TxtAnswer(n) == <<Entry("TXT", n), Entry("SRV", n), Entry("TXT", n), Address(n)>>
HostAnswer(n) == <<Address(n), Entry("SRV", n), Entry("TXT", n), Address(n)>>

\* This code withdraws its PTR record only, other responders the rest too.
Goodbye(n) == <<Rec("PTR", n, None, FALSE)>>
Withdrawal(n) ==
  <<Rec("A", n, adv[n], FALSE), Rec("SRV", n, None, FALSE), Rec("TXT", n, None, FALSE)>>

On(n) == adv[n] # None

(***************************************************************************)
(* handle_record(): one record, under mtx_                                 *)
(***************************************************************************)

\* notify_all() on cv_
Notified ==
  resolver' = [r \in Resolvers |-> IF resolver[r] = "asleep" THEN "test" ELSE resolver[r]]

\* The worker takes the next record, which is of the given type.
Parsing(type, live) ==
  /\ running /\ records # <<>>
  /\ Head(records).type = type /\ Head(records).live = live
  /\ records' = Tail(records)

\* The key the record is filed under.
Key == Lower[Head(records).node]

\* A new entry starts empty; an entry that is there keeps what it has.
HandlePtr ==
  /\ Parsing("PTR", TRUE)
  /\ known' = known \cup {Key} /\ askedInst' = askedInst \ {Key}
  /\ Notified
  /\ UNCHANGED <<running, srv, ips, hosts, pending, askedHost, peerVars, net, gone>>

\* A PTR, an SRV or a TXT record with ttl 0 erases the entry.  The host stays
\* mapped, and the addresses that wait for a host that is not stay as well.
HandleBye ==
  /\ \E type \in {"PTR", "SRV", "TXT"} : Parsing(type, FALSE)
  /\ known' = known \ {Key} /\ srv' = srv \ {Key}
  /\ ips' = [ips EXCEPT ![Key] = {}]
  /\ gone' = [gone EXCEPT ![Key] = @ \cup ips[Key]]
  /\ Notified
  /\ UNCHANGED <<running, hosts, pending, askVars, peerVars, net>>

\* Mutant of HandleSrv: the addresses that waited stay where they are.
HandleSrvForgetsPending ==
  /\ Parsing("SRV", TRUE)
  /\ known' = known \cup {Key} /\ srv' = srv \cup {Key} /\ hosts' = hosts \cup {Key}
  /\ askedHost' = askedHost \ {Key}
  /\ Notified
  /\ UNCHANGED <<running, ips, pending, askedInst, peerVars, net, gone>>

\* Mutant of HandleSrv: the addresses that waited are taken over and wait on.
HandleSrvKeepsPending ==
  /\ Parsing("SRV", TRUE)
  /\ known' = known \cup {Key} /\ srv' = srv \cup {Key} /\ hosts' = hosts \cup {Key}
  /\ ips' = [ips EXCEPT ![Key] = @ \cup pending[Key]]
  /\ askedHost' = askedHost \ {Key}
  /\ Notified
  /\ UNCHANGED <<running, pending, askedInst, peerVars, net, gone>>

\* The addresses that came before the host was known are taken over.
HandleSrv ==
  /\ Parsing("SRV", TRUE)
  /\ known' = known \cup {Key} /\ srv' = srv \cup {Key} /\ hosts' = hosts \cup {Key}
  /\ ips' = [ips EXCEPT ![Key] = @ \cup pending[Key]]
  /\ pending' = [pending EXCEPT ![Key] = {}]
  /\ askedHost' = askedHost \ {Key}
  /\ Notified
  /\ UNCHANGED <<running, askedInst, peerVars, net, gone>>

HandleTxt ==
  /\ Parsing("TXT", TRUE)
  /\ known' = known \cup {Key}
  /\ Notified
  /\ UNCHANGED <<running, srv, ips, hosts, pending, askVars, peerVars, net, gone>>

\* Whatever its ttl, an address waits for its host while that is not known,
\* and is dropped where the host is mapped to an entry that is gone.
ParkAddress ==
  /\ \E live \in BOOLEAN : Parsing("A", live)
  /\ Key \notin hosts
  /\ pending' = [pending EXCEPT ![Key] = @ \cup {Head(records).ip}]
  /\ UNCHANGED <<running, known, srv, hosts, ips, resolver, askVars, peerVars, net, gone>>

DropAddress ==
  /\ \E live \in BOOLEAN : Parsing("A", live)
  /\ Key \in hosts \ known
  /\ UNCHANGED <<running, tableVars, resolver, askVars, peerVars, net, gone>>

\* Mutant of AddAddress: a waiting resolve_node() is not woken.
AddAddressSilently ==
  /\ Parsing("A", TRUE) /\ Key \in hosts \cap known
  /\ ips' = [ips EXCEPT ![Key] = @ \cup {Head(records).ip}]
  /\ gone' = [gone EXCEPT ![Key] = @ \ {Head(records).ip}]
  /\ UNCHANGED <<running, known, srv, hosts, pending, resolver, askVars, peerVars, net>>

AddAddress ==
  /\ Parsing("A", TRUE) /\ Key \in hosts \cap known
  /\ ips' = [ips EXCEPT ![Key] = @ \cup {Head(records).ip}]
  /\ gone' = [gone EXCEPT ![Key] = @ \ {Head(records).ip}]
  /\ Notified
  /\ UNCHANGED <<running, known, srv, hosts, pending, askVars, peerVars, net>>

\* An address with ttl 0 leaves the entry.
RemoveAddress ==
  /\ Parsing("A", FALSE) /\ Key \in hosts \cap known
  /\ ips' = [ips EXCEPT ![Key] = @ \ {Head(records).ip}]
  /\ gone' = [gone EXCEPT ![Key] = @ \cup {Head(records).ip}]
  /\ Notified
  /\ UNCHANGED <<running, known, srv, hosts, pending, askVars, peerVars, net>>

(***************************************************************************)
(* thread_main() and the network                                           *)
(***************************************************************************)

\* Bound: what would be too much at once pushes something out.
Sent(packets) ==
  \E rest \in SUBSET net :
    /\ Cardinality(rest \cup packets) <= MaxUnderWay
    /\ net' = rest \cup packets

\* Mutant of AskAll: only while some peer that advertises is unknown.
AskAllUnknown ==
  /\ running /\ records = <<>>
  /\ Sent({Announce(n) : n \in {m \in Peers : On(m) /\ Lower[m] \notin known}})
  /\ UNCHANGED <<running, tableVars, askVars, records, resolver, peerVars, gone>>

AskAll ==
  /\ running /\ records = <<>>
  /\ Sent({Announce(n) : n \in {m \in Peers : On(m)}})
  /\ UNCHANGED <<running, tableVars, askVars, records, resolver, peerVars, gone>>

\* An instance and a host are asked for once, until a PTR or an SRV record
\* of theirs is heard.
AskInstance(n) ==
  /\ running /\ records = <<>> /\ Lower[n] \in known \ askedInst
  /\ askedInst' = askedInst \cup {Lower[n]}
  /\ Sent(IF On(n) THEN {SrvAnswer(n), TxtAnswer(n)} ELSE {})
  /\ UNCHANGED <<running, tableVars, askedHost, records, resolver, peerVars, gone>>

AskHost(n) ==
  /\ running /\ records = <<>> /\ Lower[n] \in srv \ askedHost
  /\ askedHost' = askedHost \cup {Lower[n]}
  /\ Sent(IF On(n) THEN {HostAnswer(n)} ELSE {})
  /\ UNCHANGED <<running, tableVars, askedInst, records, resolver, peerVars, gone>>

Receive(packet) ==
  /\ running /\ records = <<>> /\ packet \in net
  /\ records' = packet
  /\ net' = net \ {packet}
  /\ UNCHANGED <<running, tableVars, askVars, resolver, peerVars, gone>>

Lose(packet) ==
  /\ packet \in net
  /\ net' = net \ {packet}
  /\ UNCHANGED <<running, tableVars, askVars, records, resolver, peerVars, gone>>

\* close() joins the worker and wakes nobody.
Close ==
  /\ running
  /\ running' = FALSE
  /\ UNCHANGED <<tableVars, askVars, records, resolver, peerVars, net, gone>>

(***************************************************************************)
(* resolve_node(): the test and the wait are one section under mtx_        *)
(***************************************************************************)

Resolved(id) == id \in srv /\ ips[id] # {}

ResolverAt(r, from, to) ==
  /\ resolver[r] \in from
  /\ resolver' = [resolver EXCEPT ![r] = to]
  /\ UNCHANGED <<running, tableVars, askVars, records, peerVars, net, gone>>

Resolve(r) == Resolved(Target[r]) /\ ResolverAt(r, {"idle", "test"}, "found")

Wait(r) == ~Resolved(Target[r]) /\ ResolverAt(r, {"idle", "test"}, "asleep")

GiveUp(r) == ~Resolved(Target[r]) /\ ResolverAt(r, {"late"}, "failed")

FindLate(r) == Resolved(Target[r]) /\ ResolverAt(r, {"late"}, "found")

\* Mutant of Deadline: the wait is cut short by a worker that is no more.
DeadlineWhileRunning(r) == running /\ ResolverAt(r, {"test", "asleep"}, "late")

\* The deadline passes.
Deadline(r) == ResolverAt(r, {"test", "asleep"}, "late")

(***************************************************************************)
(* The peers                                                               *)
(***************************************************************************)

Changed(n, a) ==
  /\ changes[n] < MaxChanges
  /\ changes' = [changes EXCEPT ![n] = @ + 1]
  /\ adv' = [adv EXCEPT ![n] = a]
  /\ UNCHANGED <<running, tableVars, askVars, records, resolver, gone>>

Advertise(n, a) == adv[n] # a /\ Changed(n, a) /\ Sent({Announce(n)'})

StopAdvertising(n) ==
  /\ On(n) /\ Changed(n, None)
  /\ \E packet \in {Goodbye(n), Withdrawal(n)} : Sent({packet})

Crash(n) == On(n) /\ Changed(n, None) /\ UNCHANGED net

\* Answers are multicast: those to another process's questions are heard too.
OtherAsks(n) ==
  /\ On(n) /\ HostAnswer(n) \notin net
  /\ Sent({HostAnswer(n)})
  /\ UNCHANGED <<running, tableVars, askVars, records, resolver, peerVars, gone>>

(***************************************************************************)
(* Specification                                                           *)
(***************************************************************************)

Worker ==
  \/ HandlePtr \/ HandleBye \/ HandleSrv \/ HandleTxt
  \/ ParkAddress \/ DropAddress \/ AddAddress \/ RemoveAddress

Next ==
  \/ Worker \/ AskAll \/ Close
  \/ \E n \in Peers : AskInstance(n) \/ AskHost(n) \/ StopAdvertising(n) \/ Crash(n)
                      \/ OtherAsks(n)
  \/ \E n \in Peers, a \in Addresses : Advertise(n, a)
  \/ \E packet \in net : Receive(packet) \/ Lose(packet)
  \/ \E r \in Resolvers : Resolve(r) \/ Wait(r) \/ GiveUp(r) \/ FindLate(r) \/ Deadline(r)

Spec == Init /\ [][Next]_vars

\* The worker's loop runs, deadlines pass, and of the announcements a peer
\* keeps making not every one is lost.
Fairness ==
  /\ WF_vars(Worker) /\ WF_vars(AskAll)
  /\ \A n \in Peers : SF_vars(On(n) /\ Receive(Announce(n)))
  /\ \A r \in Resolvers :
       /\ WF_vars(Resolve(r) \/ Wait(r)) /\ WF_vars(Deadline(r))
       /\ WF_vars(GiveUp(r) \/ FindLate(r))

FairSpec == Spec /\ Fairness

(***************************************************************************)
(* Properties                                                              *)
(***************************************************************************)

Record ==
  [type : {"PTR", "SRV", "TXT"}, node : Peers, ip : {None}, live : BOOLEAN]
  \cup [type : {"A"}, node : Peers, ip : Addresses, live : BOOLEAN]

\* Every key of the tables is some peer's id in lower case.
TypeOK ==
  /\ running \in BOOLEAN
  /\ known \subseteq Keys /\ srv \subseteq known /\ hosts \subseteq Keys
  /\ \A t \in {ips, pending, gone} : t \in [Keys -> SUBSET Addresses]
  /\ askedInst \subseteq Keys /\ askedHost \subseteq Keys
  /\ records \in Seq(Record) /\ net \subseteq Seq(Record)
  /\ resolver \in [Resolvers -> {"idle", "test", "asleep", "late", "found", "failed"}]
  /\ adv \in [Peers -> Addresses \cup {None}] /\ changes \in [Peers -> 0 .. MaxChanges]

\* An address is parked only while its host is unknown: nothing would take it
\* over later (the SRV record takes what is parked when it maps the host).
ParkedForUnknownHostOnly ==
  \A k \in hosts : pending[k] = {}

\* An address that left an entry, withdrawn or erased with it by a goodbye, is
\* not listed again before it is heard of again.  (Addresses that were still
\* waiting for their host were never listed: a goodbye leaves them waiting.)
GoneUntilHeard ==
  \A k \in Keys : ips[k] \cap gone[k] = {}

\* Whichever record completes an entry wakes the callers that wait for it.
NoSleepOnResolved ==
  \A r \in Resolvers : resolver[r] = "asleep" => ~Resolved(Target[r])

\* resolve_node() returns by its deadline, also when close() runs meanwhile.
ResolveReturns ==
  \A r \in Resolvers : resolver[r] = "asleep" ~> resolver[r] \in {"found", "failed"}

\* A peer that stays is resolved in the end under its id in lower case, at the
\* address it has now, whatever was lost, reordered or said before it came
\* back.  (An id that is not lower case is no key and is never resolved.)
AdvertisedIsFound ==
  \A n \in Peers, a \in Addresses :
    <>[](running /\ adv[n] = a) => <>[](Resolved(Lower[n]) /\ a \in ips[Lower[n]])
=============================================================================

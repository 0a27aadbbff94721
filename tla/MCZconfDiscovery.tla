-------------------------- MODULE MCZconfDiscovery --------------------------
(***************************************************************************)
(* ZconfDiscovery for TLC: a peer that advertises under an id that is not  *)
(* in lower case, and callers that ask for it in lower case.               *)
(***************************************************************************)
EXTENDS ZconfDiscovery

CONSTANTS UPPER, lower

MCLower == [i \in Ids |-> lower]
MCTarget == [r \in Resolvers |-> lower]
=============================================================================

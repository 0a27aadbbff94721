-------------------------- MODULE MCMqttConnection --------------------------
(***************************************************************************)
(* MqttConnection for TLC: two filters that overlap, topics of one and two *)
(* levels; and where the matcher departs from MQTT's rule, over all short  *)
(* strings.                                                                *)
(***************************************************************************)
EXTENDS MqttConnection, TLC

CONSTANTS h1, h2, h3, t1, t2

AB == <<"a", "/", "b">>
ALevels == <<"a", "/", "+">>
Everything == <<"#">>

MCFilters == {ALevels, Everything}
MCTopics == {<<"a">>, AB}
MCFilterOf == (h1 :> ALevels) @@ (h2 :> ALevels) @@ (h3 :> Everything)
\* Every filter belongs to one thread, or h1 and h2 share one.
Exclusive == (h1 :> t1) @@ (h2 :> t1) @@ (h3 :> t2)
Shared == (h1 :> t1) @@ (h2 :> t2) @@ (h3 :> t2)

MaxChars == 4
Strings(chars) == UNION {[1 .. n -> chars] : n \in 1 .. MaxChars}
ShortTopics == Strings({"a", Slash, Dollar})
ShortFilters == {f \in Strings({"a", Slash, Dollar, Plus, Hash}) : ValidFilter(f)}

EndsWith(s, end) ==
  Len(s) >= Len(end) /\ SubSeq(s, Len(s) - Len(end) + 1, Len(s)) = end

\* topicMatches() accepts one thing that MQTT does not, a topic of the broker's
\* own for a filter that begins with a wildcard, ...
ASSUME MatcherAccepts ==
  \A f \in ShortFilters, t \in ShortTopics :
    TopicMatches(f, t) /\ ~Accepts(f, t) => t[1] = Dollar /\ f[1] \in {Plus, Hash}

\* ... and misses two: a final '#' does not match the level above, and a final
\* '+' does not match an empty level.
ASSUME MatcherMisses ==
  \A f \in ShortFilters, t \in ShortTopics :
    Accepts(f, t) /\ ~TopicMatches(f, t) =>
      \/ EndsWith(f, <<Slash, Hash>>) /\ Len(Levels(t)) = Len(Levels(f)) - 1
      \/ EndsWith(f, <<Plus>>) /\ EndsWith(t, <<Slash>>)

\* All three happen.
ASSUME MatcherErrs ==
  /\ TopicMatches(<<Hash>>, <<Dollar, "a">>) /\ ~Accepts(<<Hash>>, <<Dollar, "a">>)
  /\ Accepts(<<"a", Slash, Hash>>, <<"a">>) /\ ~TopicMatches(<<"a", Slash, Hash>>, <<"a">>)
  /\ Accepts(<<"a", Slash, Plus>>, <<"a", Slash>>)
  /\ ~TopicMatches(<<"a", Slash, Plus>>, <<"a", Slash>>)
=============================================================================

----------------------------- MODULE MqttTopics -----------------------------
(***************************************************************************)
(* Topic filters.  A topic is a sequence of characters; only the separator *)
(* and the two wildcards mean anything.  TopicMatches is the matcher of    *)
(* MqttConnection, Accepts the rule it is meant to follow (MQTT, section   *)
(* 4.7), by which the broker chooses what to send.  They differ.           *)
(***************************************************************************)
EXTENDS Naturals, Sequences
LOCAL INSTANCE SequencesExt

Slash == "/"
Plus == "+"
Hash == "#"
Dollar == "$"

\* Where the level that t[j] belongs to ends: at a separator, or past t.
LevelEnd(t, j) ==
  CHOOSE e \in j .. Len(t) + 1 :
    /\ e = Len(t) + 1 \/ t[e] = Slash
    /\ \A i \in j .. e - 1 : t[i] # Slash

\* Filter and topic are walked together until one of them ends.
TopicMatches(f, t) ==
  LET walk[i \in 1 .. Len(f) + 1, j \in 1 .. Len(t) + 1] ==
        \/ i > Len(f) /\ j > Len(t)
        \/ /\ i <= Len(f) /\ j > Len(t)
           /\ f[i] = Hash /\ (i = 1 \/ f[i - 1] = Slash)
        \/ /\ i <= Len(f) /\ j <= Len(t)
           /\ \/ f[i] = Plus /\ walk[i + 1, LevelEnd(t, j)]
              \/ f[i] = Hash
              \/ f[i] \notin {Plus, Hash} /\ f[i] = t[j] /\ walk[i + 1, j + 1]
  IN  f = t \/ walk[1, 1]

\* The levels of a topic or a filter: what lies between two separators.
Levels(s) ==
  LET cuts == SetToSortSeq({0, Len(s) + 1} \cup {i \in 1 .. Len(s) : s[i] = Slash}, <)
  IN  [k \in 1 .. Len(cuts) - 1 |-> SubSeq(s, cuts[k] + 1, cuts[k + 1] - 1)]

\* A final '#' stands for any number of levels, none included; a topic that
\* begins with '$' is the broker's own, and no wildcard stands for that level.
Accepts(f, t) ==
  LET fs == Levels(f)
      ts == Levels(t)
      n == IF Last(fs) = <<Hash>> THEN Len(fs) - 1 ELSE Len(fs)
  IN  /\ IF n < Len(fs) THEN Len(ts) >= n ELSE Len(ts) = n
      /\ \A k \in 1 .. n : fs[k] \in {<<Plus>>, ts[k]}
      /\ t[1] = Dollar => f[1] \notin {Plus, Hash}

\* A wildcard has a level of its own; '#' is the last one.
ValidFilter(f) ==
  /\ f # <<>>
  /\ \A k \in DOMAIN Levels(f) : \A i \in DOMAIN Levels(f)[k] :
       /\ Levels(f)[k][i] \in {Plus, Hash} => Len(Levels(f)[k]) = 1
       /\ Levels(f)[k][i] = Hash => k = Len(Levels(f))
=============================================================================

-------------------------- MODULE MCAsyncActivities --------------------------
EXTENDS AsyncActivities

\* Two activities together, then a third one, with policies that allow less, more and
\* as many attempts as the queue makes.
TwoRounds == <<{"a", "b"}, {"c"}>>
Policy == [x \in {"a", "b", "c"} |-> CASE x = "a" -> 1 [] x = "b" -> 4 [] x = "c" -> 3]

\* Two rounds of two activities, each tried once.
PairThenPair == <<{"a", "b"}, {"c", "d"}>>
AlwaysOnce == [x \in {"a", "b", "c", "d"} |-> 1]
=============================================================================

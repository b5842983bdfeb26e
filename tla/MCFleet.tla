------------------------------- MODULE MCFleet -------------------------------
(***************************************************************************)
(* A fleet of three, of which two listen, and a fleet of two; a list with  *)
(* a key that is too short; and a node that is configured by hand to speak *)
(* to another that does not know it.                                       *)
(***************************************************************************)
EXTENDS Fleet, TLC

CONSTANTS n1, n2, n3, s1, s2, s3, short, k1, k2, k3, q1, q2, q3

Keys == s1 :> k1 @@ s2 :> k2 @@ s3 :> k3 @@ short :> nil

Node(n, s, l) == [name |-> n, key |-> s, listens |-> l]
One == Node(n1, s1, TRUE)
Two == Node(n2, s2, TRUE)
Three == Node(n3, s3, FALSE)

Lists == { <<One, Two, Three>>, <<One, Two>>, <<Node(n3, short, FALSE), One>> }

ByHand ==
  { [ key |-> s3, listens |-> FALSE, dials |-> {}, peers |-> {}, allowed |-> {},
      filter |-> {k1}, by |-> "hand", run |-> 0 ] }

\* Each pings the two others.
Everyone == <<n1, n2, n3>>
=============================================================================

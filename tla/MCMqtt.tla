------------------------------- MODULE MCMqtt -------------------------------
(***************************************************************************)
(* Two brokers, a publisher, and subscribers one of whose topics is a      *)
(* prefix of the other's.                                                  *)
(***************************************************************************)
EXTENDS Mqtt

CONSTANTS b1, b2, pub, sub1, sub2

Order == <<b1, sub1, b2, sub2>>
Owners == [m \in Publishers \cup Subscribers |-> b1]
Topics == [s \in Subscribers |-> IF s = sub1 THEN "/level/a" ELSE "/level"]
TopicPrefixes == {<<"/level", "/level">>, <<"/level", "/level/a">>,
                  <<"/level/a", "/level/a">>, <<"/command", "/command">>}
=============================================================================

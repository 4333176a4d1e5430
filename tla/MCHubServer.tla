---------------------------- MODULE MCHubServer ----------------------------
(* HubServer with two clients that contend for one source. *)
EXTENDS HubServer

CONSTANTS s1, s2, v1
TwoSessions == {s1, s2}
OneSource == {v1}
=============================================================================

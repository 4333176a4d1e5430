----------------------------- MODULE MCHubCore -----------------------------
(* HubCore with two sessions, two sources and a meter. *)
EXTENDS HubCore

CONSTANTS s1, s2, v1, v2, m1
TwoSessions == {s1, s2}
ThreeAddresses == {v1, v2, m1}
TwoSources == {v1, v2}
=============================================================================

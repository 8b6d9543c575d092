-------------------------- MODULE MCAnalyticsClient --------------------------
(* Instances of AnalyticsClient for TLC. *)
EXTENDS AnalyticsClient

CONSTANTS k1, s1, p1, p2, p3, p4, p5, api, own

GivenOne == <<p1>>
OwnHooks == <<own>>
=============================================================================

----------------------- MODULE MCNotificationPipeline -----------------------
(* Instances of NotificationPipeline for TLC. *)
EXTENDS NotificationPipeline, TLC

CONSTANTS r1, w1, a1

MCTarget == r1 :> a1
=============================================================================

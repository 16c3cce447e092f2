-------------------------- MODULE MCNotificationQueue --------------------------
(* Instances of NotificationQueue for TLC *)
EXTENDS NotificationQueue
=============================================================================

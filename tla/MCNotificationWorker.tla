----------------------- MODULE MCNotificationWorker -----------------------
(* Instances of NotificationWorker for TLC. *)
EXTENDS NotificationWorker, TLC

\* Worker processes are interchangeable.
WorkerSymmetry == Permutations(Workers)
=============================================================================

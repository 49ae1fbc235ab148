---- MODULE MCCallController ----
(* Instances of CallController for TLC. *)
EXTENDS CallController, TLC
====

---- MODULE MCAndroidRing ----
(* Instances of AndroidRing for TLC. *)
EXTENDS AndroidRing, TLC
====

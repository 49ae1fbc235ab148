---- MODULE MCOutboundCalls ----
(* Instances of OutboundCalls for TLC. *)
EXTENDS OutboundCalls, TLC

CONSTANTS c1, c2, k1, k2, a1

\* Every start request has an Idempotency-Key of its own (or none).
OneCallKeyOf  == c1 :> k1
DistinctKeyOf == c1 :> k1 @@ c2 :> k2

\* One agent with one voice slot behind every contact.
OneContactAgentOf == k1 :> a1
SharedAgentOf     == k1 :> a1 @@ k2 :> a1

\* Requests are interchangeable, and so are sweepers.
WorkerSymmetry == Permutations(Requests) \cup Permutations(Sweepers)
====

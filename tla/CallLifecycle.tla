---- MODULE CallLifecycle ----
(***************************************************************************)
(* What the backend promises about agent-initiated calls, without saying   *)
(* how: a call rings once, is settled once, its join credentials leave the *)
(* server only when it was answered, and the backend itself releases an    *)
(* agent leg only when the call on it was given up.  OutboundCalls shows   *)
(* that the handlers, the sweeper and the DynamoDB table implement this.   *)
(***************************************************************************)
CONSTANTS
  Calls,      \* call attempts (callId)
  Contacts,   \* Amazon Connect contacts
  KeyOf       \* the contact a call attempt is placed on

GaveUp == {"declined", "cancelled", "timedOut"}

VARIABLES
  status,     \* lifecycle of each call
  leg,        \* the agent's leg: one Connect contact
  joined      \* calls whose join credentials were handed to a device

vars == <<status, leg, joined>>

Init ==
  /\ status = [c \in Calls |-> "none"]
  /\ leg = [k \in Contacts |-> "none"]
  /\ joined = {}

\* The agent's leg comes up.
Place(k) ==
  /\ leg[k] = "none"
  /\ leg' = [leg EXCEPT ![k] = "live"]
  /\ UNCHANGED <<status, joined>>

\* A call only starts to ring once there is an agent leg behind it.
Ring(c) ==
  /\ status[c] = "none"
  /\ leg[KeyOf[c]] # "none"
  /\ status' = [status EXCEPT ![c] = "ringing"]
  /\ UNCHANGED <<leg, joined>>

\* The device answers; the credentials may be handed over in the same step.
Answer(c) ==
  /\ status[c] = "ringing"
  /\ status' = [status EXCEPT ![c] = "answered"]
  /\ joined' \in {joined, joined \cup {c}}
  /\ UNCHANGED leg

\* The call is declined, cancelled or timed out.
GiveUp(c) ==
  /\ status[c] = "ringing"
  /\ \E s \in GaveUp : status' = [status EXCEPT ![c] = s]
  /\ UNCHANGED <<leg, joined>>

\* The credentials of an answered call are handed over (again).
HandOver(c) ==
  /\ status[c] = "answered"
  /\ joined' = joined \cup {c}
  /\ UNCHANGED <<status, leg>>

\* The backend releases the agent: only for a call that was given up, and
\* never under a call that was answered.
Release(k) ==
  /\ leg[k] = "live"
  /\ \E c \in Calls : KeyOf[c] = k /\ status[c] \in GaveUp
  /\ \A c \in Calls : KeyOf[c] = k => status[c] # "answered"
  /\ leg' = [leg EXCEPT ![k] = "stopped"]
  /\ UNCHANGED <<status, joined>>

\* The agent or the customer ends the contact.
HangUp(k) ==
  /\ leg[k] = "live"
  /\ leg' = [leg EXCEPT ![k] = "hungUp"]
  /\ UNCHANGED <<status, joined>>

Next ==
  \/ \E c \in Calls : Ring(c) \/ Answer(c) \/ GiveUp(c) \/ HandOver(c)
  \/ \E k \in Contacts : Place(k) \/ Release(k) \/ HangUp(k)

Spec == Init /\ [][Next]_vars
====

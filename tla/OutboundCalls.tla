---- MODULE OutboundCalls ----
(***************************************************************************)
(* Agent-initiated ("simulated outbound") calls in the backend: the three  *)
(* handlers that share the OutboundCalls table and Amazon Connect, namely  *)
(* POST /calls/outbound, POST /calls/outbound/{callId}/answer|decline, and *)
(* the ring-timeout sweeper.                                               *)
(*                                                                         *)
(* One action is one awaited call: its effect on the outside world and the *)
(* synchronous code that runs when it returns.  Between two awaits of one  *)
(* invocation any other invocation may run (Lambda instances, or the one   *)
(* Node event loop of the container).                                      *)
(*                                                                         *)
(* A callId is a fresh UUID per request, so a call is named by the start   *)
(* request that creates it.  The wall clock is abstracted to the set of    *)
(* calls whose expiresAt has passed.                                       *)
(***************************************************************************)
CONSTANTS
  Calls,      \* start requests, each with the callId it generates
  Contacts,   \* Connect contacts, one per Idempotency-Key
  Agents,
  KeyOf,      \* the Idempotency-Key (so the contact) of a start request
  AgentOf,    \* the agent a contact is routed to
  Requests,   \* answer and decline requests of devices
  Sweepers,   \* sweeper invocations that may overlap
  Faults,     \* what may go wrong in this instance
  NoCall      \* the call of a request that was not sent

FaultKinds == {
  "startError",     \* StartWebRTCContact throws, or its response is unusable
  "putError",       \* the record cannot be written, or the reply is lost
  "pushError",      \* SNS Publish throws, nothing is delivered
  "pushAmbiguous",  \* SNS Publish throws although SNS accepted the message
  "storeError",     \* a conditional update throws and is not applied
  "lostReply",      \* a conditional update is applied but its caller not told
  "staleRead",      \* GetItem and Scan are eventually consistent
  "stopError",      \* StopContact throws and the contact stays up
  "crash" }         \* an invocation dies between two awaits

ASSUME ConstantsAssumption ==
  /\ KeyOf \in [Calls -> Contacts]
  /\ AgentOf \in [Contacts -> Agents]
  /\ Faults \subseteq FaultKinds
  /\ NoCall \notin Calls

GaveUp  == {"declined", "cancelled", "timedOut"}
Settled == GaveUp \cup {"answered"}
Status  == Settled \cup {"none", "ringing"}

ContactState == {"none", "live", "hungUp", "stopped"}

StartPc  == {"idle", "contact", "put", "push", "cancel", "stop", "ok", "failed"}
Replies  == {"session", "gone", "noContent", "notFound", "error", "crashed"}
InFlight == {"get", "check", "settle", "reread", "stop"}

VARIABLES
  rec,       \* status of each record in the OutboundCalls table
  contact,   \* each Connect contact, as Connect sees it
  expired,   \* calls whose expiresAt is in the past
  pushed,    \* calls whose push SNS accepted: a device knows the callId
  start,     \* control of each POST /calls/outbound
  req,       \* each answer or decline request: control, call, status it wants
  sweep      \* each sweeper: records still to visit, contact it is stopping

vars == <<rec, contact, expired, pushed, start, req, sweep>>

TypeOK ==
  /\ rec \in [Calls -> Status]
  /\ contact \in [Contacts -> ContactState]
  /\ expired \in SUBSET Calls
  /\ pushed \in SUBSET Calls
  /\ start \in [Calls -> StartPc]
  /\ req \in [Requests -> [pc : {"idle"} \cup InFlight \cup Replies,
                           call : Calls \cup {NoCall},
                           to : {"answered", "declined", "timedOut"}]]
  /\ sweep \in [Sweepers -> [todo : SUBSET Calls, stopping : SUBSET Calls]]

Init ==
  /\ rec = [c \in Calls |-> "none"]
  /\ contact = [k \in Contacts |-> "none"]
  /\ expired = {}
  /\ pushed = {}
  /\ start = [c \in Calls |-> "idle"]
  /\ req = [r \in Requests |-> [pc |-> "idle", call |-> NoCall, to |-> "answered"]]
  /\ sweep = [w \in Sweepers |-> [todo |-> {}, stopping |-> {}]]

----
(***************************************************************************)
(* The store and Connect, as the handlers use them.                        *)
(***************************************************************************)

\* What a GetItem of call c may return: without ConsistentRead, also any
\* value the record had before.
get(c) ==
  {rec[c]} \cup
  (IF "staleRead" \notin Faults \/ rec[c] = "none" THEN {}
   ELSE IF rec[c] = "ringing" THEN {"none"} ELSE {"none", "ringing"})

\* Wrong variants, named for the bug, against which the properties are tried:
\* an update without its condition ...
transitionUnconditional(c, next) == {[status |-> next, told |-> "won"]}

\* Outcomes of the conditional update: the status it leaves in the record
\* and what its caller is told.  The SDK sends an update up to three times,
\* so an update whose first reply was lost fails its own condition.
transitionFromRinging(c, next) ==
  (IF rec[c] = "ringing" THEN {[status |-> next, told |-> "won"]}
                         ELSE {[status |-> rec[c], told |-> "lost"]})
  \cup (IF "storeError" \in Faults
        THEN {[status |-> rec[c], told |-> "error"]} ELSE {})
  \cup (IF "lostReply" \in Faults /\ rec[c] = "ringing"
        THEN [status : {next}, told : {"lost", "error"}] ELSE {})

\* ... a scan that forgets the deadline, and one that reads only its first
\* page, on which none of the calls in question is.
listRinging == {S \in SUBSET Calls : \A c \in S : "ringing" \in get(c)}
listFirstPage == {{}}

\* Results of the sweeper's filtered Scan.
listExpiredRinging ==
  {S \in SUBSET expired :
     /\ \A c \in S : "ringing" \in get(c)
     /\ \A c \in expired \ S : get(c) # {"ringing"}}

\* Connect creates a contact per client token and returns it on a retry.
startWebRtcContact(k) ==
  [contact EXCEPT ![k] = IF @ = "none" THEN "live" ELSE @]

\* StopContact ends a live contact; every caller swallows its failure.
stopContact(k) ==
  {[contact EXCEPT ![k] = IF @ = "live" THEN "stopped" ELSE @]}
  \cup (IF "stopError" \in Faults THEN {contact} ELSE {})

\* The free voice slot that GetCurrentUserData reports.
agentAvailable(a) == \A k \in Contacts : AgentOf[k] = a => contact[k] # "live"

----
(***************************************************************************)
(* POST /calls/outbound                                                    *)
(***************************************************************************)

\* The device and the agent are known and the agent has a free voice slot.
StartCheck(c) ==
  /\ start[c] = "idle"
  /\ agentAvailable(AgentOf[KeyOf[c]])
  /\ start' = [start EXCEPT ![c] = "contact"]
  /\ UNCHANGED <<rec, contact, expired, pushed, req, sweep>>

\* 400, 404 or 409: bad body, no registered device, agent not routable.
StartRefused(c) ==
  /\ start[c] = "idle"
  /\ start' = [start EXCEPT ![c] = "failed"]
  /\ UNCHANGED <<rec, contact, expired, pushed, req, sweep>>

StartContact(c) ==
  /\ start[c] = "contact"
  /\ contact' = startWebRtcContact(KeyOf[c])
  /\ start' = [start EXCEPT ![c] = "put"]
  /\ UNCHANGED <<rec, expired, pushed, req, sweep>>

\* The contact may exist although the call failed or toCallSession threw.
StartContactFails(c) ==
  /\ "startError" \in Faults
  /\ start[c] = "contact"
  /\ contact' \in {contact, startWebRtcContact(KeyOf[c])}
  /\ start' = [start EXCEPT ![c] = "failed"]
  /\ UNCHANGED <<rec, expired, pushed, req, sweep>>

StartPut(c) ==
  /\ start[c] = "put"
  /\ rec' = [rec EXCEPT ![c] = "ringing"]
  /\ start' = [start EXCEPT ![c] = "push"]
  /\ UNCHANGED <<contact, expired, pushed, req, sweep>>

\* The handler gives up without stopping the contact.
StartPutFails(c) ==
  /\ "putError" \in Faults
  /\ start[c] = "put"
  /\ rec' \in {rec, [rec EXCEPT ![c] = "ringing"]}
  /\ start' = [start EXCEPT ![c] = "failed"]
  /\ UNCHANGED <<contact, expired, pushed, req, sweep>>

StartPush(c) ==
  /\ start[c] = "push"
  /\ pushed' = pushed \cup {c}
  /\ start' = [start EXCEPT ![c] = "ok"]
  /\ UNCHANGED <<rec, contact, expired, req, sweep>>

StartPushFails(c) ==
  /\ start[c] = "push"
  /\ \/ "pushError" \in Faults /\ pushed' = pushed
     \/ "pushAmbiguous" \in Faults /\ pushed' = pushed \cup {c}
  /\ start' = [start EXCEPT ![c] = "cancel"]
  /\ UNCHANGED <<rec, contact, expired, req, sweep>>

\* Wrong variant: a failed push cancels the record and leaves the contact.
StartCancelOnly(c) ==
  /\ start[c] = "cancel"
  /\ \E o \in transitionFromRinging(c, "cancelled") : rec' = [rec EXCEPT ![c] = o.status]
  /\ start' = [start EXCEPT ![c] = "failed"]
  /\ UNCHANGED <<contact, expired, pushed, req, sweep>>

\* The result of the transition is not looked at; only an exception skips
\* the stop.
StartCancel(c) ==
  /\ start[c] = "cancel"
  /\ \E o \in transitionFromRinging(c, "cancelled") :
       /\ rec' = [rec EXCEPT ![c] = o.status]
       /\ start' = [start EXCEPT ![c] = IF o.told = "error" THEN "failed" ELSE "stop"]
  /\ UNCHANGED <<contact, expired, pushed, req, sweep>>

StartStop(c) ==
  /\ start[c] = "stop"
  /\ contact' \in stopContact(KeyOf[c])
  /\ start' = [start EXCEPT ![c] = "failed"]
  /\ UNCHANGED <<rec, expired, pushed, req, sweep>>

StartCrash(c) ==
  /\ "crash" \in Faults
  /\ start[c] \in {"contact", "put", "push", "cancel", "stop"}
  /\ start' = [start EXCEPT ![c] = "failed"]
  /\ UNCHANGED <<rec, contact, expired, pushed, req, sweep>>

----
(***************************************************************************)
(* POST /calls/outbound/{callId}/answer and .../decline                    *)
(***************************************************************************)

\* A device sends an answer or a decline for a callId it was pushed.  A
\* retry by the device is one more request.
Arrive(r) ==
  /\ req[r].pc = "idle"
  /\ \E c \in pushed, s \in {"answered", "declined"} :
       req' = [req EXCEPT ![r] = [pc |-> "get", call |-> c, to |-> s]]
  /\ UNCHANGED <<rec, contact, expired, pushed, start, sweep>>

\* Where a request goes once it has read status v.
AfterGet(to, v) ==
  IF to = "declined" /\ v # "none" THEN "settle"
  ELSE [none |-> "notFound", ringing |-> "check", answered |-> "session",
        declined |-> "gone", cancelled |-> "gone", timedOut |-> "gone"][v]

GetRecord(r) ==
  /\ req[r].pc = "get"
  /\ \E v \in get(req[r].call) :
       req' = [req EXCEPT ![r].pc = AfterGet(req[r].to, v)]
  /\ UNCHANGED <<rec, contact, expired, pushed, start, sweep>>

\* Wrong variants: the late answer is refused and the ringing record left to
\* the sweeper; the status is spelt otherwise than the record type has it.
CheckDeadlineOnly(r) ==
  /\ req[r].pc = "check"
  /\ req' = [req EXCEPT ![r].pc = IF req[r].call \in expired THEN "gone" ELSE "settle"]
  /\ UNCHANGED <<rec, contact, expired, pushed, start, sweep>>

CheckDeadlineMisspelt(r) ==
  /\ req[r].pc = "check"
  /\ req' = [req EXCEPT ![r] =
       [pc |-> "settle", call |-> req[r].call,
        to |-> IF req[r].call \in expired THEN "timed_out" ELSE req[r].to]]
  /\ UNCHANGED <<rec, contact, expired, pushed, start, sweep>>

\* isRingExpired: an answer past the deadline times the call out instead.
CheckDeadline(r) ==
  /\ req[r].pc = "check"
  /\ req' = [req EXCEPT ![r] =
       [pc |-> "settle", call |-> req[r].call,
        to |-> IF req[r].call \in expired THEN "timedOut" ELSE req[r].to]]
  /\ UNCHANGED <<rec, contact, expired, pushed, start, sweep>>

\* Wrong variants of what follows the update: everyone stops the contact and
\* the loser of an answer gets the session; the winner does not stop; the
\* loser of an answer does not read again.
winsAnyway(to, told) == IF to = "answered" THEN "session" ELSE "stop"
neverStops(to, told) == IF to = "answered" /\ told = "won" THEN "session" ELSE "gone"
neverRereads(to, told) ==
  IF told = "lost" THEN "gone" ELSE IF to = "answered" THEN "session" ELSE "stop"

\* Where a request goes once transitionFromRinging has returned or thrown.
AfterSettle(to, told) ==
  [won   |-> [answered |-> "session", declined |-> "stop", timedOut |-> "stop"],
   lost  |-> [answered |-> "reread", declined |-> "noContent", timedOut |-> "gone"],
   error |-> [answered |-> "error", declined |-> "error", timedOut |-> "error"]][told][to]

Settle(r) ==
  /\ req[r].pc = "settle"
  /\ \E o \in transitionFromRinging(req[r].call, req[r].to) :
       /\ rec' = [rec EXCEPT ![req[r].call] = o.status]
       /\ req' = [req EXCEPT ![r].pc = AfterSettle(req[r].to, o.told)]
  /\ UNCHANGED <<contact, expired, pushed, start, sweep>>

\* An answer that lost the race reads the record once more.
Reread(r) ==
  /\ req[r].pc = "reread"
  /\ \E v \in get(req[r].call) :
       req' = [req EXCEPT ![r].pc = IF v = "answered" THEN "session" ELSE "gone"]
  /\ UNCHANGED <<rec, contact, expired, pushed, start, sweep>>

\* The winner of a decline or of a late answer stops the contact.
Stop(r) ==
  /\ req[r].pc = "stop"
  /\ contact' \in stopContact(KeyOf[req[r].call])
  /\ req' = [req EXCEPT ![r].pc = IF req[r].to = "declined" THEN "noContent" ELSE "gone"]
  /\ UNCHANGED <<rec, expired, pushed, start, sweep>>

RequestCrash(r) ==
  /\ "crash" \in Faults
  /\ req[r].pc \in InFlight
  /\ req' = [req EXCEPT ![r].pc = "crashed"]
  /\ UNCHANGED <<rec, contact, expired, pushed, start, sweep>>

----
(***************************************************************************)
(* The ring-timeout sweeper                                                *)
(***************************************************************************)

idleSweeper == [todo |-> {}, stopping |-> {}]

Scan(w) ==
  /\ sweep[w] = idleSweeper
  /\ \E S \in listExpiredRinging :
       sweep' = [sweep EXCEPT ![w] = [todo |-> S, stopping |-> {}]]
  /\ UNCHANGED <<rec, contact, expired, pushed, start, req>>

\* Only a transition that was won is followed by a stop; one that throws
\* ends the whole sweep.
SweepSettle(w, c) ==
  /\ sweep[w].stopping = {}
  /\ c \in sweep[w].todo
  /\ \E o \in transitionFromRinging(c, "timedOut") :
       /\ rec' = [rec EXCEPT ![c] = o.status]
       /\ sweep' = [sweep EXCEPT ![w] =
                      [todo |-> IF o.told = "error" THEN {} ELSE @.todo \ {c},
                       stopping |-> IF o.told = "won" THEN {c} ELSE {}]]
  /\ UNCHANGED <<contact, expired, pushed, start, req>>

SweepStop(w, c) ==
  /\ c \in sweep[w].stopping
  /\ contact' \in stopContact(KeyOf[c])
  /\ sweep' = [sweep EXCEPT ![w].stopping = @ \ {c}]
  /\ UNCHANGED <<rec, expired, pushed, start, req>>

SweepCrash(w) ==
  /\ "crash" \in Faults
  /\ sweep' = [sweep EXCEPT ![w] = idleSweeper]
  /\ UNCHANGED <<rec, contact, expired, pushed, start, req>>

----
(***************************************************************************)
(* The environment                                                         *)
(***************************************************************************)

\* expiresAt is computed before the record is written.
DeadlinePasses(c) ==
  /\ start[c] = "put" \/ rec[c] # "none"
  /\ expired' = expired \cup {c}
  /\ UNCHANGED <<rec, contact, pushed, start, req, sweep>>

\* The agent ends the contact from the CCP, or the customer leaves it.
HangUp(k) ==
  /\ contact[k] = "live"
  /\ contact' = [contact EXCEPT ![k] = "hungUp"]
  /\ UNCHANGED <<rec, expired, pushed, start, req, sweep>>

----
StartStep(c) ==
  \/ StartContact(c) \/ StartContactFails(c)
  \/ StartPut(c) \/ StartPutFails(c)
  \/ StartPush(c) \/ StartPushFails(c)
  \/ StartCancel(c) \/ StartStop(c)

RequestStep(r) ==
  GetRecord(r) \/ CheckDeadline(r) \/ Settle(r) \/ Reread(r) \/ Stop(r)

Next ==
  \/ \E c \in Calls : \/ StartCheck(c) \/ StartRefused(c) \/ StartStep(c)
                      \/ StartCrash(c) \/ DeadlinePasses(c)
  \/ \E r \in Requests : Arrive(r) \/ RequestStep(r) \/ RequestCrash(r)
  \/ \E w \in Sweepers : \/ Scan(w) \/ SweepCrash(w)
                         \/ \E c \in Calls : SweepSettle(w, c) \/ SweepStop(w, c)
  \/ \E k \in Contacts : HangUp(k)

Spec == Init /\ [][Next]_vars

(***************************************************************************)
(* A handler that was invoked runs on, time passes, and the sweeper is     *)
(* invoked every minute.  Strong fairness of a visit to a record: sweeps   *)
(* may die, but not each of them just before this record.  Nothing obliges *)
(* an agent to start or to end a call, nor a device to answer.             *)
(***************************************************************************)
Fairness ==
  /\ \A c \in Calls : WF_vars(StartStep(c)) /\ WF_vars(DeadlinePasses(c))
  /\ \A r \in Requests : WF_vars(RequestStep(r))
  /\ \A w \in Sweepers :
       /\ WF_vars(Scan(w))
       /\ \A c \in Calls : SF_vars(SweepSettle(w, c)) /\ WF_vars(SweepStop(w, c))

FairSpec == Spec /\ Fairness

----
(***************************************************************************)
(* Properties                                                              *)
(***************************************************************************)

\* Workers that won a call away from ringing and now have to stop its
\* contact: answer or decline requests, and sweepers.
Releasers(c) ==
  {r \in Requests : req[r].pc = "stop" /\ req[r].call = c}
  \cup {w \in Sweepers : c \in sweep[w].stopping}

\* Once a record has left ringing no handler changes it again, however the
\* answer, the decline, the failed push and overlapping sweeps interleave
\* (the condition of the update in transitionFromRinging).
SettledOnce == [][\A c \in Calls : rec[c] \in Settled => rec'[c] = rec[c]]_vars

\* A device is given the join credentials of a call only if that call is,
\* and so stays, answered: an answer that lost to a decline, a sweep or a
\* cancelled push never hands them out (the answer branch of the handler).
CredentialsOnlyIfAnswered ==
  \A r \in Requests : req[r].pc = "session" => rec[req[r].call] = "answered"

\* The backend never stops the contact of a call that was answered: whoever
\* is about to stop a contact has made an answer impossible first.
AnsweredStaysUp ==
  \A c \in Calls : rec[c] = "answered" => contact[KeyOf[c]] # "stopped"

\* An agent leg never stays up behind a call that was given up unless some
\* invocation is still on its way to stop it ("no zombie agent leg").
NoZombieLeg ==
  \A c \in Calls :
    rec[c] \in GaveUp /\ contact[KeyOf[c]] = "live"
      => Releasers(c) # {} \/ start[c] = "stop"

\* Among racing declines, late answers and overlapping sweeps at most one
\* goes on to stop the contact, and only of a call that it gave up itself.
OneReleaser ==
  \A c \in Calls :
    /\ \A x, y \in Releasers(c) : x = y
    /\ Releasers(c) # {} => rec[c] \in {"declined", "timedOut"}

\* 410 CALL_NO_LONGER_RINGING is only ever sent for a call that is settled.
GoneMeansSettled ==
  \A r \in Requests : req[r].pc = "gone" => rec[req[r].call] \in Settled

\* An answered call never strands its device: of the answer requests for it
\* one was given the session, is about to be, or had its server fail; it is
\* not the case that all were told that the call is gone, even if the reply
\* of the winning update was lost and the retry failed its condition.
DeviceNotStranded ==
  \A c \in Calls : rec[c] = "answered" =>
    \E r \in Requests : /\ req[r].call = c /\ req[r].to = "answered"
                        /\ req[r].pc \in {"session", "reread", "error", "crashed"}

\* No call is timed out before its ring deadline, neither by a sweep nor by
\* an answer.
NoEarlyTimeout == \A c \in Calls : rec[c] = "timedOut" => c \in expired

\* A call does not ring for ever, even if the invocations that handle it die.
RingingEnds ==
  \A c \in Calls : (rec[c] = "ringing") ~> (rec[c] # "ringing")

\* An agent whose leg was started is eventually in a call with the customer
\* or released: the ring timeout, the decline and the failed push between
\* them leave no way to be kept waiting.
AgentReleased ==
  \A k \in Contacts :
    (contact[k] = "live") ~>
      \/ contact[k] # "live"
      \/ \E c \in Calls : KeyOf[c] = k /\ rec[c] = "answered"

\* The inductive invariant behind the safety properties: what each worker
\* knows about the record from the control point it is at.
Known ==   \* a request is about a call whose record was written and pushed
  /\ \A r \in Requests : req[r].pc # "idle" => req[r].call \in pushed
  /\ \A c \in pushed : rec[c] # "none"

Placed ==  \* the contact is started before the record is written
  \A c \in Calls :
    start[c] \in {"put", "push", "cancel", "stop", "ok"} \/ rec[c] # "none"
      => contact[KeyOf[c]] # "none"

Written == \* only the start request creates the record, before it is pushed
  \A c \in Calls :
    /\ start[c] \in {"idle", "contact", "put"} => rec[c] = "none"
    /\ start[c] \in {"push", "cancel", "stop"} => rec[c] # "none"
    /\ start[c] \in {"idle", "contact", "put", "push"} => c \notin pushed
    /\ c \notin pushed => rec[c] \notin {"answered", "declined"}

Stopping == \* who won and is to stop a contact knows its call was given up
  /\ \A r \in Requests : req[r].pc = "stop" => rec[req[r].call] \in GaveUp
  /\ \A w \in Sweepers : \A c \in sweep[w].stopping : rec[c] \in GaveUp

Lost ==    \* who was told it lost knows the call is settled
  \A r \in Requests : req[r].pc \in {"gone", "reread"} => rec[req[r].call] \in Settled

Late ==    \* who times a call out knows its deadline has passed
  /\ \A r \in Requests : req[r].to = "timedOut" => req[r].call \in expired
  /\ \A w \in Sweepers : sweep[w].todo \subseteq expired

Inv ==
  /\ TypeOK /\ Known /\ Placed /\ Written /\ Stopping /\ Lost /\ Late
  /\ CredentialsOnlyIfAnswered /\ NoEarlyTimeout

\* What holds in addition as long as a push that is reported to have failed
\* was not delivered: every contact that was stopped has a call given up.
NoAmbiguousPush == "pushAmbiguous" \notin Faults

\* What keeps a leg that was given up from being released: an invocation dies
\* on its way, is not told that it won, or StopContact fails.
NoLostStop == Faults \cap {"crash", "lostReply", "stopError"} = {}

\* What makes the second look of an answer that lost see who won.
FreshReads == "staleRead" \notin Faults

DistinctKeys == \A c, d \in Calls : KeyOf[c] = KeyOf[d] => c = d

StopCause ==
  /\ \A c \in Calls :
       /\ start[c] \in {"cancel", "stop"} => c \notin pushed
       /\ start[c] = "stop" => rec[c] \in GaveUp
  /\ \A k \in Contacts : contact[k] = "stopped" =>
       \E c \in Calls : KeyOf[c] = k /\ rec[c] \in GaveUp

\* What docs, comments and tests say and the code does not do.

\* A 410 is never sent for a call that was answered.
GoneMeansOver ==
  \A r \in Requests : req[r].pc = "gone" => rec[req[r].call] \in GaveUp

\* Calls whose join credentials some device was given.
handedOver == {c \in Calls : \E r \in Requests : req[r].pc = "session" /\ req[r].call = c}

Lifecycle == INSTANCE CallLifecycle
  WITH status <- rec, leg <- contact, joined <- handedOver

\* The handlers, the sweeper and the table implement the abstract lifecycle.
ImplementsLifecycle == Lifecycle!Spec
====

---- MODULE OutboundRefinement_proofs ----
(***************************************************************************)
(* OutboundCalls implements CallLifecycle, as long as SNS does not deliver *)
(* a push whose publish is reported to have failed and no Idempotency-Key  *)
(* is used for two calls.  Both assumptions are needed: without either one *)
(* the backend can stop the contact of a call that was answered.           *)
(***************************************************************************)
EXTENDS OutboundCalls_proofs

----
(* Contacts are only stopped behind calls that were given up. *)

\* A step that stops a contact does so for a call that was given up.
LEMMA StopsHaveCause ==
  ASSUME Inv, StopCause, [Next]_vars, NEW k \in Contacts,
         contact'[k] = "stopped", contact[k] # "stopped"
  PROVE  \E c \in Calls : KeyOf[c] = k /\ rec[c] \in GaveUp
<1> USE ConstantsAssumption DEF Inv, TypeOK
<1>1. ASSUME NEW c \in Calls, StartContact(c) \/ StartContactFails(c) PROVE FALSE
  <2>1. KeyOf[c] \in Contacts /\ contact' \in {contact, startWebRtcContact(KeyOf[c])}
    BY <1>1 DEF StartContact, StartContactFails
  <2> QED
    BY <2>1, PlaceFacts
<1>2. ASSUME NEW c \in Calls, StartStop(c) PROVE KeyOf[c] = k /\ rec[c] \in GaveUp
  BY <1>2, StopFacts DEF StartStop, StopCause
<1>3. ASSUME NEW r \in Requests, Stop(r)
      PROVE  req[r].call \in Calls /\ KeyOf[req[r].call] = k /\ rec[req[r].call] \in GaveUp
  <2>1. req[r].call \in Calls /\ rec[req[r].call] \in GaveUp
    BY <1>3 DEF Stop, Known, Stopping
  <2> QED
    BY <1>3, <2>1, StopFacts DEF Stop
<1>4. ASSUME NEW w \in Sweepers, NEW c \in Calls, SweepStop(w, c)
      PROVE  KeyOf[c] = k /\ rec[c] \in GaveUp
  BY <1>4, StopFacts DEF SweepStop, Stopping
<1>5. ASSUME NEW j \in Contacts, HangUp(j) PROVE FALSE
  BY <1>5 DEF HangUp
<1>6. CASE contact' = contact
  BY <1>6
<1>7. ASSUME NEW c \in Calls,
             \/ StartCheck(c) \/ StartRefused(c) \/ StartPut(c) \/ StartPutFails(c)
             \/ StartPush(c) \/ StartPushFails(c) \/ StartCancel(c) \/ StartCrash(c)
             \/ DeadlinePasses(c)
      PROVE  contact' = contact
  BY <1>7 DEF StartCheck, StartRefused, StartPut, StartPutFails, StartPush, StartPushFails,
     StartCancel, StartCrash, DeadlinePasses
<1>8. ASSUME NEW r \in Requests,
             \/ Arrive(r) \/ GetRecord(r) \/ CheckDeadline(r) \/ Settle(r) \/ Reread(r)
             \/ RequestCrash(r)
      PROVE  contact' = contact
  BY <1>8 DEF Arrive, GetRecord, CheckDeadline, Settle, Reread, RequestCrash
<1>9. ASSUME NEW w \in Sweepers, Scan(w) \/ SweepCrash(w) \/ \E c \in Calls : SweepSettle(w, c)
      PROVE  contact' = contact
  BY <1>9 DEF Scan, SweepCrash, SweepSettle
<1>10. CASE UNCHANGED vars
  BY <1>10 DEF vars
<1> QED
  BY <1>1, <1>2, <1>3, <1>4, <1>5, <1>6, <1>7, <1>8, <1>9, <1>10
  DEF Next, StartStep, RequestStep

\* Every contact that the backend stopped has a call that was given up.
THEOREM StopsJustified ==
  ASSUME NoAmbiguousPush
  PROVE  Spec => []StopCause
<1>1. Init => StopCause
  BY DEF Init, StopCause
<1>2. Inv /\ StopCause /\ [Next]_vars => StopCause'
  <2> SUFFICES ASSUME Inv, StopCause, [Next]_vars PROVE StopCause'
    OBVIOUS
  <2>1. ASSUME NEW k \in Contacts, contact'[k] = "stopped"
        PROVE  \E c \in Calls : KeyOf[c] = k /\ rec'[c] \in GaveUp
    <3>1. PICK c \in Calls : KeyOf[c] = k /\ rec[c] \in GaveUp
      BY <2>1, StopsHaveCause DEF StopCause
    <3> QED
      BY <3>1, SettledStays DEF Settled
  <2>2. ASSUME NEW c \in Calls, start'[c] \in {"cancel", "stop"}
        PROVE  c \notin pushed' /\ (start'[c] = "stop" => rec'[c] \in GaveUp)
    <3>3. CASE start'[c] = start[c] /\ (c \in pushed' => c \in pushed)
      <4>1. c \notin pushed' /\ (start[c] = "stop" => rec[c] \in GaveUp)
        BY <2>2, <3>3 DEF StopCause
      <4> QED
        BY <3>3, <4>1, SettledStays DEF Settled
    <3> USE <2>2 DEF Inv, TypeOK
    <3>1. ASSUME NEW d \in Calls, StartPushFails(d)
          PROVE  /\ pushed' = pushed
                 /\ start'[c] = start[c] \/ (start'[c] = "cancel" /\ c \notin pushed)
      BY <3>1 DEF StartPushFails, NoAmbiguousPush, Written
    <3>2. CASE StartCancel(c)
      <4> PICK o \in transitionFromRinging(c, "cancelled") :
                 /\ rec' = [rec EXCEPT ![c] = o.status]
                 /\ start' = [start EXCEPT ![c] = IF o.told = "error" THEN "failed" ELSE "stop"]
        BY <3>2 DEF StartCancel
      <4>1. c \notin pushed /\ rec[c] \notin {"answered", "declined", "none"} /\ pushed' = pushed
        BY <3>2 DEF StartCancel, StopCause, Written
      <4>2. o.told # "error"
        OBVIOUS
      <4>3. o.status \in GaveUp
        BY <4>1, <4>2, UpdateFacts DEF Settled, GaveUp, Status
      <4> QED
        BY <4>1, <4>3
    <3>4. ASSUME NEW d \in Calls,
                 \/ StartCheck(d) \/ StartRefused(d) \/ StartContact(d) \/ StartContactFails(d)
                 \/ StartPut(d) \/ StartPutFails(d) \/ StartPush(d) \/ StartStop(d)
                 \/ StartCrash(d) \/ DeadlinePasses(d) \/ (d # c /\ StartCancel(d))
          PROVE  start'[c] = start[c] /\ (c \in pushed' => c \in pushed)
      BY <3>4 DEF StartCheck, StartRefused, StartContact, StartContactFails, StartPut,
         StartPutFails, StartPush, StartStop, StartCrash, DeadlinePasses, StartCancel
    <3>5. ASSUME NEW r \in Requests, Arrive(r) \/ RequestStep(r) \/ RequestCrash(r)
          PROVE  start'[c] = start[c] /\ (c \in pushed' => c \in pushed)
      BY <3>5 DEF Arrive, RequestStep, GetRecord, CheckDeadline, Settle, Reread, Stop, RequestCrash
    <3>6. ASSUME NEW w \in Sweepers,
                 \/ Scan(w) \/ SweepCrash(w)
                 \/ \E d \in Calls : SweepSettle(w, d) \/ SweepStop(w, d)
          PROVE  start'[c] = start[c] /\ (c \in pushed' => c \in pushed)
      BY <3>6 DEF Scan, SweepCrash, SweepSettle, SweepStop
    <3>7. ASSUME NEW k \in Contacts, HangUp(k)
          PROVE  start'[c] = start[c] /\ (c \in pushed' => c \in pushed)
      BY <3>7 DEF HangUp
    <3>8. CASE UNCHANGED vars
      BY <3>3, <3>8 DEF vars
    <3> QED
      BY <3>1, <3>2, <3>3, <3>4, <3>5, <3>6, <3>7, <3>8 DEF Next, StartStep
  <2> QED
    BY <2>1, <2>2 DEF StopCause
<1> QED
  BY Invariance, <1>1, <1>2, PTL DEF Spec

\* The backend never stops the contact of an answered call.
THEOREM AnsweredIsSafe ==
  ASSUME NoAmbiguousPush, DistinctKeys
  PROVE  Spec => []AnsweredStaysUp
<1>1. StopCause => AnsweredStaysUp
  BY ConstantsAssumption DEF StopCause, AnsweredStaysUp, DistinctKeys, GaveUp
<1> QED
  BY StopsJustified, <1>1, PTL

----
(* Every step is a step of the lifecycle, or invisible to it. *)

\* The credentials that are out depend on the requests alone.
LEMMA SameRequests ==
  ASSUME req' = req PROVE handedOver' = handedOver
BY DEF handedOver

\* A request that is not at its session yet only adds its call when it gets there.
LEMMA OneRequest ==
  ASSUME TypeOK, NEW r \in Requests, req[r].pc # "session",
         \A x \in Requests : x # r => req'[x] = req[x],
         req'[r].call = req[r].call \/ req'[r].pc # "session"
  PROVE  /\ req'[r].pc # "session" => handedOver' = handedOver
         /\ req'[r].pc = "session" /\ req[r].call \in Calls
              => handedOver' = handedOver \cup {req[r].call}
<1>1. ASSUME req'[r].pc # "session" PROVE handedOver' = handedOver
  BY <1>1 DEF handedOver
<1>2. ASSUME req'[r].pc = "session", req[r].call \in Calls
      PROVE  handedOver' = handedOver \cup {req[r].call}
  <2>1. ASSUME NEW c \in handedOver' PROVE c \in handedOver \cup {req[r].call}
    BY <1>2, <2>1 DEF handedOver
  <2>2. ASSUME NEW c \in handedOver \cup {req[r].call} PROVE c \in handedOver'
    BY <1>2, <2>2 DEF handedOver
  <2> QED
    BY <2>1, <2>2
<1> QED
  BY <1>1, <1>2

\* A stop that has a cause is a release, or finds no live contact.
LEMMA ReleaseStep ==
  ASSUME Inv, DistinctKeys, NEW c \in Calls, rec[c] \in GaveUp,
         contact' \in stopContact(KeyOf[c]), rec' = rec, handedOver' = handedOver
  PROVE  [Lifecycle!Next]_Lifecycle!vars
<1> DEFINE k == KeyOf[c]
<1>1. k \in Contacts /\ TypeOK
  BY ConstantsAssumption DEF Inv
<1>2. contact' = contact \/ (contact[k] = "live" /\ contact' = [contact EXCEPT ![k] = "stopped"])
  BY <1>1 DEF stopContact, TypeOK
<1>3. \A d \in Calls : KeyOf[d] = k => rec[d] # "answered"
  BY DEF DistinctKeys, GaveUp
<1>4. CASE contact' = contact
  BY <1>4 DEF Lifecycle!vars
<1>5. CASE contact[k] = "live" /\ contact' = [contact EXCEPT ![k] = "stopped"]
  <2>1. Lifecycle!Release(k)
    BY <1>3, <1>5 DEF Lifecycle!Release, Lifecycle!GaveUp, GaveUp
  <2> QED
    BY <1>1, <2>1 DEF Lifecycle!Next
<1> QED
  BY <1>2, <1>4, <1>5

\* A start of the contact places it, or finds it placed.
LEMMA PlaceStep ==
  ASSUME Inv, NEW k \in Contacts, contact' \in {contact, startWebRtcContact(k)},
         rec' = rec, handedOver' = handedOver
  PROVE  [Lifecycle!Next]_Lifecycle!vars
<1>1. CASE contact' = contact
  BY <1>1 DEF Lifecycle!vars
<1>2. CASE contact' = startWebRtcContact(k) /\ contact[k] # "none"
  BY <1>1, <1>2 DEF startWebRtcContact, Inv, TypeOK
<1>3. CASE contact' = startWebRtcContact(k) /\ contact[k] = "none"
  BY <1>3 DEF startWebRtcContact, Lifecycle!Next, Lifecycle!Place
<1> QED
  BY <1>1, <1>2, <1>3

\* A record that is moved away from ringing by anyone but an answer gives the call up.
LEMMA GiveUpStep ==
  ASSUME TypeOK, NEW c \in Calls, NEW next \in GaveUp,
         NEW o \in transitionFromRinging(c, next),
         rec' = [rec EXCEPT ![c] = o.status], contact' = contact, handedOver' = handedOver
  PROVE  [Lifecycle!Next]_Lifecycle!vars
<1>1. CASE o.status = rec[c]
  BY <1>1 DEF TypeOK, Lifecycle!vars
<1>2. CASE o.status # rec[c]
  <2>1. rec[c] = "ringing" /\ o.status \in GaveUp
    BY <1>2, UpdateFacts DEF Settled
  <2>2. Lifecycle!GiveUp(c)
    BY <2>1 DEF Lifecycle!GiveUp, Lifecycle!GaveUp, GaveUp
  <2> QED
    BY <2>2 DEF Lifecycle!Next
<1> QED
  BY <1>1, <1>2

\* Every step of POST /calls/outbound places a leg, makes a call ring, gives
\* it up, releases its leg, or is invisible to the abstract lifecycle.
LEMMA StartRefines ==
  ASSUME Inv, StopCause, DistinctKeys, NEW c \in Calls,
         StartCheck(c) \/ StartRefused(c) \/ StartStep(c) \/ StartCrash(c) \/ DeadlinePasses(c)
  PROVE  [Lifecycle!Next]_Lifecycle!vars
<1>0. TypeOK /\ KeyOf[c] \in Contacts
  BY ConstantsAssumption DEF Inv
<1>1. CASE StartContact(c) \/ StartContactFails(c)
  BY <1>0, <1>1, PlaceStep, SameRequests DEF StartContact, StartContactFails
<1>2. CASE StartPut(c) \/ StartPutFails(c)
  <2>1. /\ rec' \in {rec, [rec EXCEPT ![c] = "ringing"]}
        /\ rec[c] = "none" /\ contact[KeyOf[c]] # "none"
        /\ contact' = contact /\ handedOver' = handedOver
    BY <1>2, SameRequests DEF StartPut, StartPutFails, Inv, Placed, Written
  <2>2. CASE rec' = rec
    BY <2>1, <2>2 DEF Lifecycle!vars
  <2>3. CASE rec' = [rec EXCEPT ![c] = "ringing"]
    BY <2>1, <2>3 DEF Lifecycle!Ring, Lifecycle!Next
  <2> QED
    BY <2>1, <2>2, <2>3
<1>3. CASE StartCancel(c)
  BY <1>0, <1>3, GiveUpStep, SameRequests DEF StartCancel, GaveUp
<1>4. CASE StartStop(c)
  BY <1>4, ReleaseStep, SameRequests DEF StartStop, StopCause
<1>5. CASE \/ StartCheck(c) \/ StartRefused(c) \/ StartPush(c) \/ StartPushFails(c)
           \/ StartCrash(c) \/ DeadlinePasses(c)
  <2>1. rec' = rec /\ contact' = contact /\ req' = req
    BY <1>5 DEF StartCheck, StartRefused, StartPush, StartPushFails, StartCrash, DeadlinePasses
  <2> QED
    BY <2>1, SameRequests DEF Lifecycle!vars
<1> QED
  BY <1>1, <1>2, <1>3, <1>4, <1>5 DEF StartStep

\* Every step of an answer or a decline answers the call, hands its
\* credentials over, gives it up, releases its leg, or is invisible.
LEMMA RequestRefines ==
  ASSUME Inv, DistinctKeys, NEW r \in Requests,
         Arrive(r) \/ RequestStep(r) \/ RequestCrash(r)
  PROVE  [Lifecycle!Next]_Lifecycle!vars
<1> DEFINE c == req[r].call
<1>0. TypeOK /\ (req[r].pc # "idle" => c \in Calls)
  BY DEF Inv, Known, TypeOK
<1>1. CASE Arrive(r) \/ CheckDeadline(r) \/ RequestCrash(r)
  <2>1. /\ rec' = rec /\ contact' = contact
        /\ req[r].pc # "session" /\ req'[r].pc # "session"
        /\ \A x \in Requests : x # r => req'[x] = req[x]
    BY <1>0, <1>1 DEF Arrive, CheckDeadline, RequestCrash, TypeOK, InFlight
  <2> QED
    BY <1>0, <2>1, OneRequest DEF Lifecycle!vars
<1>2. CASE GetRecord(r) \/ Reread(r)
  <2>1. /\ rec' = rec /\ contact' = contact /\ c \in Calls
        /\ req[r].pc # "session" /\ req'[r].call = c
        /\ \A x \in Requests : x # r => req'[x] = req[x]
    BY <1>0, <1>2 DEF GetRecord, Reread, TypeOK
  <2>2. req'[r].pc = "session" => rec[c] = "answered"
    <3>1. CASE GetRecord(r)
      BY <1>0, <3>1, GetFacts, AfterGetFacts DEF GetRecord, TypeOK, Settled
    <3>2. CASE Reread(r)
      BY <1>0, <3>2, GetFacts DEF Reread, TypeOK, Settled
    <3> QED
      BY <1>2, <3>1, <3>2
  <2>3. CASE req'[r].pc = "session"
    <3>1. handedOver' = handedOver \cup {c}
      BY <1>0, <2>1, <2>3, OneRequest
    <3> QED
      BY <2>1, <2>2, <2>3, <3>1 DEF Lifecycle!Next, Lifecycle!HandOver
  <2>4. CASE req'[r].pc # "session"
    BY <1>0, <2>1, <2>4, OneRequest DEF Lifecycle!vars
  <2> QED
    BY <2>3, <2>4
<1>3. CASE Settle(r)
  <2> PICK o \in transitionFromRinging(c, req[r].to) :
             /\ rec' = [rec EXCEPT ![c] = o.status]
             /\ req' = [req EXCEPT ![r].pc = AfterSettle(req[r].to, o.told)]
    BY <1>3 DEF Settle
  <2>1. /\ contact' = contact /\ c \in Calls /\ req[r].pc # "session"
        /\ req[r].to \in {"answered", "declined", "timedOut"}
        /\ req'[r].pc = AfterSettle(req[r].to, o.told) /\ req'[r].call = c
        /\ \A x \in Requests : x # r => req'[x] = req[x]
    BY <1>0, <1>3 DEF Settle, TypeOK
  <2>2. CASE req[r].to \in GaveUp
    <3>1. req'[r].pc # "session"
      BY <1>0, <2>1, <2>2, UpdateFacts, AfterSettleFacts DEF Settled, GaveUp
    <3> QED
      BY <1>0, <2>1, <2>2, <3>1, OneRequest, GiveUpStep
  <2>3. CASE req[r].to = "answered"
    <3>1. /\ o.status # rec[c] => rec[c] = "ringing" /\ o.status = "answered"
          /\ o.told = "won" => rec[c] = "ringing" /\ o.status = "answered"
          /\ req'[r].pc = "session" => o.told = "won"
      BY <1>0, <2>1, <2>3, UpdateFacts, AfterSettleFacts DEF Settled
    <3>2. CASE o.status = rec[c]
      BY <1>0, <2>1, <3>1, <3>2, OneRequest DEF TypeOK, Lifecycle!vars
    <3>3. CASE o.status # rec[c]
      <4>1. handedOver' \in {handedOver, handedOver \cup {c}}
        BY <1>0, <2>1, OneRequest
      <4>2. Lifecycle!Answer(c)
        BY <2>1, <3>1, <3>3, <4>1 DEF Lifecycle!Answer
      <4> QED
        BY <2>1, <4>2 DEF Lifecycle!Next
    <3> QED
      BY <3>2, <3>3
  <2> QED
    BY <2>1, <2>2, <2>3 DEF GaveUp
<1>4. CASE Stop(r)
  <2>1. rec[c] \in GaveUp /\ contact' \in stopContact(KeyOf[c]) /\ rec' = rec
    BY <1>4 DEF Stop, Inv, Stopping
  <2>2. /\ req[r].pc # "session" /\ req'[r].pc # "session"
        /\ \A x \in Requests : x # r => req'[x] = req[x]
    BY <1>0, <1>4 DEF Stop, TypeOK
  <2> QED
    BY <1>0, <1>4, <2>1, <2>2, OneRequest, ReleaseStep DEF Stop
<1> QED
  BY <1>1, <1>2, <1>3, <1>4 DEF RequestStep

\* Every step of a sweep gives a call up, releases its leg, or is invisible.
LEMMA SweepRefines ==
  ASSUME Inv, DistinctKeys, NEW w \in Sweepers,
         \/ Scan(w) \/ SweepCrash(w)
         \/ \E c \in Calls : SweepSettle(w, c) \/ SweepStop(w, c)
  PROVE  [Lifecycle!Next]_Lifecycle!vars
<1>1. CASE Scan(w) \/ SweepCrash(w)
  BY <1>1, SameRequests DEF Scan, SweepCrash, Lifecycle!vars
<1>2. ASSUME NEW c \in Calls, SweepSettle(w, c) PROVE [Lifecycle!Next]_Lifecycle!vars
  BY <1>2, GiveUpStep, SameRequests DEF SweepSettle, GaveUp, Inv
<1>3. ASSUME NEW c \in Calls, SweepStop(w, c) PROVE [Lifecycle!Next]_Lifecycle!vars
  BY <1>3, ReleaseStep, SameRequests DEF SweepStop, Inv, Stopping
<1> QED
  BY <1>1, <1>2, <1>3

\* Under the two assumptions the backend implements the abstract lifecycle.
THEOREM Refinement ==
  ASSUME NoAmbiguousPush, DistinctKeys
  PROVE  Spec => ImplementsLifecycle
<1>1. Init => Lifecycle!Init
  BY DEF Init, Lifecycle!Init, handedOver
<1>2. Inv /\ StopCause /\ [Next]_vars => [Lifecycle!Next]_Lifecycle!vars
  <2> SUFFICES ASSUME Inv, StopCause, [Next]_vars PROVE [Lifecycle!Next]_Lifecycle!vars
    OBVIOUS
  <2>1. CASE UNCHANGED vars
    BY <2>1, SameRequests DEF vars, Lifecycle!vars
  <2>2. ASSUME NEW k \in Contacts, HangUp(k) PROVE [Lifecycle!Next]_Lifecycle!vars
    BY <2>2, SameRequests DEF HangUp, Lifecycle!Next, Lifecycle!HangUp
  <2> QED
    BY <2>1, <2>2, StartRefines, RequestRefines, SweepRefines DEF Next
<1> QED
  BY Invariance, StopsJustified, <1>1, <1>2, PTL DEF Spec, ImplementsLifecycle, Lifecycle!Spec

====

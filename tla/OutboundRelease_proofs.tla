---- MODULE OutboundRelease_proofs ----
(***************************************************************************)
(* Who stops a contact, and when: proofs about the releasing half of       *)
(* OutboundCalls, on top of its inductive invariant.                       *)
(***************************************************************************)
EXTENDS OutboundCalls_proofs

----
(* One releaser. *)

\* At most one worker is on its way to stop a contact, whatever the faults.
THEOREM ReleasesOnce == Spec => []OneReleaser
<1>1. Init => OneReleaser
  <2>1. Init => \A c \in Calls : Releasers(c) = {}
    <3> SUFFICES ASSUME Init, NEW c \in Calls, NEW x \in Releasers(c) PROVE FALSE
      OBVIOUS
    <3>1. /\ x \in Requests => req[x].pc = "idle"
          /\ x \in Sweepers => sweep[x].stopping = {}
      BY DEF Init
    <3> QED
      BY <3>1 DEF Releasers
  <2> QED
    BY <2>1 DEF OneReleaser
<1>2. Inv /\ OneReleaser /\ [Next]_vars => OneReleaser'
  <2> SUFFICES ASSUME Inv, OneReleaser, [Next]_vars PROVE OneReleaser'
    OBVIOUS
  <2> USE DEF Inv, TypeOK, Settled, GaveUp
  <2>0. CASE UNCHANGED vars
    BY <2>0 DEF vars, OneReleaser, Releasers
  <2>1. ASSUME NEW c \in Calls, StartStep(c) PROVE OneReleaser'
    <3>1. UNCHANGED <<req, sweep>> /\ \A d \in Calls : rec[d] \in Settled => rec'[d] = rec[d]
      BY <2>1, UpdateFacts DEF StartStep, StartContact, StartContactFails, StartPut, StartPutFails,
         StartPush, StartPushFails, StartCancel, StartStop, Written
    <3> QED
      BY <3>1 DEF OneReleaser, Releasers
  <2>2. ASSUME NEW c \in Calls, StartCheck(c) \/ StartRefused(c) \/ StartCrash(c) \/ DeadlinePasses(c)
        PROVE  OneReleaser'
    BY <2>2 DEF StartCheck, StartRefused, StartCrash, DeadlinePasses, OneReleaser, Releasers
  <2>3. ASSUME NEW r \in Requests,
               \/ Arrive(r) \/ GetRecord(r) \/ CheckDeadline(r) \/ Reread(r)
               \/ Stop(r) \/ RequestCrash(r)
        PROVE  OneReleaser'
    <3>1. rec' = rec /\ \A c \in Calls : Releasers(c)' \subseteq Releasers(c)
      <4>1. \A c \in Calls : req'[r].pc # "stop" /\ \A x \in Requests : x # r => req'[x] = req[x]
        <5>1. CASE GetRecord(r)
          BY <5>1, AfterGetFacts, GetFacts DEF GetRecord, Known
        <5>2. CASE CheckDeadline(r)
          BY <5>2 DEF CheckDeadline
        <5> QED
          BY <2>3, <5>1, <5>2 DEF Arrive, Reread, Stop, RequestCrash
      <4>2. UNCHANGED <<rec, sweep>>
        BY <2>3 DEF Arrive, GetRecord, CheckDeadline, Reread, Stop, RequestCrash
      <4> QED
        BY <4>1, <4>2 DEF Releasers
    <3> QED
      BY <3>1 DEF OneReleaser
  <2>4. ASSUME NEW r \in Requests, Settle(r) PROVE OneReleaser'
    <3> DEFINE c == req[r].call
    <3>1. c \in Calls /\ req[r].to \in Settled
      BY <2>4 DEF Settle, Known
    <3> PICK o \in transitionFromRinging(c, req[r].to) :
               /\ rec' = [rec EXCEPT ![c] = o.status]
               /\ req' = [req EXCEPT ![r].pc = AfterSettle(req[r].to, o.told)]
      BY <2>4 DEF Settle
    <3>2. \A d \in Calls : rec[d] \in Settled => rec'[d] = rec[d]
      BY <3>1, UpdateFacts
    <3>3. \A d \in Calls : \A x \in Releasers(d)' :
            x \in Releasers(d) \/ (x = r /\ d = c /\ rec[c] = "ringing" /\ o.told = "won" /\ req[r].to # "answered")
      BY <2>4, <3>1, UpdateFacts, AfterSettleFacts DEF Settle, Releasers
    <3>4. rec[c] = "ringing" => Releasers(c) = {}
      BY <3>1 DEF OneReleaser
    <3>5. o.told = "won" /\ req[r].to # "answered" => rec'[c] \in {"declined", "timedOut"}
      BY <3>1, UpdateFacts
    <3> QED
      BY <3>1, <3>2, <3>3, <3>4, <3>5 DEF OneReleaser
  <2>5. ASSUME NEW w \in Sweepers, NEW c \in Calls, SweepSettle(w, c) PROVE OneReleaser'
    <3> PICK o \in transitionFromRinging(c, "timedOut") :
               /\ rec' = [rec EXCEPT ![c] = o.status]
               /\ sweep' = [sweep EXCEPT ![w] =
                      [todo |-> IF o.told = "error" THEN {} ELSE @.todo \ {c},
                       stopping |-> IF o.told = "won" THEN {c} ELSE {}]]
      BY <2>5 DEF SweepSettle
    <3>2. \A d \in Calls : rec[d] \in Settled => rec'[d] = rec[d]
      BY UpdateFacts
    <3>3. \A d \in Calls : \A x \in Releasers(d)' :
            x \in Releasers(d) \/ (x = w /\ d = c /\ rec[c] = "ringing" /\ o.told = "won")
      BY <2>5, UpdateFacts DEF SweepSettle, Releasers
    <3>4. rec[c] = "ringing" => Releasers(c) = {}
      BY DEF OneReleaser
    <3>5. o.told = "won" => rec'[c] = "timedOut"
      BY UpdateFacts
    <3> QED
      BY <3>2, <3>3, <3>4, <3>5 DEF OneReleaser
  <2>6. ASSUME NEW w \in Sweepers, Scan(w) \/ SweepCrash(w) \/ \E c \in Calls : SweepStop(w, c)
        PROVE  OneReleaser'
    <3>1. rec' = rec /\ \A c \in Calls : Releasers(c)' \subseteq Releasers(c)
      BY <2>6 DEF Scan, SweepCrash, SweepStop, idleSweeper, Releasers
    <3> QED
      BY <3>1 DEF OneReleaser
  <2>7. ASSUME NEW k \in Contacts, HangUp(k) PROVE OneReleaser'
    BY <2>7 DEF HangUp, OneReleaser, Releasers
  <2> QED
    BY <2>0, <2>1, <2>2, <2>3, <2>4, <2>5, <2>6, <2>7 DEF Next, RequestStep
<1> QED
  BY Invariance, <1>1, <1>2, PTL DEF Spec

----
(* No agent is left behind a call that was given up. *)

\* If an update is only applied when its caller is told, who changes a record
\* knows that it won.
LEMMA WinnerKnows ==
  ASSUME TypeOK, NoLostStop, NEW c \in Calls, NEW next \in Settled,
         NEW o \in transitionFromRinging(c, next)
  PROVE  o.status # rec[c] => o.told = "won"
BY DEF TypeOK, NoLostStop, transitionFromRinging

\* A stop that does not fail leaves no live contact.
LEMMA StopEnds ==
  ASSUME TypeOK, NoLostStop, NEW k \in Contacts, NEW x \in stopContact(k)
  PROVE  x[k] # "live"
BY DEF TypeOK, NoLostStop, stopContact, ContactState

\* As long as no invocation dies, no reply is lost and no stop fails, an agent
\* leg behind a call that was given up has someone on the way to stop it.
THEOREM NoZombies ==
  ASSUME NoLostStop
  PROVE  Spec => []NoZombieLeg
<1> DEFINE Left(c) == rec[c] \in GaveUp /\ contact[KeyOf[c]] = "live"
           Soon(c) == Releasers(c) # {} \/ start[c] = "stop"
<1>1. Init => NoZombieLeg
  BY DEF Init, NoZombieLeg, GaveUp
<1>2. Inv /\ NoZombieLeg /\ [Next]_vars => NoZombieLeg'
  <2> SUFFICES ASSUME Inv, NoZombieLeg, [Next]_vars, NEW d \in Calls, Left(d)'
               PROVE  Soon(d)'
    BY DEF NoZombieLeg
  <2>a. Left(d) => Soon(d)
    BY DEF NoZombieLeg
  <2>b. KeyOf[d] \in Contacts /\ TypeOK
    BY ConstantsAssumption DEF Inv
  <2> USE DEF Settled, GaveUp
  <2>0. CASE UNCHANGED vars
    BY <2>a, <2>0 DEF vars, Releasers
  <2>1. ASSUME NEW c \in Calls, StartContact(c) \/ StartContactFails(c) PROVE Soon(d)'
    <3>1. start[d] = "stop" => start'[d] = "stop"
      BY <2>1, <2>b DEF StartContact, StartContactFails, TypeOK
    <3>2. UNCHANGED <<rec, req, sweep>>
      BY <2>1 DEF StartContact, StartContactFails
    <3>3. contact[KeyOf[d]] = "live"
      <4>1. contact[KeyOf[d]] # "none"
        BY <3>2 DEF Inv, Placed
      <4> QED
        BY <2>1, <2>b, <4>1, PlaceFacts, ConstantsAssumption DEF StartContact, StartContactFails
    <3> QED
      BY <2>a, <3>1, <3>2, <3>3 DEF Releasers
  <2>2. ASSUME NEW c \in Calls,
               \/ StartCheck(c) \/ StartRefused(c) \/ StartPut(c) \/ StartPutFails(c)
               \/ StartPush(c) \/ StartPushFails(c) \/ DeadlinePasses(c)
        PROVE  Soon(d)'
    <3>1. start[d] = "stop" => start'[d] = "stop"
      BY <2>2, <2>b DEF StartCheck, StartRefused, StartPut, StartPutFails, StartPush,
         StartPushFails, DeadlinePasses, TypeOK
    <3>2. UNCHANGED <<contact, req, sweep>> /\ rec[d] = rec'[d]
      BY <2>2, <2>b DEF StartCheck, StartRefused, StartPut, StartPutFails, StartPush,
         StartPushFails, DeadlinePasses, TypeOK
    <3> QED
      BY <2>a, <3>1, <3>2 DEF Releasers
  <2>3. ASSUME NEW c \in Calls, StartCancel(c) PROVE Soon(d)'
    <3> PICK o \in transitionFromRinging(c, "cancelled") :
               /\ rec' = [rec EXCEPT ![c] = o.status]
               /\ start' = [start EXCEPT ![c] = IF o.told = "error" THEN "failed" ELSE "stop"]
      BY <2>3 DEF StartCancel
    <3>1. UNCHANGED <<contact, req, sweep>> /\ start[c] = "cancel"
      BY <2>3 DEF StartCancel
    <3>2. CASE rec'[d] = rec[d]
      BY <2>a, <2>b, <3>1, <3>2 DEF Releasers, TypeOK
    <3>3. CASE rec'[d] # rec[d]
      BY <2>b, <3>3, WinnerKnows DEF TypeOK
    <3> QED
      BY <3>2, <3>3
  <2>4. ASSUME NEW c \in Calls, StartStop(c) PROVE Soon(d)'
    <3>1. /\ KeyOf[c] \in Contacts
          /\ UNCHANGED <<rec, req, sweep>>
          /\ contact' \in stopContact(KeyOf[c])
          /\ start' = [start EXCEPT ![c] = "failed"]
      BY <2>4, ConstantsAssumption DEF StartStop
    <3>2. d # c /\ contact[KeyOf[d]] = "live"
      BY <2>b, <3>1, StopEnds, StopFacts
    <3> QED
      BY <2>a, <2>b, <3>1, <3>2 DEF Releasers, TypeOK
  <2>5. ASSUME NEW c \in Calls, StartCrash(c) PROVE FALSE
    BY <2>5 DEF StartCrash, NoLostStop
  <2>6. ASSUME NEW r \in Requests,
               Arrive(r) \/ GetRecord(r) \/ CheckDeadline(r) \/ Reread(r)
        PROVE  Soon(d)'
    <3>1. UNCHANGED <<rec, contact, start, sweep>> /\ req[r].pc # "stop"
      BY <2>6 DEF Arrive, GetRecord, CheckDeadline, Reread
    <3>2. \A x \in Requests : x # r => req'[x] = req[x]
      BY <2>6, <2>b DEF Arrive, GetRecord, CheckDeadline, Reread, TypeOK
    <3> QED
      BY <2>a, <3>1, <3>2 DEF Releasers
  <2>7. ASSUME NEW r \in Requests, Settle(r) PROVE Soon(d)'
    <3> DEFINE c == req[r].call
    <3>1. c \in Calls /\ req[r].to \in {"answered", "declined", "timedOut"}
      BY <2>7, <2>b DEF Settle, Inv, Known, TypeOK
    <3> PICK o \in transitionFromRinging(c, req[r].to) :
               /\ rec' = [rec EXCEPT ![c] = o.status]
               /\ req' = [req EXCEPT ![r].pc = AfterSettle(req[r].to, o.told)]
      BY <2>7 DEF Settle
    <3>2. UNCHANGED <<contact, start, sweep>> /\ req[r].pc = "settle"
      BY <2>7 DEF Settle
    <3>3. CASE rec'[d] = rec[d]
      BY <2>a, <2>b, <3>2, <3>3 DEF Releasers, TypeOK
    <3>4. CASE rec'[d] # rec[d]
      <4>1. d = c /\ o.status # rec[c] /\ o.status \in GaveUp
        BY <2>b, <3>1, <3>4 DEF TypeOK
      <4>2. o.told = "won" /\ req[r].to # "answered"
        BY <2>b, <3>1, <4>1, WinnerKnows, UpdateFacts
      <4>3. req'[r].pc = "stop" /\ req'[r].call = c
        BY <2>b, <3>1, <4>2 DEF AfterSettle, TypeOK
      <4> QED
        BY <4>1, <4>3 DEF Releasers
    <3> QED
      BY <3>3, <3>4
  <2>8. ASSUME NEW r \in Requests, Stop(r) PROVE Soon(d)'
    <3> DEFINE c == req[r].call
    <3>1. /\ KeyOf[c] \in Contacts
          /\ UNCHANGED <<rec, start, sweep>>
          /\ contact' \in stopContact(KeyOf[c])
          /\ \A x \in Requests : x # r => req'[x] = req[x]
      BY <2>8, <2>b, ConstantsAssumption DEF Stop, Inv, Known, TypeOK
    <3>2. d # c /\ contact[KeyOf[d]] = "live"
      BY <2>b, <3>1, StopEnds, StopFacts
    <3> QED
      BY <2>a, <3>1, <3>2 DEF Releasers
  <2>9. ASSUME NEW r \in Requests, RequestCrash(r) PROVE FALSE
    BY <2>9 DEF RequestCrash, NoLostStop
  <2>10. ASSUME NEW w \in Sweepers, Scan(w) PROVE Soon(d)'
    <3>1. /\ UNCHANGED <<rec, contact, start, req>>
          /\ sweep[w].stopping = {}
          /\ \A x \in Sweepers : x # w => sweep'[x] = sweep[x]
      BY <2>10, <2>b DEF Scan, idleSweeper, TypeOK
    <3> QED
      BY <2>a, <3>1 DEF Releasers
  <2>11. ASSUME NEW w \in Sweepers, NEW c \in Calls, SweepSettle(w, c) PROVE Soon(d)'
    <3> PICK o \in transitionFromRinging(c, "timedOut") :
               /\ rec' = [rec EXCEPT ![c] = o.status]
               /\ sweep' = [sweep EXCEPT ![w] =
                      [todo |-> IF o.told = "error" THEN {} ELSE @.todo \ {c},
                       stopping |-> IF o.told = "won" THEN {c} ELSE {}]]
      BY <2>11 DEF SweepSettle
    <3>1. UNCHANGED <<contact, start, req>> /\ sweep[w].stopping = {}
      BY <2>11 DEF SweepSettle
    <3>2. CASE rec'[d] = rec[d]
      BY <2>a, <2>b, <3>1, <3>2 DEF Releasers, TypeOK
    <3>3. CASE rec'[d] # rec[d]
      BY <2>b, <3>3, WinnerKnows DEF Releasers, TypeOK
    <3> QED
      BY <3>2, <3>3
  <2>12. ASSUME NEW w \in Sweepers, NEW c \in Calls, SweepStop(w, c) PROVE Soon(d)'
    <3>1. /\ KeyOf[c] \in Contacts
          /\ UNCHANGED <<rec, start, req>>
          /\ contact' \in stopContact(KeyOf[c])
          /\ sweep' = [sweep EXCEPT ![w].stopping = @ \ {c}]
      BY <2>12, ConstantsAssumption DEF SweepStop
    <3>2. d # c /\ contact[KeyOf[d]] = "live"
      BY <2>b, <3>1, StopEnds, StopFacts
    <3> QED
      BY <2>a, <2>b, <3>1, <3>2 DEF Releasers, TypeOK
  <2>13. ASSUME NEW w \in Sweepers, SweepCrash(w) PROVE FALSE
    BY <2>13 DEF SweepCrash, NoLostStop
  <2>14. ASSUME NEW k \in Contacts, HangUp(k) PROVE Soon(d)'
    BY <2>a, <2>b, <2>14 DEF HangUp, Releasers, TypeOK
  <2> HIDE DEF Soon
  <2> QED
    BY <2>0, <2>1, <2>2, <2>3, <2>4, <2>5, <2>6, <2>7, <2>8, <2>9, <2>10, <2>11, <2>12,
       <2>13, <2>14 DEF Next, StartStep, RequestStep
<1> QED
  BY Invariance, <1>1, <1>2, PTL DEF Spec

====

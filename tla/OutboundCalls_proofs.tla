---- MODULE OutboundCalls_proofs ----
(***************************************************************************)
(* Proofs about OutboundCalls, for any number of calls, contacts, agents,  *)
(* requests and sweepers, and for every set of faults.                     *)
(***************************************************************************)
EXTENDS OutboundCalls, TLAPS

----
(* The operators that stand for the store, Connect and the handlers' branches. *)

\* A read never invents a settled status: what it returns is the status or an
\* earlier one.
LEMMA GetFacts ==
  ASSUME TypeOK, NEW c \in Calls, NEW v \in get(c)
  PROVE  /\ v \in Status
         /\ v \in Settled => rec[c] = v
BY DEF TypeOK, get, Status, Settled, GaveUp

\* The conditional update: it only moves a ringing record, and its caller is
\* told that it won only if it did.
LEMMA UpdateFacts ==
  ASSUME TypeOK, NEW c \in Calls, NEW next \in Settled,
         NEW o \in transitionFromRinging(c, next)
  PROVE  /\ o.told \in {"won", "lost", "error"}
         /\ o.status \in Status
         /\ o.status # rec[c] => rec[c] = "ringing" /\ o.status = next
         /\ o.told = "won" => o.status = next /\ rec[c] = "ringing"
         /\ o.told = "lost" => o.status # "ringing"
BY DEF TypeOK, transitionFromRinging, Status, Settled, GaveUp

\* Where a request may go after its first read.
LEMMA AfterGetFacts ==
  ASSUME NEW to \in {"answered", "declined", "timedOut"}, NEW v \in Status
  PROVE  /\ AfterGet(to, v) \in {"notFound", "settle", "session", "gone", "check"}
         /\ AfterGet(to, v) = "session" => v = "answered"
         /\ AfterGet(to, v) = "gone" => v \in GaveUp
         /\ AfterGet(to, v) = "settle" => to = "declined"
BY DEF AfterGet, Status, Settled, GaveUp

\* Where a request may go after the conditional update.
LEMMA AfterSettleFacts ==
  ASSUME NEW to \in {"answered", "declined", "timedOut"},
         NEW told \in {"won", "lost", "error"}
  PROVE  /\ AfterSettle(to, told) \in {"error", "session", "stop", "reread", "gone", "noContent"}
         /\ AfterSettle(to, told) = "session" => told = "won" /\ to = "answered"
         /\ AfterSettle(to, told) = "stop" => told = "won" /\ to # "answered"
         /\ AfterSettle(to, told) \in {"reread", "gone"} => told = "lost"
BY DEF AfterSettle

\* StopContact only ever ends the one live contact it is called for.
LEMMA StopFacts ==
  ASSUME TypeOK, NEW k \in Contacts, NEW x \in stopContact(k)
  PROVE  /\ x \in [Contacts -> ContactState]
         /\ \A j \in Contacts : x[j] = contact[j]
                                \/ (j = k /\ contact[j] = "live" /\ x[j] = "stopped")
BY DEF TypeOK, stopContact, ContactState

\* StartWebRTCContact only ever creates a contact that did not exist.
LEMMA PlaceFacts ==
  ASSUME TypeOK, NEW k \in Contacts
  PROVE  /\ startWebRtcContact(k) \in [Contacts -> ContactState]
         /\ startWebRtcContact(k)[k] # "none"
         /\ \A j \in Contacts : startWebRtcContact(k)[j] = contact[j]
                                \/ (j = k /\ contact[j] = "none" /\ startWebRtcContact(k)[j] = "live")
BY DEF TypeOK, startWebRtcContact, ContactState

\* The sweeper only visits records whose deadline has passed.
LEMMA ScanFacts ==
  ASSUME NEW S \in listExpiredRinging PROVE S \subseteq expired
BY DEF listExpiredRinging

----
(* The inductive invariant: one lemma for each kind of invocation. *)

\* No call, worker or contact exists yet, so every part of Inv holds at first.
LEMMA InitInv == Init => Inv
BY ConstantsAssumption DEF Init, Inv, TypeOK, Known, Placed, Written, Stopping, Lost, Late,
   CredentialsOnlyIfAnswered, NoEarlyTimeout, Status, ContactState, StartPc

\* A contact that changes only from none to live, or from live to an end, does
\* not disturb anything a worker knows.
LEMMA ContactStep ==
  ASSUME Inv, contact' \in [Contacts -> ContactState],
         \A k \in Contacts : contact'[k] = "none" => contact[k] = "none",
         NEW c \in Calls,
         start' = [start EXCEPT ![c] = "failed"] \/ UNCHANGED start,
         UNCHANGED <<rec, expired, pushed, req, sweep>>
  PROVE  Inv'
<1> USE ConstantsAssumption DEF Inv
<1>1. TypeOK'
  BY DEF TypeOK, StartPc
<1>2. Placed'
  BY DEF Placed, TypeOK
<1>3. Written'
  BY DEF Written, TypeOK
<1>4. Known' /\ Stopping' /\ Lost' /\ Late' /\ CredentialsOnlyIfAnswered' /\ NoEarlyTimeout'
  BY DEF Known, Stopping, Lost, Late, CredentialsOnlyIfAnswered, NoEarlyTimeout
<1> QED
  BY <1>1, <1>2, <1>3, <1>4

\* Every step of POST /calls/outbound preserves Inv: the record is written
\* once, after the contact and before the push.
LEMMA StartInv ==
  ASSUME Inv, NEW c \in Calls,
         StartCheck(c) \/ StartRefused(c) \/ StartStep(c) \/ StartCrash(c) \/ DeadlinePasses(c)
  PROVE  Inv'
<1> DEFINE k == KeyOf[c]
<1>0. k \in Contacts /\ TypeOK
  BY ConstantsAssumption DEF Inv
<1>1. CASE StartContact(c)
  <2>1. /\ contact' \in [Contacts -> ContactState]
        /\ contact'[k] # "none"
        /\ \A j \in Contacts : contact'[j] = "none" => contact[j] = "none"
    BY <1>0, <1>1, PlaceFacts DEF StartContact
  <2>2. TypeOK'
    BY <1>0, <1>1, <2>1 DEF StartContact, TypeOK, StartPc
  <2>3. Placed' /\ Written'
    BY <1>0, <1>1, <2>1, ConstantsAssumption DEF StartContact, Inv, TypeOK, Placed, Written
  <2>4. Known' /\ Stopping' /\ Lost' /\ Late' /\ CredentialsOnlyIfAnswered' /\ NoEarlyTimeout'
    BY <1>1 DEF StartContact, Inv, Known, Stopping, Lost, Late,
       CredentialsOnlyIfAnswered, NoEarlyTimeout
  <2> QED
    BY <2>2, <2>3, <2>4 DEF Inv
<1>2. CASE StartContactFails(c)
  <2>1. /\ contact' \in [Contacts -> ContactState]
        /\ \A j \in Contacts : contact'[j] = "none" => contact[j] = "none"
    BY <1>0, <1>2, PlaceFacts DEF StartContactFails, TypeOK
  <2> QED
    BY <1>2, <2>1, ContactStep DEF StartContactFails
<1>3. CASE StartStop(c)
  <2>1. /\ contact' \in [Contacts -> ContactState]
        /\ \A j \in Contacts : contact'[j] = "none" => contact[j] = "none"
    BY <1>0, <1>3, StopFacts DEF StartStop
  <2> QED
    BY <1>3, <2>1, ContactStep DEF StartStop
<1> USE ConstantsAssumption
    DEF Inv, TypeOK, Known, Placed, Written, Stopping, Lost, Late,
        CredentialsOnlyIfAnswered, NoEarlyTimeout, Status, Settled, GaveUp, StartPc
<1>4. CASE StartCheck(c)
  BY <1>4 DEF StartCheck
<1>5. CASE StartRefused(c)
  BY <1>5 DEF StartRefused
<1>6. CASE StartPut(c)
  BY <1>6 DEF StartPut
<1>7. CASE StartPutFails(c)
  BY <1>7 DEF StartPutFails
<1>8. CASE StartPush(c)
  BY <1>8 DEF StartPush
<1>9. CASE StartPushFails(c)
  BY <1>9 DEF StartPushFails
<1>10. CASE StartCancel(c)
  BY <1>10, UpdateFacts DEF StartCancel
<1>11. CASE StartCrash(c)
  BY <1>11 DEF StartCrash
<1>12. CASE DeadlinePasses(c)
  BY <1>12 DEF DeadlinePasses
<1> QED
  BY <1>1, <1>2, <1>3, <1>4, <1>5, <1>6, <1>7, <1>8, <1>9, <1>10, <1>11, <1>12 DEF StartStep

\* Every step of an answer or a decline preserves Inv: what a request was
\* told by the table stays true of the record.
LEMMA RequestInv ==
  ASSUME Inv, NEW r \in Requests, Arrive(r) \/ RequestStep(r) \/ RequestCrash(r)
  PROVE  Inv'
<1> DEFINE c == req[r].call
<1>0. TypeOK /\ ConstantsAssumption
  BY ConstantsAssumption DEF Inv
<1>1. req[r].pc # "idle" => c \in Calls
  BY DEF Inv, Known, TypeOK
<1>2. CASE Stop(r)
  <2>1. KeyOf[c] \in Contacts
    BY <1>0, <1>1, <1>2 DEF Stop, ConstantsAssumption
  <2>2. /\ contact' \in [Contacts -> ContactState]
        /\ \A j \in Contacts : contact'[j] = "none" => contact[j] = "none"
    BY <1>0, <1>2, <2>1, StopFacts DEF Stop
  <2>3. TypeOK'
    BY <1>2, <2>2, <1>0 DEF Stop, TypeOK, Replies, InFlight
  <2>4. Placed' /\ Written' /\ NoEarlyTimeout'
    BY <1>0, <1>2, <2>2 DEF Stop, Inv, TypeOK, Placed, Written, NoEarlyTimeout, ConstantsAssumption
  <2>5. Known' /\ Stopping' /\ Lost' /\ Late' /\ CredentialsOnlyIfAnswered'
    BY <1>0, <1>2 DEF Stop, Inv, TypeOK, Known, Stopping, Lost, Late,
       CredentialsOnlyIfAnswered, Settled
  <2> QED
    BY <2>3, <2>4, <2>5 DEF Inv
<1>5. CASE CheckDeadline(r)
  <2> DEFINE s == IF c \in expired THEN "timedOut" ELSE req[r].to
  <2>1. /\ s \in {"answered", "declined", "timedOut"}
        /\ s = "timedOut" => c \in expired
    BY <1>0 DEF Inv, TypeOK, Late
  <2>2. req' = [req EXCEPT ![r] = [pc |-> "settle", call |-> c, to |-> s]]
    BY <1>0, <1>5 DEF CheckDeadline, TypeOK
  <2>3. req[r].pc = "check" /\ UNCHANGED <<rec, contact, expired, pushed, start, sweep>>
    BY <1>5 DEF CheckDeadline
  <2> HIDE DEF s
  <2>4. TypeOK'
    BY <1>0, <1>1, <2>1, <2>2, <2>3 DEF TypeOK, InFlight, Replies
  <2>5. Placed' /\ Written' /\ NoEarlyTimeout'
    BY <2>3 DEF Inv, Placed, Written, NoEarlyTimeout
  <2>6. Late'
    BY <1>0, <2>1, <2>2, <2>3 DEF Inv, TypeOK, Late
  <2>7. Known' /\ Stopping' /\ Lost' /\ CredentialsOnlyIfAnswered'
    BY <1>0, <2>2, <2>3 DEF Inv, TypeOK, Known, Stopping, Lost, CredentialsOnlyIfAnswered
  <2> QED
    BY <2>4, <2>5, <2>6, <2>7 DEF Inv
<1>3. CASE GetRecord(r)
  <2> PICK v \in get(c) : req' = [req EXCEPT ![r].pc = AfterGet(req[r].to, v)]
    BY <1>3 DEF GetRecord
  <2> DEFINE next == AfterGet(req[r].to, v)
  <2>1. /\ next \in {"notFound", "settle", "session", "gone", "check"}
        /\ next = "session" => rec[c] = "answered"
        /\ next = "gone" => rec[c] \in GaveUp
        /\ next = "settle" => req[r].to = "declined"
    BY <1>0, <1>1, <1>3, GetFacts, AfterGetFacts DEF GetRecord, TypeOK, Settled, GaveUp
  <2> HIDE DEF next
  <2>2. req' = [req EXCEPT ![r].pc = next]
    BY DEF next
  <2>3. TypeOK'
    BY <1>0, <1>3, <2>1, <2>2 DEF GetRecord, TypeOK, Replies, InFlight
  <2>4. Placed' /\ Written' /\ NoEarlyTimeout'
    BY <1>3 DEF GetRecord, Inv, Placed, Written, NoEarlyTimeout
  <2>5. Known' /\ Stopping' /\ Lost' /\ Late' /\ CredentialsOnlyIfAnswered'
    BY <1>0, <1>3, <2>1, <2>2 DEF GetRecord, Inv, TypeOK, Known, Stopping, Lost, Late,
       CredentialsOnlyIfAnswered, Settled
  <2> QED
    BY <2>3, <2>4, <2>5 DEF Inv
<1> USE ConstantsAssumption
    DEF Inv, TypeOK, Known, Placed, Written, Stopping, Lost, Late,
        CredentialsOnlyIfAnswered, NoEarlyTimeout, Status, Settled, GaveUp, Replies, InFlight
<1>4. CASE Arrive(r)
  BY <1>4 DEF Arrive
<1>6. CASE Settle(r)
  BY <1>6, UpdateFacts, AfterSettleFacts DEF Settle
<1>7. CASE Reread(r)
  BY <1>7, GetFacts DEF Reread
<1>8. CASE RequestCrash(r)
  BY <1>8 DEF RequestCrash
<1> QED
  BY <1>2, <1>3, <1>4, <1>5, <1>6, <1>7, <1>8 DEF RequestStep

\* Every step of a sweep preserves Inv: it only times out calls whose deadline
\* has passed and only stops those it won.
LEMMA SweepInv ==
  ASSUME Inv, NEW w \in Sweepers,
         \/ Scan(w) \/ SweepCrash(w)
         \/ \E c \in Calls : SweepSettle(w, c) \/ SweepStop(w, c)
  PROVE  Inv'
<1> USE ConstantsAssumption
    DEF Inv, TypeOK, Known, Placed, Written, Stopping, Lost, Late,
        CredentialsOnlyIfAnswered, NoEarlyTimeout, Status, Settled, GaveUp
<1>1. CASE Scan(w)
  BY <1>1, ScanFacts DEF Scan
<1>2. CASE SweepCrash(w)
  BY <1>2 DEF SweepCrash, idleSweeper
<1>3. ASSUME NEW c \in Calls, SweepSettle(w, c) PROVE Inv'
  BY <1>3, UpdateFacts DEF SweepSettle
<1>4. ASSUME NEW c \in Calls, SweepStop(w, c) PROVE Inv'
  BY <1>4, StopFacts DEF SweepStop
<1> QED
  BY <1>1, <1>2, <1>3, <1>4

\* An agent or customer who hangs up disturbs nothing a worker knows.
LEMMA HangUpInv ==
  ASSUME Inv, NEW k \in Contacts, HangUp(k)
  PROVE  Inv'
BY ConstantsAssumption DEF HangUp, Inv, TypeOK, Known, Placed, Written, Stopping, Lost, Late,
   CredentialsOnlyIfAnswered, NoEarlyTimeout, ContactState

\* Inv holds in every reachable state, whatever the faults.
THEOREM Invariance == Spec => []Inv
<1>1. Inv /\ [Next]_vars => Inv'
  <2> SUFFICES ASSUME Inv, [Next]_vars PROVE Inv'
    OBVIOUS
  <2>1. CASE UNCHANGED vars
    BY <2>1 DEF vars, Inv, TypeOK, Known, Placed, Written, Stopping, Lost, Late,
       CredentialsOnlyIfAnswered, NoEarlyTimeout
  <2> QED
    BY <2>1, StartInv, RequestInv, SweepInv, HangUpInv DEF Next
<1> QED
  BY InitInv, <1>1, PTL DEF Spec

\* Every variable keeps its type.
THEOREM TypeCorrect == Spec => []TypeOK
<1>1. Inv => TypeOK
  BY DEF Inv
<1> QED
  BY Invariance, <1>1, PTL

\* Join credentials are only handed out for calls that are answered.
THEOREM CredentialsSafe == Spec => []CredentialsOnlyIfAnswered
<1>1. Inv => CredentialsOnlyIfAnswered
  BY DEF Inv
<1> QED
  BY Invariance, <1>1, PTL

\* A 410 is only sent for a settled call.
THEOREM GoneSafe == Spec => []GoneMeansSettled
<1>1. Inv => GoneMeansSettled
  BY DEF Inv, Lost, GoneMeansSettled
<1> QED
  BY Invariance, <1>1, PTL

\* No call is timed out before its deadline.
THEOREM TimeoutSafe == Spec => []NoEarlyTimeout
<1>1. Inv => NoEarlyTimeout
  BY DEF Inv
<1> QED
  BY Invariance, <1>1, PTL

----
(* One outcome per call. *)

\* No step changes a record that is settled.
LEMMA SettledStays ==
  ASSUME Inv, [Next]_vars, NEW c \in Calls, rec[c] \in Settled
  PROVE  rec'[c] = rec[c]
<1> USE DEF Inv, TypeOK, Settled, GaveUp
<1>1. ASSUME NEW d \in Calls, StartStep(d) PROVE rec'[c] = rec[c]
  BY <1>1, UpdateFacts DEF StartStep, StartContact, StartContactFails, StartPut, StartPutFails,
     StartPush, StartPushFails, StartCancel, StartStop, Written
<1>2. ASSUME NEW d \in Calls, StartCheck(d) \/ StartRefused(d) \/ StartCrash(d) \/ DeadlinePasses(d)
      PROVE  rec'[c] = rec[c]
  BY <1>2 DEF StartCheck, StartRefused, StartCrash, DeadlinePasses
<1>3. ASSUME NEW r \in Requests, Settle(r) PROVE rec'[c] = rec[c]
  BY <1>3, UpdateFacts DEF Settle, Known
<1>4. ASSUME NEW r \in Requests,
             \/ Arrive(r) \/ GetRecord(r) \/ CheckDeadline(r) \/ Reread(r)
             \/ Stop(r) \/ RequestCrash(r)
      PROVE  rec'[c] = rec[c]
  BY <1>4 DEF Arrive, GetRecord, CheckDeadline, Reread, Stop, RequestCrash
<1>5. ASSUME NEW w \in Sweepers, NEW d \in Calls, SweepSettle(w, d) PROVE rec'[c] = rec[c]
  BY <1>5, UpdateFacts DEF SweepSettle
<1>6. ASSUME NEW w \in Sweepers, Scan(w) \/ SweepCrash(w) \/ \E d \in Calls : SweepStop(w, d)
      PROVE  rec'[c] = rec[c]
  BY <1>6 DEF Scan, SweepCrash, SweepStop
<1>7. ASSUME NEW k \in Contacts, HangUp(k) PROVE rec'[c] = rec[c]
  BY <1>7 DEF HangUp
<1>8. CASE UNCHANGED vars
  BY <1>8 DEF vars
<1> QED
  BY <1>1, <1>2, <1>3, <1>4, <1>5, <1>6, <1>7, <1>8 DEF Next, RequestStep

\* A settled record is never changed again.
THEOREM SettlesOnce == Spec => SettledOnce
<1>1. Inv /\ [Next]_vars => [\A c \in Calls : rec[c] \in Settled => rec'[c] = rec[c]]_vars
  BY SettledStays
<1> QED
  BY <1>1, Invariance, PTL DEF Spec, SettledOnce

----
(* A device that answered is not left alone. *)

\* Where the winner of an answer may be: it was told that it won, or that it lost, or
\* nothing that it could understand, or its invocation died.
Held(r) == req[r].to = "answered" /\ req[r].pc \in {"session", "reread", "error", "crashed"}

\* Only an update by an answer makes a record answered, whatever that answer is told.
LEMMA AnswererHolds ==
  ASSUME Inv, NEW r \in Requests, Settle(r), NEW c \in Calls,
         rec'[c] = "answered", rec[c] # "answered"
  PROVE  req'[r].call = c /\ Held(r)'
<1>1. /\ req[r].pc = "settle" /\ req[r].call \in Calls
      /\ req[r].to \in {"answered", "declined", "timedOut"}
  BY DEF Settle, Inv, TypeOK, Known
<1>2. PICK o \in transitionFromRinging(req[r].call, req[r].to) :
        /\ rec' = [rec EXCEPT ![req[r].call] = o.status]
        /\ req' = [req EXCEPT ![r].pc = AfterSettle(req[r].to, o.told)]
  BY DEF Settle
<1>3. req[r].call = c /\ o.status = "answered" /\ o.status # rec[c]
  BY <1>1, <1>2 DEF Inv, TypeOK
<1>4. req[r].to = "answered" /\ o.told \in {"won", "lost", "error"}
  BY <1>1, <1>3, UpdateFacts DEF Inv, Settled, GaveUp
<1>5. AfterSettle("answered", o.told) \in {"session", "reread", "error"}
  BY <1>4 DEF AfterSettle
<1> QED
  BY <1>2, <1>3, <1>4, <1>5 DEF Inv, TypeOK, Held

\* Who holds an answered call goes on holding it: the second look at the record
\* sees the answer, and every other control point of the set is an end.
LEMMA HolderStays ==
  ASSUME Inv, FreshReads, [Next]_vars, NEW r \in Requests, Held(r), rec[req[r].call] = "answered"
  PROVE  req'[r].call = req[r].call /\ Held(r)'
<1>0. req[r].pc \notin {"idle", "get", "check", "settle", "stop"}
  BY DEF Held
<1> USE DEF Inv, TypeOK
<1>1. ASSUME NEW q \in Requests, Arrive(q) \/ RequestStep(q) \/ RequestCrash(q)
      PROVE  req'[r].call = req[r].call /\ Held(r)'
  <2>1. CASE q # r
    BY <1>1, <2>1 DEF Arrive, RequestStep, GetRecord, CheckDeadline, Settle, Reread, Stop,
       RequestCrash, Held
  <2>2. CASE Reread(r)
    <3>1. req[r].call \in Calls /\ get(req[r].call) = {"answered"}
      BY <2>2 DEF Reread, Known, get, FreshReads
    <3> QED
      BY <2>2, <3>1 DEF Reread, Held
  <2>3. CASE RequestCrash(r)
    BY <2>3 DEF RequestCrash, Held
  <2>4. ~ (Arrive(r) \/ GetRecord(r) \/ CheckDeadline(r) \/ Settle(r) \/ Stop(r))
    BY <1>0 DEF Arrive, GetRecord, CheckDeadline, Settle, Stop
  <2> QED
    BY <1>1, <2>1, <2>2, <2>3, <2>4 DEF RequestStep
<1>2. ASSUME UNCHANGED req PROVE req'[r].call = req[r].call /\ Held(r)'
  BY <1>2 DEF Held
<1>3. ASSUME NEW c \in Calls,
             StartCheck(c) \/ StartRefused(c) \/ StartStep(c) \/ StartCrash(c) \/ DeadlinePasses(c)
      PROVE  UNCHANGED req
  BY <1>3 DEF StartCheck, StartRefused, StartStep, StartContact, StartContactFails, StartPut,
     StartPutFails, StartPush, StartPushFails, StartCancel, StartStop, StartCrash, DeadlinePasses
<1>4. ASSUME NEW w \in Sweepers,
             Scan(w) \/ SweepCrash(w) \/ \E c \in Calls : SweepSettle(w, c) \/ SweepStop(w, c)
      PROVE  UNCHANGED req
  BY <1>4 DEF Scan, SweepCrash, SweepSettle, SweepStop
<1>5. ASSUME NEW k \in Contacts, HangUp(k) PROVE UNCHANGED req
  BY <1>5 DEF HangUp
<1>6. CASE UNCHANGED vars
  BY <1>2, <1>6 DEF vars
<1> QED
  BY <1>1, <1>2, <1>3, <1>4, <1>5, <1>6 DEF Next

\* A record that becomes answered is answered by a request.
LEMMA OnlyRequestsAnswer ==
  ASSUME Inv, [Next]_vars, NEW c \in Calls, rec'[c] = "answered", rec[c] # "answered"
  PROVE  \E r \in Requests : Settle(r)
<1> USE DEF Inv, TypeOK
<1>1. ASSUME NEW d \in Calls, StartStep(d) PROVE FALSE
  BY <1>1, UpdateFacts DEF StartStep, StartContact, StartContactFails, StartPut, StartPutFails,
     StartPush, StartPushFails, StartCancel, StartStop, Settled, GaveUp
<1>2. ASSUME NEW d \in Calls, StartCheck(d) \/ StartRefused(d) \/ StartCrash(d) \/ DeadlinePasses(d)
      PROVE  FALSE
  BY <1>2 DEF StartCheck, StartRefused, StartCrash, DeadlinePasses
<1>3. ASSUME NEW r \in Requests,
             \/ Arrive(r) \/ GetRecord(r) \/ CheckDeadline(r) \/ Reread(r)
             \/ Stop(r) \/ RequestCrash(r)
      PROVE  FALSE
  BY <1>3 DEF Arrive, GetRecord, CheckDeadline, Reread, Stop, RequestCrash
<1>4. ASSUME NEW w \in Sweepers, NEW d \in Calls, SweepSettle(w, d) PROVE FALSE
  BY <1>4, UpdateFacts DEF SweepSettle, Settled, GaveUp
<1>5. ASSUME NEW w \in Sweepers, Scan(w) \/ SweepCrash(w) \/ \E d \in Calls : SweepStop(w, d)
      PROVE  FALSE
  BY <1>5 DEF Scan, SweepCrash, SweepStop
<1>6. ASSUME NEW k \in Contacts, HangUp(k) PROVE FALSE
  BY <1>6 DEF HangUp
<1>7. ~ UNCHANGED vars
  BY DEF vars
<1> QED
  BY <1>1, <1>2, <1>3, <1>4, <1>5, <1>6, <1>7 DEF Next, RequestStep

\* As long as reads are fresh, an answered call has a request that was given the session
\* or may yet be, or whose server failed.
THEOREM NobodyStranded ==
  ASSUME FreshReads
  PROVE  Spec => []DeviceNotStranded
<1>1. Init => DeviceNotStranded
  BY DEF Init, DeviceNotStranded
<1>2. Inv /\ DeviceNotStranded /\ [Next]_vars => DeviceNotStranded'
  <2> SUFFICES ASSUME Inv, DeviceNotStranded, [Next]_vars, NEW c \in Calls, rec'[c] = "answered"
               PROVE  \E r \in Requests : req'[r].call = c /\ Held(r)'
    BY DEF DeviceNotStranded, Held
  <2>1. CASE rec[c] = "answered"
    <3>1. PICK r \in Requests : req[r].call = c /\ Held(r)
      BY <2>1 DEF DeviceNotStranded, Held
    <3> QED
      BY <2>1, <3>1, HolderStays
  <2>2. CASE rec[c] # "answered"
    BY <2>2, OnlyRequestsAnswer, AnswererHolds
  <2> QED
    BY <2>1, <2>2
<1> QED
  BY Invariance, <1>1, <1>2, PTL DEF Spec

====

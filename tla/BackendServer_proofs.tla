---- MODULE BackendServer_proofs ----
(***************************************************************************)
(* Proofs about BackendServer, for any requests, customers, tokens, keys,  *)
(* settings and bounds.                                                    *)
(***************************************************************************)
EXTENDS BackendServer, BackendRequests_proofs, TLAPS

RouteOf(r) == resolveRoute(req[r].input)

(***************************************************************************)
(* The inductive invariant.                                                *)
(***************************************************************************)

\* Before a request is made there is nothing of it, and while it is with an outbound
\* handler no call of it has taken effect.
Unsent ==
  \A r \in Requests :
    /\ req[r].pc = "unsent" =>
         req[r].input = None /\ req[r].status = None /\ req[r].arn = None
         /\ r \notin touched /\ endpoint[r] = None /\ r \notin {c.by : c \in contacts}
         /\ r \notin {device[c].by : c \in {d \in Customers : device[d] # None}}
    /\ req[r].pc = "outbound" => r \notin touched

\* A request is in a call of its own handler, and has an answer only at the end.
Staged ==
  \A r \in Requests :
    /\ req[r].pc \in Awaiting => req[r].input # None /\ req[r].status = None
    /\ req[r].pc = "cut" => req[r].status = None
    /\ req[r].status # None => req[r].input # None
    /\ req[r].pc \in {"create", "enable", "put"} => RouteOf(r) = "registerDevice"
    /\ req[r].pc = "start" => RouteOf(r) = "startCall"
    /\ req[r].pc = "stop" => RouteOf(r) = "endCall"
    /\ req[r].pc = "participant" => RouteOf(r) = "participant"
    /\ req[r].pc = "outbound" => RouteOf(r) \notin {"registerDevice", "startCall"}

\* What was over before a request stays over.
Ordered == \A r \in Requests : \A q \in req[r].before : req[q].pc \in Over

\* An endpoint is that of the request that made it, and the endpoint that a
\* registration has found is the one it is about to store.
EndpointsKept ==
  /\ \A q \in Requests : endpoint[q] # None =>
       /\ req[q].input # None
       /\ endpoint[q].token = req[q].input.pushToken
       /\ endpoint[q].platform = req[q].input.platform
  /\ \A r \in Requests : req[r].pc \in {"enable", "put"} =>
       LET e == endpoint[req[r].arn]
       IN  /\ req[r].arn \in Requests /\ e # None
           /\ e.token = req[r].input.pushToken /\ e.platform = req[r].input.platform
           /\ req[r].pc = "put" =>
                e.enabled \/ r \in excused \/ e.user = req[r].input.customerId

\* A record was stored by a registration that had found its endpoint.
RecordsKept ==
  \A c \in Customers : device[c] # None =>
    /\ req[device[c].by].arn = device[c].arn
    /\ req[device[c].by].pc \in {"put", "answered", "cut"}

\* A contact goes by the token of the start that made it.
ContactsKept ==
  /\ \A c \in contacts : c.token = KeyOf(c.by)
  /\ \A c, d \in contacts : c.token = d.token => c = d

IInv ==
  /\ TypeOK /\ Unsent /\ Staged /\ Ordered /\ EndpointsKept /\ RecordsKept /\ ContactsKept
  /\ RefusedMeansNoEffect /\ RegisteredDeviceRings /\ OneContactPerKey

----
(***************************************************************************)
(* What the steps do to the requests.                                      *)
(***************************************************************************)
\* What never changes of a request that was made.
KeptBut(r) ==
  /\ \A q \in Requests \ {r} : req'[q] = req[q]
  /\ req'[r].input = req[r].input /\ req'[r].before = req[r].before

\* Of a failure the client hears that it may try again.
LEMMA FailureStatus == ASSUME NEW name PROVE mapAwsError(name) \in {429, 502}
BY DEF mapAwsError

\* An answer ends the request it is for and leaves the others alone.
LEMMA SendFacts ==
  ASSUME req \in [Requests -> RequestRecords], NEW r \in Requests, NEW s \in Statuses, req' = send(r, s)
  PROVE  /\ req' \in [Requests -> RequestRecords] /\ KeptBut(r) /\ req'[r].arn = req[r].arn
         /\ req'[r].pc = "answered" /\ req'[r].status = s
<1> DEFINE n == [req[r] EXCEPT !.pc = "answered", !.status = s]
<1>1. req \in [Requests -> RequestRecords] /\ req[r] \in RequestRecords
  OBVIOUS
<1>2. req' = [req EXCEPT ![r] = n]
  BY <1>1 DEF send, RequestRecords
<1>3. n \in RequestRecords /\ n.pc = "answered" /\ n.status = s
      /\ n.input = req[r].input /\ n.before = req[r].before /\ n.arn = req[r].arn
  BY <1>1 DEF RequestRecords, Over
<1> HIDE DEF n
<1>4. req' \in [Requests -> RequestRecords] /\ req'[r] = n /\ \A q \in Requests \ {r} : req'[q] = req[q]
  BY <1>1, <1>2, <1>3
<1> QED
  BY <1>3, <1>4 DEF KeptBut

\* A request that is cut keeps everything else.
LEMMA CutFacts ==
  ASSUME NEW R \in RequestRecords
  PROVE  LET n == [R EXCEPT !.pc = "cut"]
         IN  /\ n \in RequestRecords /\ n.pc = "cut" /\ n.input = R.input
             /\ n.status = R.status /\ n.arn = R.arn /\ n.before = R.before
BY DEF RequestRecords, Over

\* So does going on to another call.
LEMMA CallFacts ==
  ASSUME req \in [Requests -> RequestRecords], NEW r \in Requests, NEW p \in Awaiting, NEW a \in Requests \cup {None},
         req' = [req EXCEPT ![r].pc = p, ![r].arn = a]
  PROVE  /\ req' \in [Requests -> RequestRecords] /\ KeptBut(r) /\ req'[r].arn = a
         /\ req'[r].pc = p /\ req'[r].status = req[r].status
<1> DEFINE n == [req[r] EXCEPT !.pc = p, !.arn = a]
<1>1. req \in [Requests -> RequestRecords] /\ req[r] \in RequestRecords
  OBVIOUS
<1>2. req' = [req EXCEPT ![r] = n]
  BY <1>1 DEF RequestRecords
<1>3. n \in RequestRecords /\ n.pc = p /\ n.status = req[r].status
      /\ n.input = req[r].input /\ n.before = req[r].before /\ n.arn = a
  BY <1>1 DEF RequestRecords
<1> HIDE DEF n
<1>4. req' \in [Requests -> RequestRecords] /\ req'[r] = n /\ \A q \in Requests \ {r} : req'[q] = req[q]
  BY <1>1, <1>2, <1>3
<1> QED
  BY <1>3, <1>4 DEF KeptBut

\* What a request begins with goes by its route; a registration and a start are not
\* answered with success before they have called anybody.
LEMMA BegunFacts ==
  ASSUME NEW x \in Inputs
  PROVE  /\ begun(x).pc \in Awaiting \cup {"answered"}
         /\ begun(x).status \in Statuses \cup {None}
         /\ begun(x).pc \in Awaiting => begun(x).status = None
         /\ begun(x).status = 200 => resolveRoute(x) = "health"
         /\ begun(x).status # 201
         /\ begun(x).pc = "create" => resolveRoute(x) = "registerDevice"
         /\ begun(x).pc = "start" => resolveRoute(x) = "startCall"
         /\ begun(x).pc = "stop" => resolveRoute(x) = "endCall"
         /\ begun(x).pc = "participant" => resolveRoute(x) = "participant"
         /\ begun(x).pc = "outbound" => resolveRoute(x) \notin {"registerDevice", "startCall"}
         /\ begun(x).pc \notin {"enable", "put"}
<1> DEFINE route == resolveRoute(x)
<1>1. refusal(x, route) \in {0, 400, 429, 502}
  <2> HIDE DEF route
  <2> QED
    BY FailureStatus DEF refusal
<1>2. refusal(x, route) # 0 => refusal(x, route) \in Statuses \ {200, 201}
  BY <1>1 DEF Statuses
<1> HIDE DEF route
<1>3. None \notin {200, 201}
  BY BackendAssumption DEF Statuses
<1>4. begun(x) = (IF route = "throws" THEN [pc |-> "answered", status |-> 500]
      ELSE IF route = "none" THEN [pc |-> "answered", status |-> 404]
      ELSE IF route = "health" THEN [pc |-> "answered", status |-> 200]
      ELSE IF ~isConfigured(route) THEN [pc |-> "answered", status |-> 501]
      ELSE IF refusal(x, route) # 0 THEN [pc |-> "answered", status |-> refusal(x, route)]
      ELSE IF route = "registerDevice" /\ ~pushConfigured(x.platform)
           THEN [pc |-> "answered", status |-> 501]
      ELSE [pc |-> firstCall(route), status |-> None])
  BY DEF begun, route
<1>5. firstCall(route) \in {"create", "start", "stop", "participant", "outbound"}
  BY DEF firstCall
<1> QED
  <2>1. begun(x).pc \in Awaiting => begun(x).pc = firstCall(route) /\ begun(x).status = None
    BY <1>4, <1>5 DEF Awaiting
  <2>2. begun(x).pc \in Awaiting \cup {"answered"} /\ begun(x).status \in Statuses \cup {None}
    BY <1>2, <1>4, <1>5 DEF Awaiting, Statuses
  <2>3. (begun(x).status = 200 => route = "health") /\ begun(x).status # 201
    BY <1>2, <1>3, <1>4
  <2>4. begun(x).pc # "answered" => begun(x).pc \in Awaiting
    BY <2>2
  <2> QED
    BY <2>1, <2>2, <2>3, <2>4 DEF firstCall, Awaiting, route

\* What a call of AWS that took effect does to the request: it goes on, is repeated,
\* or fails.
LEMMA EffectFacts ==
  ASSUME req \in [Requests -> RequestRecords], NEW r \in Requests, NEW next, effect(r, next)
  PROVE  /\ touched' = touched \cup {r} /\ UNCHANGED <<config, process>>
         /\ \/ req' = next /\ UNCHANGED spent
            \/ counted /\ req' = req
            \/ /\ counted
               /\ req' \in [Requests -> RequestRecords] /\ KeptBut(r) /\ req'[r].arn = req[r].arn
               /\ req'[r].pc = "answered" /\ req'[r].status = 502
<1>1. mapAwsError("unavailable") = 502 /\ 502 \in Statuses
  BY DEF mapAwsError, Statuses
<1> QED
  BY <1>1, SendFacts DEF effect, free

----
(***************************************************************************)
(* Every step preserves the invariant.                                     *)
(***************************************************************************)

\* A request that is failed, or answered by an outbound handler.
LEMMA AnsweredStep ==
  ASSUME IInv, NEW r \in Requests, req[r].pc \in Awaiting, NEW s \in Statuses,
         s \in {429, 502} \/ req[r].pc = "outbound", req' = send(r, s),
         \/ touched' = touched
         \/ touched' = touched \cup {r} /\ s \in {200, 201, 204, 410, 429, 502},
         UNCHANGED <<config, process, endpoint, device, contacts, excused>>,
         spent' \in 0 .. MaxMoves
  PROVE  IInv'
<1>1. /\ req' \in [Requests -> RequestRecords] /\ KeptBut(r) /\ req'[r].arn = req[r].arn
      /\ req'[r].pc = "answered" /\ req'[r].status = s
  BY SendFacts DEF IInv, TypeOK, Statuses
<1>2. \A q \in Requests : /\ req'[q].input = req[q].input /\ req'[q].before = req[q].before
                          /\ req'[q].arn = req[q].arn /\ (q # r => req'[q] = req[q])
  BY <1>1 DEF KeptBut
<1>3. /\ UNCHANGED <<config, process, endpoint, device, contacts, excused>>
      /\ \A q \in Requests \ {r} : q \in touched' <=> q \in touched
      /\ touched' \subseteq Requests
  BY DEF IInv, TypeOK
<1>4. /\ None \notin Statuses /\ req[r].input # None /\ req[r].status = None
      /\ RouteOf(r) \in {"registerDevice", "startCall"} => s \in {429, 502}
  BY BackendAssumption DEF IInv, Staged
<1>5. TypeOK'
  BY <1>1, <1>3 DEF IInv, TypeOK
<1>6. Unsent'
  BY <1>1, <1>2, <1>3 DEF IInv, Unsent
<1>7. Staged'
  BY <1>1, <1>2, <1>3, <1>4 DEF IInv, Staged, RouteOf, Awaiting
<1>8. Ordered'
  BY <1>1, <1>2, <1>3 DEF IInv, Ordered, TypeOK, RequestRecords, Over
<1>9. EndpointsKept'
  BY <1>1, <1>2, <1>3 DEF IInv, EndpointsKept
<1>10. RecordsKept'
  BY <1>1, <1>2, <1>3 DEF IInv, RecordsKept, TypeOK, Devices
<1>11. ContactsKept'
  BY <1>1, <1>2, <1>3 DEF IInv, ContactsKept, TypeOK, KeyOf
<1>12. RefusedMeansNoEffect'
  <2>1. answer(r)' \in Statuses \ {200, 201, 204, 410, 429, 502} => r \notin touched'
    BY <1>1 DEF IInv, Unsent, answer
  <2> QED
    BY <1>1, <1>2, <1>3, <2>1 DEF IInv, RefusedMeansNoEffect, answer, Statuses
<1>13. RegisteredDeviceRings'
  BY <1>1, <1>2, <1>3, <1>4 DEF IInv, RegisteredDeviceRings, registered, answer, Staged, RouteOf
<1>14. OneContactPerKey'
  <2>1. \A q \in Requests :
           /\ req'[q].input = req[q].input
           /\ req'[q].status = 201 /\ RouteOf(q) = "startCall" => req[q].status = 201
    BY <1>1, <1>2, <1>4
  <2> QED
    BY <1>3, <2>1 DEF IInv, OneContactPerKey, answer, KeyOf, TypeOK, RouteOf
<1> QED
  BY <1>5, <1>6, <1>7, <1>8, <1>9, <1>10, <1>11, <1>12, <1>13, <1>14 DEF IInv

\* A stop, a kill, a boot: requests in flight are cut, and nothing else changes.
LEMMA CutStep ==
  ASSUME IInv, UNCHANGED <<config, aws>>, process' \in {"up", "closing", "down"},
         spent' \in 0 .. MaxMoves, req' \in {req, cutAll}
  PROVE  IInv'
<1>1. \A q \in Requests :
        /\ req'[q] \in RequestRecords
        /\ req'[q].input = req[q].input /\ req'[q].before = req[q].before
        /\ req'[q].arn = req[q].arn /\ req'[q].status = req[q].status
        /\ req'[q].pc = req[q].pc \/ (req[q].pc \in Awaiting /\ req'[q].pc = "cut")
  <2> TAKE q \in Requests
  <2>1. req[q] \in RequestRecords
    BY DEF IInv, TypeOK
  <2> DEFINE n == [req[q] EXCEPT !.pc = "cut"]
  <2>2. req'[q] = req[q] \/ (req[q].pc \in Awaiting /\ req'[q] = n)
    <3>1. cutAll[q] = IF q \in inFlight THEN n ELSE req[q]
      BY DEF cutAll
    <3>2. q \in inFlight <=> req[q].pc \in Awaiting
      BY DEF inFlight
    <3> HIDE DEF n
    <3>3. req' = req \/ req' = cutAll
      OBVIOUS
    <3> QED
      BY <3>1, <3>2, <3>3
  <2>3. /\ n \in RequestRecords /\ n.pc = "cut" /\ n.input = req[q].input
        /\ n.status = req[q].status /\ n.arn = req[q].arn /\ n.before = req[q].before
    BY <2>1, CutFacts
  <2> HIDE DEF n
  <2> QED
    BY <2>1, <2>2, <2>3
<1>2. UNCHANGED <<config, endpoint, device, contacts, touched, excused>>
  BY DEF aws
<1>3. req' \in [Requests -> RequestRecords]
  BY <1>1 DEF IInv, TypeOK, cutAll
<1>4. TypeOK'
  BY <1>1, <1>2, <1>3 DEF IInv, TypeOK, RequestRecords, Over, Awaiting
<1>5. Unsent'
  BY <1>1, <1>2, <1>3 DEF IInv, Unsent, TypeOK, RequestRecords
<1>6. Staged'
  BY <1>1, <1>2, <1>3 DEF IInv, Staged, RouteOf, Awaiting, TypeOK, RequestRecords
<1>7. Ordered'
  BY <1>1, <1>2, <1>3 DEF IInv, Ordered, TypeOK, RequestRecords, Over, Awaiting
<1>8. EndpointsKept'
  BY <1>1, <1>2, <1>3 DEF IInv, EndpointsKept, TypeOK, Awaiting
<1>9. RecordsKept'
  BY <1>1, <1>2, <1>3 DEF IInv, RecordsKept, TypeOK, Devices, Awaiting
<1>10. ContactsKept'
  BY <1>1, <1>2, <1>3 DEF IInv, ContactsKept, TypeOK, KeyOf
<1>11. RefusedMeansNoEffect'
  BY <1>1, <1>2, <1>3 DEF IInv, RefusedMeansNoEffect, answer
<1>12. RegisteredDeviceRings'
  BY <1>1, <1>2, <1>3 DEF IInv, RegisteredDeviceRings, registered, answer, Staged, RouteOf, TypeOK, Devices
<1>13. OneContactPerKey'
  BY <1>1, <1>2, <1>3 DEF IInv, OneContactPerKey, answer, KeyOf, TypeOK, Staged, RouteOf
<1> QED
  BY <1>4, <1>5, <1>6, <1>7, <1>8, <1>9, <1>10, <1>11, <1>12, <1>13 DEF IInv

\* A request whose body did not arrive.
LEMMA BodyStep ==
  ASSUME IInv, NEW r \in Requests, NEW x \in Inputs, readBodyFails(r, x)
  PROVE  IInv'
<1>1. /\ req' \in [Requests -> RequestRecords]
      /\ \A q \in Requests : /\ req'[q].input = req[q].input /\ req'[q].before = req[q].before
                             /\ req'[q].arn = req[q].arn /\ req'[q].status = req[q].status
                             /\ q # r => req'[q] = req[q]
      /\ req[r].pc = "unsent" /\ req'[r].pc = "cut"
  <2> DEFINE n == [req[r] EXCEPT !.pc = "cut"]
  <2>1. req \in [Requests -> RequestRecords] /\ req[r] \in RequestRecords /\ req[r].pc = "unsent"
    BY DEF IInv, TypeOK, readBodyFails
  <2>2. /\ n \in RequestRecords /\ n.pc = "cut" /\ n.input = req[r].input
        /\ n.status = req[r].status /\ n.arn = req[r].arn /\ n.before = req[r].before
    BY <2>1, CutFacts
  <2>3. req' = [req EXCEPT ![r] = n]
    BY DEF readBodyFails
  <2> HIDE DEF n
  <2> QED
    BY <2>1, <2>2, <2>3
<1>2. UNCHANGED <<config, process, endpoint, device, contacts, touched, excused>>
  BY DEF aws, readBodyFails
<1>3. spent' \in 0 .. MaxMoves
  BY BackendAssumption DEF readBodyFails, counted, free, IInv, TypeOK
<1>4. req[r].status = None
  BY <1>1 DEF IInv, Unsent
<1>5. TypeOK'
  BY <1>1, <1>2, <1>3, <1>4 DEF IInv, TypeOK, RequestRecords, Over, Awaiting
<1>6. Unsent'
  BY <1>1, <1>2, <1>3, <1>4 DEF IInv, Unsent, TypeOK, RequestRecords
<1>7. Staged'
  BY <1>1, <1>2, <1>3, <1>4 DEF IInv, Staged, RouteOf, Awaiting, TypeOK, RequestRecords
<1>8. Ordered'
  BY <1>1, <1>2, <1>3, <1>4 DEF IInv, Ordered, TypeOK, RequestRecords, Over, Awaiting
<1>9. EndpointsKept'
  BY <1>1, <1>2, <1>3, <1>4 DEF IInv, EndpointsKept, TypeOK, Awaiting
<1>10. RecordsKept'
  BY <1>1, <1>2, <1>3, <1>4 DEF IInv, RecordsKept, TypeOK, Devices, Awaiting
<1>11. ContactsKept'
  BY <1>1, <1>2, <1>3, <1>4 DEF IInv, ContactsKept, TypeOK, KeyOf
<1>12. RefusedMeansNoEffect'
  BY <1>1, <1>2, <1>3, <1>4 DEF IInv, RefusedMeansNoEffect, answer
<1>13. RegisteredDeviceRings'
  BY <1>1, <1>2, <1>3, <1>4 DEF IInv, RegisteredDeviceRings, registered, answer, Staged, RouteOf, TypeOK, Devices
<1>14. OneContactPerKey'
  <2>1. OneContactPerKey /\ \A c \in contacts : c.by \in Requests
    BY DEF IInv, TypeOK
  <2>2. \A q \in Requests : req'[q].input = req[q].input /\ req'[q].status = req[q].status
    BY <1>1
  <2> QED
    BY <1>2, <2>1, <2>2 DEF OneContactPerKey, answer, KeyOf
<1> QED
  BY <1>5, <1>6, <1>7, <1>8, <1>9, <1>10, <1>11, <1>12, <1>13, <1>14 DEF IInv

\* SNS disables an endpoint.
LEMMA DeliveryStep ==
  ASSUME IInv, NEW q \in Requests, deliveryFails(q)
  PROVE  IInv'
<1>1. UNCHANGED <<config, process, req, device, contacts, touched>>
  BY DEF deliveryFails
<1>2. /\ endpoint' \in [Requests -> Endpoints \cup {None}]
      /\ \A p \in Requests : /\ p # q => endpoint'[p] = endpoint[p]
                             /\ endpoint'[p] = None <=> endpoint[p] = None
                             /\ endpoint[p] # None =>
                                  /\ endpoint'[p].token = endpoint[p].token
                                  /\ endpoint'[p].platform = endpoint[p].platform
                                  /\ endpoint'[p].user = endpoint[p].user
  <2> DEFINE n == [endpoint[q] EXCEPT !.enabled = FALSE]
  <2>1. /\ endpoint \in [Requests -> Endpoints \cup {None}] /\ endpoint[q] \in Endpoints
        /\ endpoint[q] # None
    BY DEF IInv, TypeOK, deliveryFails
  <2>2. /\ n \in Endpoints /\ n.token = endpoint[q].token
        /\ n.platform = endpoint[q].platform /\ n.user = endpoint[q].user
    BY <2>1 DEF Endpoints
  <2>3. endpoint' = [endpoint EXCEPT ![q] = n]
    BY DEF deliveryFails
  <2>4. n # None
    BY <2>2, BackendAssumption
  <2> HIDE DEF n
  <2> QED
    BY <2>1, <2>2, <2>3, <2>4
<1>3. excused' = excused \cup {r \in Requests : req[r].arn = q} /\ excused' \subseteq Requests
  BY DEF deliveryFails, IInv, TypeOK
<1>4. spent' \in 0 .. MaxMoves
  BY BackendAssumption DEF deliveryFails, counted, IInv, TypeOK
<1>5. TypeOK'
  BY <1>1, <1>2, <1>3, <1>4 DEF IInv, TypeOK, RequestRecords, Over, Awaiting
<1>6. Unsent'
  BY <1>1, <1>2, <1>3, <1>4 DEF IInv, Unsent, TypeOK, RequestRecords
<1>7. Staged'
  BY <1>1, <1>2, <1>3, <1>4 DEF IInv, Staged, RouteOf, Awaiting, TypeOK, RequestRecords
<1>8. Ordered'
  BY <1>1, <1>2, <1>3, <1>4 DEF IInv, Ordered, TypeOK, RequestRecords, Over, Awaiting
<1>9. EndpointsKept'
  BY <1>1, <1>2, <1>3, <1>4 DEF IInv, EndpointsKept, TypeOK, Awaiting
<1>10. RecordsKept'
  BY <1>1, <1>2, <1>3, <1>4 DEF IInv, RecordsKept, TypeOK, Devices, Awaiting
<1>11. ContactsKept'
  BY <1>1, <1>2, <1>3, <1>4 DEF IInv, ContactsKept, TypeOK, KeyOf
<1>12. RefusedMeansNoEffect'
  BY <1>1, <1>2, <1>3, <1>4 DEF IInv, RefusedMeansNoEffect, answer
<1>13. RegisteredDeviceRings'
  BY <1>1, <1>2, <1>3 DEF IInv, RegisteredDeviceRings, RecordsKept, registered, answer, TypeOK, Devices
<1>14. OneContactPerKey'
  BY <1>1, <1>2, <1>3, <1>4 DEF IInv, OneContactPerKey, answer, KeyOf, TypeOK, Staged, RouteOf
<1> QED
  BY <1>5, <1>6, <1>7, <1>8, <1>9, <1>10, <1>11, <1>12, <1>13, <1>14 DEF IInv

\* A request arrives: its route and its body decide how it begins.
LEMMA HandleStep ==
  ASSUME IInv, NEW r \in Requests, NEW x \in Inputs, handle(r, x)
  PROVE  IInv'
<1> DEFINE n == [pc |-> begun(x).pc, input |-> x, status |-> begun(x).status, arn |-> None,
                 before |-> {q \in Requests : req[q].pc \in Over}]
<1>1. req \in [Requests -> RequestRecords] /\ req[r].pc = "unsent" /\ req' = [req EXCEPT ![r] = n]
  BY DEF IInv, TypeOK, handle
<1>2. /\ n \in RequestRecords /\ n.pc \in Awaiting \cup {"answered"} /\ n.input = x /\ n.arn = None
      /\ n.before = {q \in Requests : req[q].pc \in Over}
      /\ n.status = begun(x).status /\ n.pc = begun(x).pc
  BY BegunFacts DEF RequestRecords, Over
<1> HIDE DEF n
<1>3. /\ req' \in [Requests -> RequestRecords] /\ \A q \in Requests \ {r} : req'[q] = req[q]
      /\ req'[r].pc = begun(x).pc /\ req'[r].input = x /\ req'[r].arn = None
      /\ req'[r].before = {q \in Requests : req[q].pc \in Over}
      /\ req'[r].status = begun(x).status /\ req'[r].pc \in Awaiting \cup {"answered"}
  BY <1>1, <1>2
<1>4. UNCHANGED <<config, process, spent, endpoint, device, contacts, touched, excused>>
  BY DEF aws, handle, free
<1>5. x # None
  BY BackendAssumption
<1>6. /\ endpoint[r] = None /\ r \notin touched
      /\ \A c \in contacts : c.by # r /\ c.by \in Requests
      /\ \A c \in Customers : device[c] # None => device[c].by # r /\ device[c].by \in Requests
  BY <1>1 DEF IInv, Unsent, TypeOK, Devices
<1>7. TypeOK'
  BY <1>3, <1>4 DEF IInv, TypeOK
<1>8. Unsent'
  BY <1>3, <1>4, <1>6 DEF IInv, Unsent, Awaiting
<1>9. Staged'
  <2>1. ASSUME NEW q \in Requests, q # r PROVE req'[q] = req[q] /\ RouteOf(q)' = RouteOf(q)
    BY <1>3, <2>1 DEF RouteOf
  <2>2. RouteOf(r)' = resolveRoute(x)
    BY <1>3 DEF RouteOf
  <2>3. /\ req'[r].pc \in Awaiting => req'[r].status = None
        /\ req'[r].pc \notin {"enable", "put", "cut"}
        /\ req'[r].pc = "create" => RouteOf(r)' = "registerDevice"
        /\ req'[r].pc = "start" => RouteOf(r)' = "startCall"
        /\ req'[r].pc = "stop" => RouteOf(r)' = "endCall"
        /\ req'[r].pc = "participant" => RouteOf(r)' = "participant"
        /\ req'[r].pc = "outbound" => RouteOf(r)' \notin {"registerDevice", "startCall"}
    BY <1>3, <2>2, BegunFacts DEF Awaiting
  <2> QED
    BY <1>3, <1>5, <2>1, <2>3 DEF IInv, Staged
<1>10. Ordered'
  BY <1>1, <1>3 DEF IInv, Ordered, Over, TypeOK, RequestRecords
<1>11. EndpointsKept'
  BY <1>3, <1>4, <1>6, BegunFacts DEF IInv, EndpointsKept
<1>12. RecordsKept'
  BY <1>3, <1>4, <1>6 DEF IInv, RecordsKept
<1>13. ContactsKept'
  <2>1. \A c \in contacts : KeyOf(c.by)' = KeyOf(c.by)
    BY <1>3, <1>6 DEF KeyOf
  <2> QED
    BY <1>4, <2>1 DEF IInv, ContactsKept
<1>14. RefusedMeansNoEffect'
  BY <1>3, <1>4, <1>6 DEF IInv, RefusedMeansNoEffect, answer
<1>15. RegisteredDeviceRings'
  <2>1. ~registered(r)'
    BY <1>3, BegunFacts DEF registered, answer
  <2>2. \A q \in Requests \ {r} : registered(q)' = registered(q) /\ req'[q] = req[q]
    BY <1>3 DEF registered, answer
  <2> QED
    BY <1>4, <2>1, <2>2 DEF IInv, RegisteredDeviceRings
<1>16. OneContactPerKey'
  <2>1. \A c \in contacts : KeyOf(c.by)' = KeyOf(c.by)
    BY <1>3, <1>6 DEF KeyOf
  <2>2. \A q \in Requests : answer(q)' = 201 =>
          q # r /\ req'[q] = req[q] /\ KeyOf(q)' = KeyOf(q) /\ answer(q) = 201
    BY <1>3, BegunFacts DEF KeyOf, answer
  <2> QED
    BY <1>4, <2>1, <2>2 DEF IInv, OneContactPerKey
<1> QED
  BY <1>7, <1>8, <1>9, <1>10, <1>11, <1>12, <1>13, <1>14, <1>15, <1>16 DEF IInv

----
(***************************************************************************)
(* Calls of AWS that take effect.  The request goes on to put, or is       *)
(* answered, or is repeated, or is failed.                                 *)
(***************************************************************************)
Outcome(r, done) ==
  \/ req'[r].pc = req[r].pc /\ req'[r].status = req[r].status /\ req'[r].arn = req[r].arn
  \/ req'[r].pc = "answered" /\ req'[r].status \in {done, 502} /\ req'[r].arn = req[r].arn
     /\ done \in Statuses
  \/ req[r].pc \in {"create", "enable"} /\ req'[r].pc = "put" /\ req'[r].status = req[r].status

Ended(r, done) ==
  /\ req'[r].arn = req[r].arn
  /\ \/ req'[r].pc = req[r].pc /\ req'[r].status = req[r].status
     \/ req'[r].pc = "answered" /\ req'[r].status \in {done, 502}

Called(r, done) ==
  /\ req' \in [Requests -> RequestRecords] /\ KeptBut(r) /\ Outcome(r, done)
  /\ touched' = touched \cup {r} /\ UNCHANGED <<config, process>> /\ spent' \in 0 .. MaxMoves

\* A call whose effect lets the handler answer.
LEMMA AnsweringCall ==
  ASSUME TypeOK, NEW r \in Requests, NEW s \in Statuses, effect(r, send(r, s))
  PROVE  Called(r, s) /\ Ended(r, s)
<1>1. req \in [Requests -> RequestRecords] /\ spent \in 0 .. MaxMoves
  BY DEF TypeOK
<1>2. /\ touched' = touched \cup {r} /\ UNCHANGED <<config, process>>
      /\ \/ req' = send(r, s) /\ UNCHANGED spent
         \/ counted /\ req' = req
         \/ /\ counted
            /\ req' \in [Requests -> RequestRecords] /\ KeptBut(r) /\ req'[r].arn = req[r].arn
            /\ req'[r].pc = "answered" /\ req'[r].status = 502
  BY <1>1, EffectFacts
<1>3. spent' \in 0 .. MaxMoves
  BY <1>1, <1>2, BackendAssumption DEF counted
<1> QED
  BY <1>1, <1>2, <1>3, SendFacts DEF Called, Outcome, Ended, KeptBut

\* A call whose effect lets the handler go on to store the device.
LEMMA GoingOn ==
  ASSUME TypeOK, NEW r \in Requests, NEW a \in Requests \cup {None},
         req[r].pc \in {"create", "enable"},
         effect(r, [req EXCEPT ![r].pc = "put", ![r].arn = a])
  PROVE  /\ Called(r, 502)
         /\ req'[r].pc = "put" => req'[r].arn = a
         /\ req'[r].pc # "put" => req'[r].arn = req[r].arn
<1>1. req \in [Requests -> RequestRecords] /\ spent \in 0 .. MaxMoves
  BY DEF TypeOK
<1> DEFINE next == [req EXCEPT ![r].pc = "put", ![r].arn = a]
<1>2. /\ touched' = touched \cup {r} /\ UNCHANGED <<config, process>>
      /\ \/ req' = next /\ UNCHANGED spent
         \/ counted /\ req' = req
         \/ /\ counted
            /\ req' \in [Requests -> RequestRecords] /\ KeptBut(r) /\ req'[r].arn = req[r].arn
            /\ req'[r].pc = "answered" /\ req'[r].status = 502
  <2> HIDE DEF next
  <2>1. effect(r, next)
    BY DEF next
  <2> QED
    BY <1>1, <2>1, EffectFacts
<1>3. spent' \in 0 .. MaxMoves
  BY <1>1, <1>2, BackendAssumption DEF counted
<1>4. req' = next => /\ req' \in [Requests -> RequestRecords] /\ KeptBut(r) /\ req'[r].arn = a
                     /\ req'[r].pc = "put" /\ req'[r].status = req[r].status
  BY <1>1, CallFacts DEF Awaiting
<1> HIDE DEF next
<1> QED
  BY <1>1, <1>2, <1>3, <1>4 DEF Called, Outcome, KeptBut, Statuses

\* The parts of the invariant that are only about the requests.
LEMMA CalledFacts ==
  ASSUME IInv, NEW r \in Requests, NEW s \in {200, 201, 204, 502}, Called(r, s),
         req[r].pc \in Awaiting \ {"outbound"},
         s = 200 => req[r].pc # "start", s = 201 => req[r].pc \in {"start", "participant"}
  PROVE  /\ \A q \in Requests :
              /\ req'[q].input = req[q].input /\ req'[q].before = req[q].before
              /\ (q # r => req'[q] = req[q])
              /\ RouteOf(q)' = RouteOf(q) /\ KeyOf(q)' = KeyOf(q)
              /\ (req'[q].pc = "unsent" <=> req[q].pc = "unsent")
              /\ (req[q].pc \in Over => req'[q].pc \in Over)
         /\ Staged' /\ Ordered' /\ RefusedMeansNoEffect'
<1>1. \A q \in Requests :
        /\ req'[q].input = req[q].input /\ req'[q].before = req[q].before
        /\ (q # r => req'[q] = req[q])
  BY DEF Called, KeptBut
<1>2. \A q \in Requests : RouteOf(q)' = RouteOf(q) /\ KeyOf(q)' = KeyOf(q)
  BY <1>1 DEF RouteOf, KeyOf
<1>3. req[r].status = None /\ req[r].input # None /\ None \notin Statuses
  BY BackendAssumption DEF IInv, Staged
<1>4. Outcome(r, s) /\ touched' = touched \cup {r} /\ Statuses' = Statuses
  BY DEF Called, Statuses
<1>5. \A q \in Requests :
        /\ (req'[q].pc = "unsent" <=> req[q].pc = "unsent")
        /\ (req[q].pc \in Over => req'[q].pc \in Over)
  BY <1>1, <1>4 DEF Outcome, Over, Awaiting
<1>6. Staged'
  BY <1>1, <1>2, <1>3, <1>4 DEF IInv, Staged, Outcome, Awaiting
<1>7. Ordered'
  BY <1>1, <1>5 DEF IInv, Ordered, TypeOK, RequestRecords
<1>8. RefusedMeansNoEffect'
  BY <1>1, <1>3, <1>4 DEF IInv, RefusedMeansNoEffect, answer, Outcome, Statuses
<1> QED
  BY <1>1, <1>2, <1>5, <1>6, <1>7, <1>8

\* A participant call changes nothing but the request.
LEMMA ParticipantStep ==
  ASSUME IInv, NEW r \in Requests, participantCall(r)
  PROVE  IInv'
<1>0. PICK s \in {200, 201} : effect(r, send(r, s))
  BY DEF participantCall
<1>1. /\ Called(r, s) /\ Ended(r, s)
      /\ \A q \in Requests :
           /\ req'[q].input = req[q].input /\ req'[q].before = req[q].before
           /\ (q # r => req'[q] = req[q])
           /\ RouteOf(q)' = RouteOf(q) /\ KeyOf(q)' = KeyOf(q)
           /\ (req'[q].pc = "unsent" <=> req[q].pc = "unsent")
           /\ (req[q].pc \in Over => req'[q].pc \in Over)
      /\ Staged' /\ Ordered' /\ RefusedMeansNoEffect'
  BY <1>0, AnsweringCall, CalledFacts DEF IInv, Awaiting, Statuses, participantCall
<1>2. /\ req' \in [Requests -> RequestRecords]
      /\ touched' = touched \cup {r} /\ UNCHANGED <<config, process>> /\ spent' \in 0 .. MaxMoves
  BY <1>1 DEF Called
<1>3. None \notin Statuses /\ req[r].input \in Inputs /\ req[r].status = None
      /\ req[r].pc = "participant" /\ RouteOf(r) = "participant" /\ {200, 201, 204, 502} \subseteq Statuses
  BY BackendAssumption DEF IInv, Staged, TypeOK, RequestRecords, Awaiting, Statuses, participantCall
<1>4. UNCHANGED <<endpoint, device, contacts, excused>>
  BY DEF participantCall
<1>5. TypeOK'
  BY <1>1, <1>2, <1>3, <1>4 DEF IInv, TypeOK, Ended
<1>6. Unsent'
  BY <1>1, <1>2, <1>3, <1>4 DEF IInv, Unsent, Ended
<1>7. EndpointsKept'
  BY <1>1, <1>2, <1>3, <1>4 DEF IInv, EndpointsKept, Ended
<1>8. RecordsKept'
  BY <1>1, <1>2, <1>3, <1>4 DEF IInv, RecordsKept, TypeOK, Devices, Ended
<1>9. ContactsKept'
  BY <1>1, <1>2, <1>3, <1>4 DEF IInv, ContactsKept, TypeOK, Ended
<1>10. RegisteredDeviceRings'
  BY <1>1, <1>2, <1>3, <1>4 DEF IInv, RegisteredDeviceRings, registered, answer, RouteOf, TypeOK, Devices, Ended
<1>11. OneContactPerKey'
  BY <1>1, <1>2, <1>3, <1>4 DEF IInv, OneContactPerKey, answer, RouteOf, TypeOK, Ended
<1> QED
  BY <1>1, <1>5, <1>6, <1>7, <1>8, <1>9, <1>10, <1>11 DEF IInv

\* The record is that of the registration, which is not over.
LEMMA PutStep ==
  ASSUME IInv, NEW r \in Requests, putDevice(r)
  PROVE  IInv'
<1>1. /\ Called(r, 200) /\ Ended(r, 200)
      /\ \A q \in Requests :
           /\ req'[q].input = req[q].input /\ req'[q].before = req[q].before
           /\ (q # r => req'[q] = req[q])
           /\ RouteOf(q)' = RouteOf(q) /\ KeyOf(q)' = KeyOf(q)
           /\ (req'[q].pc = "unsent" <=> req[q].pc = "unsent")
           /\ (req[q].pc \in Over => req'[q].pc \in Over)
      /\ Staged' /\ Ordered' /\ RefusedMeansNoEffect'
  BY AnsweringCall, CalledFacts DEF IInv, Awaiting, Statuses, putDevice
<1>2. /\ req' \in [Requests -> RequestRecords]
      /\ touched' = touched \cup {r} /\ UNCHANGED <<config, process>> /\ spent' \in 0 .. MaxMoves
  BY <1>1 DEF Called
<1>3. None \notin Statuses /\ req[r].input \in Inputs /\ req[r].status = None
      /\ req[r].pc = "put" /\ RouteOf(r) = "registerDevice" /\ {200, 201, 204, 502} \subseteq Statuses
  BY BackendAssumption DEF IInv, Staged, TypeOK, RequestRecords, Awaiting, Statuses, putDevice
<1>4. /\ UNCHANGED <<endpoint, contacts, excused>>
      /\ req[r].input.customerId \in Customers
  BY <1>3, BackendAssumption DEF putDevice
<1>5. /\ req[r].arn \in Requests /\ endpoint[req[r].arn] # None
      /\ endpoint[req[r].arn].token = req[r].input.pushToken
      /\ endpoint[req[r].arn].platform = req[r].input.platform
      /\ \/ endpoint[req[r].arn].enabled \/ r \in excused
         \/ endpoint[req[r].arn].user = req[r].input.customerId
  BY <1>3 DEF IInv, EndpointsKept
<1> DEFINE d == deviceRecord(r)
<1>6. /\ d \in Devices /\ d.by = r /\ d.arn = req[r].arn /\ d.token = req[r].input.pushToken
      /\ d.platform = req[r].input.platform
  BY <1>3, <1>5, BackendAssumption DEF Devices, deviceRecord
<1>7. /\ device \in [Customers -> Devices \cup {None}]
      /\ device' = [device EXCEPT ![req[r].input.customerId] = d]
  BY DEF putDevice, IInv, TypeOK
<1> HIDE DEF d
<1>8. /\ device' \in [Customers -> Devices \cup {None}] /\ d # None
      /\ \A c \in Customers :
           IF c = req[r].input.customerId THEN device'[c] = d ELSE device'[c] = device[c]
  BY <1>4, <1>6, <1>7, BackendAssumption
<1>9. TypeOK'
  BY <1>1, <1>2, <1>3, <1>4, <1>5, <1>6, <1>8 DEF IInv, TypeOK, Ended
<1>10. Unsent'
  BY <1>1, <1>2, <1>3, <1>4, <1>5, <1>6, <1>8 DEF IInv, Unsent, Ended
<1>11. EndpointsKept'
  BY <1>1, <1>2, <1>3, <1>4, <1>5, <1>6, <1>8 DEF IInv, EndpointsKept, Ended
<1>12. RecordsKept'
  BY <1>1, <1>2, <1>3, <1>4, <1>5, <1>6, <1>8 DEF IInv, RecordsKept, TypeOK, Devices, Ended
<1>13. ContactsKept'
  BY <1>1, <1>2, <1>3, <1>4, <1>5, <1>6, <1>8 DEF IInv, ContactsKept, TypeOK, Ended
<1>14. RegisteredDeviceRings'
  <2>1. ASSUME NEW q \in Requests, registered(q)'
        PROVE  device'[req'[q].input.customerId] # None
               /\ device'[req'[q].input.customerId].by \notin req'[q].before
    <3>1. r \notin req[q].before
      BY <1>3 DEF IInv, Ordered, Over
    <3>2. req'[q].status = 200 /\ RouteOf(q) = "registerDevice" /\ req[q].input \in Inputs
      <4>1. req'[q].status = 200 /\ RouteOf(q) = "registerDevice"
        BY <1>1, <2>1 DEF registered, answer, RouteOf
      <4>2. req'[q].input # None
        BY <1>1, <1>3, <4>1 DEF Staged
      <4> QED
        BY <1>1, <1>2, <4>1, <4>2 DEF IInv, TypeOK, RequestRecords
    <3>3. req[q].input.customerId \in Customers
      BY <3>2, BackendAssumption
    <3>4. CASE req[q].input.customerId = req[r].input.customerId
      BY <1>1, <1>6, <1>8, <3>1, <3>3, <3>4
    <3>5. CASE req[q].input.customerId # req[r].input.customerId
      <4>1. q # r
        BY <3>5
      <4>2. registered(q)
        BY <1>1, <3>2, <4>1 DEF registered, answer, RouteOf
      <4> QED
        BY <1>1, <1>8, <3>3, <3>5, <4>2 DEF IInv, RegisteredDeviceRings
    <3> QED
      BY <3>4, <3>5
  <2>2. ASSUME NEW c \in Customers, device'[c] # None
        PROVE  LET e == endpoint'[device'[c].arn]
               IN  /\ e # None /\ e.token = device'[c].token /\ e.platform = device'[c].platform
                   /\ e.enabled \/ device'[c].by \in excused' \/ e.user = c
    <3>1. CASE c = req[r].input.customerId
      BY <1>4, <1>5, <1>6, <1>8, <3>1
    <3>2. CASE c # req[r].input.customerId
      BY <1>4, <1>8, <2>2, <3>2 DEF IInv, RegisteredDeviceRings
    <3> QED
      BY <3>1, <3>2
  <2> QED
    BY <2>1, <2>2 DEF RegisteredDeviceRings
<1>15. OneContactPerKey'
  BY <1>1, <1>2, <1>3, <1>4, <1>5, <1>6, <1>8 DEF IInv, OneContactPerKey, answer, RouteOf, TypeOK, Ended
<1> QED
  BY <1>1, <1>9, <1>10, <1>11, <1>12, <1>13, <1>14, <1>15 DEF IInv

\* A start makes the contact of its token, unless there is one.
LEMMA StartStep ==
  ASSUME IInv, NEW r \in Requests, startWebRtcContact(r)
  PROVE  IInv'
<1>1. /\ Called(r, 201) /\ Ended(r, 201)
      /\ \A q \in Requests :
           /\ req'[q].input = req[q].input /\ req'[q].before = req[q].before
           /\ (q # r => req'[q] = req[q])
           /\ RouteOf(q)' = RouteOf(q) /\ KeyOf(q)' = KeyOf(q)
           /\ (req'[q].pc = "unsent" <=> req[q].pc = "unsent")
           /\ (req[q].pc \in Over => req'[q].pc \in Over)
      /\ Staged' /\ Ordered' /\ RefusedMeansNoEffect'
  BY AnsweringCall, CalledFacts DEF IInv, Awaiting, Statuses, startWebRtcContact
<1>2. /\ req' \in [Requests -> RequestRecords]
      /\ touched' = touched \cup {r} /\ UNCHANGED <<config, process>> /\ spent' \in 0 .. MaxMoves
  BY <1>1 DEF Called
<1>3. None \notin Statuses /\ req[r].input \in Inputs /\ req[r].status = None
      /\ req[r].pc = "start" /\ RouteOf(r) = "startCall" /\ {200, 201, 204, 502} \subseteq Statuses
  BY BackendAssumption DEF IInv, Staged, TypeOK, RequestRecords, Awaiting, Statuses, startWebRtcContact
<1>4. /\ UNCHANGED <<endpoint, device, excused>>
      /\ clientToken(r) = KeyOf(r) /\ KeyOf(r) \in Keys \cup Requests
  BY <1>3, BackendAssumption DEF startWebRtcContact, clientToken, KeyOf
<1> DEFINE k == [token |-> clientToken(r), by |-> r, live |-> TRUE,
                 attributes |-> buildContactAttributes(req[r].input)]
<1>5. /\ k.token = KeyOf(r) /\ k.by = r
      /\ contacts' = IF \E c \in contacts : c.token = KeyOf(r) THEN contacts ELSE contacts \cup {k}
  BY <1>4 DEF startWebRtcContact
<1> HIDE DEF k
<1>6. /\ \A c \in contacts' :
           c \in contacts \/ (c = k /\ \A d \in contacts : d.token # KeyOf(r))
      /\ contacts \subseteq contacts' /\ \E c \in contacts' : c.token = KeyOf(r)
  BY <1>5
<1>7. \A c \in contacts : c.by \in Requests /\ c.token = KeyOf(c.by)
  BY DEF IInv, TypeOK, ContactsKept
<1>8. \A c \in contacts' : c.by \in Requests /\ c.token = KeyOf(c.by)'
  BY <1>1, <1>5, <1>6, <1>7
<1>9. TypeOK'
  BY <1>1, <1>2, <1>3, <1>4, <1>5, <1>6, <1>7, <1>8 DEF IInv, TypeOK, Ended
<1>10. Unsent'
  BY <1>1, <1>2, <1>3, <1>4, <1>5, <1>6, <1>7, <1>8 DEF IInv, Unsent, Ended
<1>11. EndpointsKept'
  BY <1>1, <1>2, <1>3, <1>4, <1>5, <1>6, <1>7, <1>8 DEF IInv, EndpointsKept, Ended
<1>12. RecordsKept'
  BY <1>1, <1>2, <1>3, <1>4, <1>5, <1>6, <1>7, <1>8 DEF IInv, RecordsKept, TypeOK, Devices, Ended
<1>13. ContactsKept'
  BY <1>5, <1>6, <1>7, <1>8 DEF IInv, ContactsKept
<1>14. RegisteredDeviceRings'
  BY <1>1, <1>2, <1>3, <1>4, <1>5, <1>6, <1>7, <1>8 DEF IInv, RegisteredDeviceRings, registered, answer, RouteOf, TypeOK, Devices, Ended
<1>15. OneContactPerKey'
  <2>1. \A c, d \in contacts' : KeyOf(c.by)' = KeyOf(d.by)' => c = d
    BY <1>5, <1>6, <1>7, <1>8 DEF IInv, ContactsKept
  <2>2. ASSUME NEW q \in Requests, answer(q)' = 201 /\ resolveRoute(req'[q].input) = "startCall"
        PROVE  \E c \in contacts' : KeyOf(c.by)' = KeyOf(q)'
    <3>1. CASE q = r
      BY <1>1, <1>6, <1>8, <3>1
    <3>2. CASE q # r
      <4>1. \E c \in contacts : KeyOf(c.by) = KeyOf(q)
        BY <1>1, <2>2, <3>2 DEF IInv, OneContactPerKey, answer
      <4> QED
        BY <1>1, <1>6, <1>7, <4>1
    <3> QED
      BY <3>1, <3>2
  <2> QED
    BY <2>1, <2>2 DEF OneContactPerKey
<1> QED
  BY <1>1, <1>9, <1>10, <1>11, <1>12, <1>13, <1>14, <1>15 DEF IInv

\* A contact that is stopped keeps its token and its maker.
LEMMA StopStep ==
  ASSUME IInv, NEW r \in Requests, stopContact(r)
  PROVE  IInv'
<1>0. PICK b \in contacts :
        /\ contacts' = (contacts \ {b}) \cup {[token |-> b.token, by |-> b.by, live |-> FALSE,
                                               attributes |-> b.attributes]}
        /\ effect(r, send(r, 204))
  BY DEF stopContact
<1>1. /\ Called(r, 204) /\ Ended(r, 204)
      /\ \A q \in Requests :
           /\ req'[q].input = req[q].input /\ req'[q].before = req[q].before
           /\ (q # r => req'[q] = req[q])
           /\ RouteOf(q)' = RouteOf(q) /\ KeyOf(q)' = KeyOf(q)
           /\ (req'[q].pc = "unsent" <=> req[q].pc = "unsent")
           /\ (req[q].pc \in Over => req'[q].pc \in Over)
      /\ Staged' /\ Ordered' /\ RefusedMeansNoEffect'
  BY <1>0, AnsweringCall, CalledFacts DEF IInv, Awaiting, Statuses, stopContact
<1>2. /\ req' \in [Requests -> RequestRecords]
      /\ touched' = touched \cup {r} /\ UNCHANGED <<config, process>> /\ spent' \in 0 .. MaxMoves
  BY <1>1 DEF Called
<1>3. None \notin Statuses /\ req[r].input \in Inputs /\ req[r].status = None
      /\ req[r].pc = "stop" /\ RouteOf(r) = "endCall" /\ {200, 201, 204, 502} \subseteq Statuses
  BY BackendAssumption DEF IInv, Staged, TypeOK, RequestRecords, Awaiting, Statuses, stopContact
<1>4. UNCHANGED <<endpoint, device, excused>>
  BY DEF stopContact
<1> DEFINE k == [token |-> b.token, by |-> b.by, live |-> FALSE, attributes |-> b.attributes]
<1>5. k.token = b.token /\ k.by = b.by /\ contacts' = (contacts \ {b}) \cup {k}
  BY <1>0
<1> HIDE DEF k
<1>6. /\ \A c \in contacts' : c = k \/ (c \in contacts /\ c # b)
      /\ k \in contacts' /\ \A c \in contacts : c # b => c \in contacts'
  BY <1>5
<1>7. \A c \in contacts : c.by \in Requests /\ c.token = KeyOf(c.by) /\ c.token \in Keys \cup Requests
  BY DEF IInv, TypeOK, ContactsKept
<1>8. \A c \in contacts' : /\ c.by \in Requests /\ c.token = KeyOf(c.by)'
                           /\ c.token \in Keys \cup Requests
  BY <1>1, <1>5, <1>6, <1>7
<1>9. TypeOK'
  BY <1>1, <1>2, <1>3, <1>4, <1>5, <1>6, <1>7, <1>8 DEF IInv, TypeOK, Ended
<1>10. Unsent'
  BY <1>1, <1>2, <1>3, <1>4, <1>5, <1>6, <1>7, <1>8 DEF IInv, Unsent, Ended
<1>11. EndpointsKept'
  BY <1>1, <1>2, <1>3, <1>4, <1>5, <1>6, <1>7, <1>8 DEF IInv, EndpointsKept, Ended
<1>12. RecordsKept'
  BY <1>1, <1>2, <1>3, <1>4, <1>5, <1>6, <1>7, <1>8 DEF IInv, RecordsKept, TypeOK, Devices, Ended
<1>13. ContactsKept'
  BY <1>5, <1>6, <1>7, <1>8 DEF IInv, ContactsKept
<1>14. RegisteredDeviceRings'
  BY <1>1, <1>2, <1>3, <1>4, <1>5, <1>6, <1>7, <1>8 DEF IInv, RegisteredDeviceRings, registered, answer, RouteOf, TypeOK, Devices, Ended
<1>15. OneContactPerKey'
  <2>1. \A c, d \in contacts' : KeyOf(c.by)' = KeyOf(d.by)' => c = d
    BY <1>5, <1>6, <1>7, <1>8 DEF IInv, ContactsKept
  <2>2. ASSUME NEW q \in Requests, answer(q)' = 201 /\ resolveRoute(req'[q].input) = "startCall"
        PROVE  \E c \in contacts' : KeyOf(c.by)' = KeyOf(q)'
    <3>1. q # r
      BY <1>1, <1>3, <2>2 DEF Ended, RouteOf
    <3>2. \E c \in contacts : KeyOf(c.by) = KeyOf(q)
      BY <1>1, <2>2, <3>1 DEF IInv, OneContactPerKey, answer
    <3> QED
      BY <1>1, <1>5, <1>6, <1>7, <3>2
  <2> QED
    BY <2>1, <2>2 DEF OneContactPerKey
<1> QED
  BY <1>1, <1>9, <1>10, <1>11, <1>12, <1>13, <1>14, <1>15 DEF IInv

\* An endpoint that is enabled again keeps its token, its platform and its user.
LEMMA EnableStep ==
  ASSUME IInv, NEW r \in Requests, enableEndpoint(r)
  PROVE  IInv'
<1> DEFINE a == req[r].arn
<1>0. req[r].pc = "enable" /\ a \in Requests /\ effect(r, [req EXCEPT ![r].pc = "put", ![r].arn = a])
  <2>1. req \in [Requests -> RequestRecords] /\ req[r].pc = "enable" /\ a \in Requests
    BY DEF IInv, TypeOK, EndpointsKept, enableEndpoint
  <2>2. calling(r, "put") = [req EXCEPT ![r].pc = "put", ![r].arn = a]
    BY <2>1 DEF calling, RequestRecords
  <2> QED
    BY <2>1, <2>2 DEF enableEndpoint
<1>a. Called(r, 502) /\ req'[r].arn = a /\ Outcome(r, 502)
  <2> HIDE DEF a
  <2>1. TypeOK /\ req[r].arn = a
    BY DEF IInv, a
  <2>2. Called(r, 502) /\ req'[r].arn = a
    BY <1>0, <2>1, GoingOn
  <2> QED
    BY <2>2 DEF Called
<1> HIDE DEF a
<1>1. /\ Called(r, 502) /\ (req'[r].arn = a /\ Outcome(r, 502))
      /\ \A q \in Requests :
           /\ req'[q].input = req[q].input /\ req'[q].before = req[q].before
           /\ (q # r => req'[q] = req[q])
           /\ RouteOf(q)' = RouteOf(q) /\ KeyOf(q)' = KeyOf(q)
           /\ (req'[q].pc = "unsent" <=> req[q].pc = "unsent")
           /\ (req[q].pc \in Over => req'[q].pc \in Over)
      /\ Staged' /\ Ordered' /\ RefusedMeansNoEffect'
  BY <1>a, CalledFacts DEF IInv, Awaiting, Statuses, enableEndpoint
<1>2. /\ req' \in [Requests -> RequestRecords]
      /\ touched' = touched \cup {r} /\ UNCHANGED <<config, process>> /\ spent' \in 0 .. MaxMoves
  BY <1>1 DEF Called
<1>3. None \notin Statuses /\ req[r].input \in Inputs /\ req[r].status = None
      /\ req[r].pc = "enable" /\ RouteOf(r) = "registerDevice" /\ {200, 201, 204, 502} \subseteq Statuses
  BY BackendAssumption DEF IInv, Staged, TypeOK, RequestRecords, Awaiting, Statuses, enableEndpoint
<1>4. UNCHANGED <<device, contacts, excused>>
  BY DEF enableEndpoint
<1>5. /\ a \in Requests /\ endpoint[a] \in Endpoints /\ endpoint[a] # None
      /\ endpoint[a].token = req[r].input.pushToken
      /\ endpoint[a].platform = req[r].input.platform
  BY <1>0, <1>3 DEF IInv, EndpointsKept, TypeOK, a
<1> DEFINE n == [endpoint[a] EXCEPT !.token = req[r].input.pushToken, !.enabled = TRUE]
<1>6. /\ n \in Endpoints /\ n.token = endpoint[a].token /\ n.enabled
      /\ n.platform = endpoint[a].platform /\ n.user = endpoint[a].user
  <2>1. req[r].input.pushToken \in PushTokens
    BY <1>3, BackendAssumption
  <2> QED
    BY <1>5, <2>1 DEF Endpoints
<1>7. endpoint \in [Requests -> Endpoints \cup {None}] /\ endpoint' = [endpoint EXCEPT ![a] = n]
  BY <1>5 DEF enableEndpoint, IInv, TypeOK, Endpoints, a
<1> HIDE DEF n
<1>8. /\ endpoint' \in [Requests -> Endpoints \cup {None}] /\ endpoint'[a].enabled
      /\ \A p \in Requests : /\ p # a => endpoint'[p] = endpoint[p]
                             /\ endpoint'[p] = None <=> endpoint[p] = None
                             /\ endpoint'[p].token = endpoint[p].token
                             /\ endpoint'[p].platform = endpoint[p].platform
                             /\ endpoint'[p].user = endpoint[p].user
  BY <1>5, <1>6, <1>7, BackendAssumption
<1>9. req[r].arn = a /\ \A q \in Requests : req'[q].arn = req[q].arn
  BY <1>1 DEF a
<1>10. TypeOK'
  BY <1>2, <1>4, <1>8 DEF IInv, TypeOK
<1>11. Unsent'
  BY <1>1, <1>2, <1>3, <1>4, <1>8 DEF IInv, Unsent, Outcome
<1>12. EndpointsKept'
  <2>1. \A q \in Requests : req'[q].pc \in {"enable", "put"} =>
          /\ req[q].pc \in {"enable", "put"}
          /\ req'[q].pc = "put" => req[q].pc = "put" \/ endpoint'[req[q].arn].enabled
    <3>1. \A q \in Requests \ {r} : req'[q].pc = req[q].pc
      BY <1>1
    <3>2. req[r].pc = "enable" /\ req[r].arn = a
      BY <1>3, <1>9
    <3> QED
      BY <1>8, <3>1, <3>2
  <2>2. \A q \in Requests : req[q].pc = "put" => 
          endpoint'[req[q].arn].enabled \/ q \in excused
          \/ endpoint'[req[q].arn].user = req[q].input.customerId
    BY <1>8 DEF IInv, EndpointsKept
  <2> QED
    BY <1>1, <1>4, <1>8, <1>9, <2>1, <2>2 DEF IInv, EndpointsKept
<1>13. RecordsKept'
  BY <1>1, <1>3, <1>4, <1>9 DEF IInv, RecordsKept, TypeOK, Devices
<1>14. ContactsKept'
  BY <1>1, <1>2, <1>3, <1>4, <1>8 DEF IInv, ContactsKept, TypeOK, Ended
<1>15. RegisteredDeviceRings'
  <2>1. ASSUME NEW q \in Requests, registered(q)'
        PROVE  registered(q) /\ req'[q].input = req[q].input /\ req'[q].before = req[q].before
    <3>1. q # r
      BY <1>1, <1>3, <2>1 DEF registered, answer, Outcome
    <3> QED
      BY <1>1, <2>1, <3>1 DEF registered, answer
  <2>2. \A c \in Customers : device[c] # None =>
          /\ device[c].arn \in Requests
          /\ endpoint'[device[c].arn].enabled \/ device[c].by \in excused
             \/ endpoint'[device[c].arn].user = c
    BY <1>8 DEF IInv, RegisteredDeviceRings, TypeOK, Devices
  <2> QED
    BY <1>4, <1>8, <2>1, <2>2 DEF IInv, RegisteredDeviceRings
<1>16. OneContactPerKey'
  BY <1>1, <1>3, <1>4 DEF IInv, OneContactPerKey, answer, RouteOf, TypeOK, Outcome
<1> QED
  BY <1>1, <1>10, <1>11, <1>12, <1>13, <1>14, <1>15, <1>16 DEF IInv

\* The token has no endpoint yet: this one makes it.
LEMMA CreateStep ==
  ASSUME IInv, NEW r \in Requests, req[r].pc = "create",
         knownEndpoints(req[r].input) = {},
         endpoint' = [endpoint EXCEPT ![r] =
           [platform |-> req[r].input.platform, token |-> req[r].input.pushToken,
            user |-> req[r].input.customerId, enabled |-> TRUE]],
         effect(r, [req EXCEPT ![r].pc = "put", ![r].arn = r]),
         UNCHANGED <<device, contacts, excused>>
  PROVE  IInv'
<1>a. /\ Called(r, 502) /\ Outcome(r, 502)
      /\ req'[r].pc = "put" => req'[r].arn = r
      /\ req'[r].pc # "put" => req'[r].arn = req[r].arn
  <2>1. TypeOK
    BY DEF IInv
  <2>2. /\ Called(r, 502)
        /\ req'[r].pc = "put" => req'[r].arn = r
        /\ req'[r].pc # "put" => req'[r].arn = req[r].arn
    BY <2>1, GoingOn
  <2> QED
    BY <2>2 DEF Called
<1>1. /\ Called(r, 502) /\ Outcome(r, 502)
      /\ \A q \in Requests :
           /\ req'[q].input = req[q].input /\ req'[q].before = req[q].before
           /\ (q # r => req'[q] = req[q])
           /\ RouteOf(q)' = RouteOf(q) /\ KeyOf(q)' = KeyOf(q)
           /\ (req'[q].pc = "unsent" <=> req[q].pc = "unsent")
           /\ (req[q].pc \in Over => req'[q].pc \in Over)
      /\ Staged' /\ Ordered' /\ RefusedMeansNoEffect'
  BY <1>a, CalledFacts DEF IInv, Awaiting, Statuses, Called
<1>2. /\ req' \in [Requests -> RequestRecords]
      /\ touched' = touched \cup {r} /\ UNCHANGED <<config, process>> /\ spent' \in 0 .. MaxMoves
  BY <1>1 DEF Called
<1>3. None \notin Statuses /\ req[r].input \in Inputs /\ req[r].status = None
      /\ req[r].pc = "create" /\ RouteOf(r) = "registerDevice" /\ {200, 201, 204, 502} \subseteq Statuses
  BY BackendAssumption DEF IInv, Staged, TypeOK, RequestRecords, Awaiting, Statuses, Called
<1>4. /\ req[r].input.platform \in Platforms /\ req[r].input.pushToken \in PushTokens
      /\ req[r].input.customerId \in Customers /\ req[r].input # None
  BY <1>3, BackendAssumption
<1>5. endpoint[r] = None
  BY DEF IInv, EndpointsKept, knownEndpoints
<1> DEFINE n == [platform |-> req[r].input.platform, token |-> req[r].input.pushToken,
                 user |-> req[r].input.customerId, enabled |-> TRUE]
<1>6. /\ n \in Endpoints /\ n.token = req[r].input.pushToken /\ n.enabled
      /\ n.platform = req[r].input.platform
  BY <1>4 DEF Endpoints
<1>7. endpoint \in [Requests -> Endpoints \cup {None}] /\ endpoint' = [endpoint EXCEPT ![r] = n]
  BY DEF IInv, TypeOK
<1> HIDE DEF n
<1>8. /\ endpoint' \in [Requests -> Endpoints \cup {None}] /\ endpoint'[r] = n /\ n # None
      /\ \A p \in Requests : p # r => endpoint'[p] = endpoint[p]
  BY <1>6, <1>7, BackendAssumption
<1>9. /\ \A q \in Requests : req[q].pc \in {"enable", "put"} => q # r /\ req[q].arn # r
      /\ \A c \in Customers : device[c] # None => device[c].by # r /\ device[c].arn # r
  BY <1>3, <1>5 DEF IInv, EndpointsKept, RecordsKept, RegisteredDeviceRings
<1>10. TypeOK'
  BY <1>1, <1>2, <1>3, <1>8 DEF IInv, TypeOK, Ended
<1>11. Unsent'
  BY <1>1, <1>2, <1>3, <1>8 DEF IInv, Unsent, Outcome
<1>12. EndpointsKept'
  <2>1. \A q \in Requests : req'[q].pc \in {"enable", "put"} /\ q # r =>
          req'[q] = req[q] /\ req[q].arn # r
    BY <1>1, <1>9
  <2>2. req'[r].pc \in {"enable", "put"} => req'[r].arn = r /\ req'[r].pc = "put"
    BY <1>1, <1>3, <1>a DEF Outcome
  <2>3. ASSUME NEW q \in Requests, endpoint'[q] # None
        PROVE  /\ req'[q].input # None
               /\ endpoint'[q].token = req'[q].input.pushToken
               /\ endpoint'[q].platform = req'[q].input.platform
    BY <1>1, <1>4, <1>6, <1>8, <2>3 DEF IInv, EndpointsKept
  <2>4. ASSUME NEW q \in Requests, req'[q].pc \in {"enable", "put"}
        PROVE  LET e == endpoint'[req'[q].arn]
               IN  /\ req'[q].arn \in Requests /\ e # None
                   /\ e.token = req'[q].input.pushToken /\ e.platform = req'[q].input.platform
                   /\ req'[q].pc = "put" =>
                        e.enabled \/ q \in excused' \/ e.user = req'[q].input.customerId
    <3>1. CASE q = r
      BY <1>1, <1>6, <1>8, <2>2, <2>4, <3>1
    <3>2. CASE q # r
      BY <1>1, <1>8, <2>1, <2>4, <3>2 DEF IInv, EndpointsKept
    <3> QED
      BY <3>1, <3>2
  <2> QED
    BY <2>3, <2>4 DEF EndpointsKept
<1>13. RecordsKept'
  BY <1>1, <1>9 DEF IInv, RecordsKept, TypeOK, Devices
<1>14. ContactsKept'
  BY <1>1, <1>2, <1>3, <1>8 DEF IInv, ContactsKept, TypeOK, Ended
<1>15. RegisteredDeviceRings'
  <2>1. ASSUME NEW q \in Requests, registered(q)'
        PROVE  registered(q) /\ req'[q].input = req[q].input /\ req'[q].before = req[q].before
    <3>1. q # r
      BY <1>1, <1>3, <2>1 DEF registered, answer, Outcome
    <3> QED
      BY <1>1, <2>1, <3>1 DEF registered, answer
  <2>2. \A c \in Customers : device[c] # None =>
          endpoint'[device[c].arn] = endpoint[device[c].arn]
    BY <1>8, <1>9 DEF IInv, RegisteredDeviceRings, TypeOK, Devices
  <2>3. device' = device /\ excused' = excused /\ RegisteredDeviceRings
    BY DEF IInv
  <2>4. \A q \in Requests : registered(q)' =>
          LET d == device'[req'[q].input.customerId]
          IN  d # None /\ d.by \notin req'[q].before
    BY <2>1, <2>3 DEF RegisteredDeviceRings
  <2>5. \A c \in Customers : device'[c] # None =>
          LET d == device'[c]
              e == endpoint'[d.arn]
          IN  /\ e # None /\ e.token = d.token /\ e.platform = d.platform
              /\ e.enabled \/ d.by \in excused' \/ e.user = c
    BY <2>2, <2>3 DEF RegisteredDeviceRings
  <2> QED
    BY <2>4, <2>5 DEF RegisteredDeviceRings
<1>16. OneContactPerKey'
  BY <1>1, <1>3 DEF IInv, OneContactPerKey, answer, RouteOf, TypeOK, Outcome
<1> QED
  BY <1>1, <1>10, <1>11, <1>12, <1>13, <1>14, <1>15, <1>16 DEF IInv

\* The token has an endpoint: it is stored if it is this customer's, else enabled first.
LEMMA FoundStep ==
  ASSUME IInv, NEW r \in Requests, req[r].pc = "create",
         NEW a \in knownEndpoints(req[r].input),
         req' = [req EXCEPT ![r].pc = IF endpoint[a].user = req[r].input.customerId
                                      THEN "put" ELSE "enable",
                            ![r].arn = a],
         UNCHANGED <<endpoint, touched, config, process, spent, device, contacts, excused>>
  PROVE  IInv'
<1> DEFINE p == IF endpoint[a].user = req[r].input.customerId THEN "put" ELSE "enable"
<1>0. /\ req \in [Requests -> RequestRecords] /\ p \in Awaiting /\ a \in Requests
      /\ p = "put" => endpoint[a].user = req[r].input.customerId
      /\ endpoint[a] # None /\ endpoint[a].token = req[r].input.pushToken
      /\ endpoint[a].platform = req[r].input.platform /\ p \in {"put", "enable"}
  BY DEF IInv, TypeOK, knownEndpoints, Awaiting
<1> HIDE DEF p
<1>1. /\ req' \in [Requests -> RequestRecords] /\ KeptBut(r) /\ req'[r].arn = a
      /\ req'[r].pc = p /\ req'[r].status = req[r].status
  <2>1. req' = [req EXCEPT ![r].pc = p, ![r].arn = a]
    BY DEF p
  <2> DEFINE n == [req[r] EXCEPT !.pc = p, !.arn = a]
  <2>2. req' = [req EXCEPT ![r] = n]
    BY <1>0, <2>1 DEF RequestRecords
  <2>3. req[r] \in RequestRecords
    BY <1>0
  <2>4. n \in RequestRecords /\ n.pc = p /\ n.status = req[r].status
        /\ n.input = req[r].input /\ n.before = req[r].before /\ n.arn = a
    BY <1>0, <2>3 DEF RequestRecords
  <2> HIDE DEF n
  <2> QED
    BY <1>0, <2>2, <2>4 DEF KeptBut
<1>2. \A q \in Requests : /\ req'[q].input = req[q].input /\ req'[q].before = req[q].before
                          /\ req'[q].status = req[q].status
                          /\ q # r => req'[q] = req[q]
                          /\ RouteOf(q)' = RouteOf(q) /\ KeyOf(q)' = KeyOf(q)
  BY <1>1 DEF KeptBut, RouteOf, KeyOf
<1>3. RouteOf(r) = "registerDevice" /\ req[r].input # None /\ req[r].status = None
  BY DEF IInv, Staged, Awaiting
<1>4. TypeOK'
  BY <1>1 DEF IInv, TypeOK
<1>5. Unsent'
  BY <1>0, <1>1, <1>2 DEF IInv, Unsent, Awaiting
<1>6. Staged'
  BY <1>0, <1>1, <1>2, <1>3 DEF IInv, Staged, Awaiting
<1>7. Ordered'
  BY <1>1, <1>2 DEF IInv, Ordered, TypeOK, RequestRecords, Over
<1>8. EndpointsKept'
  <2>1. endpoint' = endpoint /\ excused' = excused
    OBVIOUS
  <2>2. ASSUME NEW q \in Requests, endpoint[q] # None
        PROVE  /\ req[q].input # None
               /\ endpoint[q].token = req[q].input.pushToken
               /\ endpoint[q].platform = req[q].input.platform
    BY <2>2 DEF IInv, EndpointsKept
  <2>3. ASSUME NEW q \in Requests, req'[q].pc \in {"enable", "put"}
        PROVE  LET e == endpoint[req'[q].arn]
               IN  /\ req'[q].arn \in Requests /\ e # None
                   /\ e.token = req[q].input.pushToken /\ e.platform = req[q].input.platform
                   /\ req'[q].pc = "put" =>
                        e.enabled \/ q \in excused \/ e.user = req[q].input.customerId
    <3>1. CASE q = r
      BY <1>0, <1>1, <1>2, <3>1
    <3>2. CASE q # r
      <4>1. req'[q] = req[q] /\ req[q].pc \in {"enable", "put"}
        BY <1>2, <2>3, <3>2
      <4> QED
        BY <4>1 DEF IInv, EndpointsKept
    <3> QED
      BY <3>1, <3>2
  <2>4. \A q \in Requests : req'[q].input = req[q].input
    BY <1>2
  <2>5. \A q \in Requests : endpoint'[q] # None =>
          /\ req'[q].input # None
          /\ endpoint'[q].token = req'[q].input.pushToken
          /\ endpoint'[q].platform = req'[q].input.platform
    BY <2>1, <2>2, <2>4
  <2>6. \A q \in Requests : req'[q].pc \in {"enable", "put"} =>
          LET e == endpoint'[req'[q].arn]
          IN  /\ req'[q].arn \in Requests /\ e # None
              /\ e.token = req'[q].input.pushToken /\ e.platform = req'[q].input.platform
              /\ req'[q].pc = "put" =>
                   e.enabled \/ q \in excused' \/ e.user = req'[q].input.customerId
    <3> TAKE q \in Requests
    <3>2. HAVE req'[q].pc \in {"enable", "put"}
    <3> DEFINE e == endpoint[req'[q].arn]
    <3>3. endpoint'[req'[q].arn] = e
      BY <2>1
    <3>4. /\ req'[q].arn \in Requests /\ e # None
          /\ e.token = req[q].input.pushToken /\ e.platform = req[q].input.platform
          /\ req'[q].pc = "put" => e.enabled \/ q \in excused \/ e.user = req[q].input.customerId
      BY <2>3, <3>2
    <3> HIDE DEF e
    <3> QED
      BY <2>1, <2>4, <3>3, <3>4
  <2> QED
    BY <2>5, <2>6 DEF EndpointsKept
<1>9. RecordsKept'
  BY <1>1, <1>2 DEF IInv, RecordsKept, TypeOK, Devices
<1>10. ContactsKept'
  BY <1>2 DEF IInv, ContactsKept, TypeOK
<1>11. RefusedMeansNoEffect'
  BY <1>2 DEF IInv, RefusedMeansNoEffect, answer
<1>12. RegisteredDeviceRings'
  <2>1. \A q \in Requests : registered(q)' = registered(q)
    BY <1>2 DEF registered, answer
  <2> QED
    BY <1>2, <2>1 DEF IInv, RegisteredDeviceRings
<1>13. OneContactPerKey'
  BY <1>2 DEF IInv, OneContactPerKey, answer, TypeOK
<1> QED
  BY <1>4, <1>5, <1>6, <1>7, <1>8, <1>9, <1>10, <1>11, <1>12, <1>13 DEF IInv

----
(***************************************************************************)
(* The theorems.                                                           *)
(***************************************************************************)
LEMMA InitIInv == Init => IInv
<1> SUFFICES ASSUME Init PROVE IInv
  OBVIOUS
<1>1. \A r \in Requests : /\ req[r].pc = "unsent" /\ req[r].input = None /\ req[r].status = None
                          /\ req[r].arn = None /\ req[r].before = {} /\ endpoint[r] = None
  BY DEF Init
<1>2. \A c \in Customers : device[c] = None
  BY DEF Init
<1>3. contacts = {} /\ touched = {}
  BY DEF Init
<1>4. TypeOK
  <2>1. req \in [Requests -> RequestRecords]
    BY DEF Init, RequestRecords
  <2> QED
    BY <2>1, BackendAssumption DEF Init, TypeOK, Settings
<1>5. Unsent /\ Staged /\ Ordered /\ EndpointsKept /\ RecordsKept /\ ContactsKept
  BY <1>1, <1>2, <1>3
     DEF Unsent, Staged, Ordered, EndpointsKept, RecordsKept, ContactsKept, Awaiting
<1>6. RefusedMeansNoEffect /\ RegisteredDeviceRings /\ OneContactPerKey
  BY <1>1, <1>2, <1>3, BackendAssumption
     DEF RefusedMeansNoEffect, RegisteredDeviceRings, OneContactPerKey, registered, answer, Statuses
<1> QED
  BY <1>4, <1>5, <1>6 DEF IInv

LEMMA NextIInv == IInv /\ [Next]_vars => IInv'
<1> SUFFICES ASSUME IInv, [Next]_vars PROVE IInv'
  OBVIOUS
<1>0. /\ MaxMoves \in Nat /\ spent \in 0 .. MaxMoves /\ process \in {"up", "closing", "down"}
  BY BackendAssumption DEF IInv, TypeOK
<1>1. counted \/ free => spent' \in 0 .. MaxMoves
  BY <1>0 DEF counted, free
<1>2. ASSUME NEW r \in Requests, NEW x \in Inputs, readBodyFails(r, x) PROVE IInv'
  BY <1>2, BodyStep
<1>3. ASSUME NEW r \in Requests, NEW x \in Inputs, handle(r, x) PROVE IInv'
  BY <1>3, HandleStep
<1>4. ASSUME NEW r \in Requests, CallAws(r) PROVE IInv'
  <2>1. ASSUME createEndpoint(r) PROVE IInv'
    BY <2>1, CreateStep, FoundStep DEF createEndpoint
  <2>2. ASSUME stopFails(r) PROVE IInv'
    <3>1. req' = send(r, 502) /\ req[r].pc \in Awaiting /\ 502 \in Statuses
      BY <2>2 DEF stopFails, mapAwsError, Awaiting, Statuses
    <3> QED
      BY <1>1, <2>2, <3>1, AnsweredStep DEF stopFails, aws
  <2>3. ASSUME outboundAnswers(r) PROVE IInv'
    <3>1. PICK s \in {200, 201, 204, 404, 409, 410, 429, 502} :
             /\ req' = send(r, s)
             /\ \/ touched' = touched
                \/ touched' = touched \cup {r} /\ s \notin {404, 409}
      BY <2>3, FailureStatus DEF outboundAnswers, lookupAnswers, lateAnswers
    <3>2. s \in Statuses /\ req[r].pc = "outbound" /\ "outbound" \in Awaiting
      BY <2>3, <3>1 DEF outboundAnswers, Statuses, Awaiting
    <3> QED
      BY <1>1, <2>3, <3>1, <3>2, AnsweredStep DEF outboundAnswers
  <2> QED
    BY <1>4, <2>1, <2>2, <2>3, EnableStep, PutStep, StartStep, StopStep, ParticipantStep
       DEF CallAws
<1>5. ASSUME NEW r \in Requests, NEW name \in AwsErrors, callFails(r, name) PROVE IInv'
  <2>1. mapAwsError(name) \in {429, 502}
    BY FailureStatus
  <2> DEFINE s == mapAwsError(name)
  <2>2. /\ s \in {429, 502} /\ s \in Statuses /\ req' = send(r, s) /\ req[r].pc \in Awaiting
    BY <1>5, <2>1 DEF callFails, Statuses
  <2> HIDE DEF s
  <2> QED
    BY <1>1, <1>5, <2>2, AnsweredStep DEF callFails, aws
<1>6. ASSUME NEW r \in Requests, deliveryFails(r) PROVE IInv'
  BY <1>6, DeliveryStep
<1>7. ASSUME stopAsked \/ exits \/ killed \/ boot PROVE IInv'
  <2>1. /\ UNCHANGED <<config, aws>> /\ process' \in {"up", "closing", "down"}
        /\ spent' \in 0 .. MaxMoves /\ req' \in {req, cutAll}
    BY <1>1, <1>7 DEF stopAsked, exits, killed, boot
  <2> QED
    BY <2>1, CutStep
<1>8. ASSUME UNCHANGED vars PROVE IInv'
  <2>1. /\ UNCHANGED <<config, aws>> /\ process' \in {"up", "closing", "down"}
        /\ spent' \in 0 .. MaxMoves /\ req' \in {req, cutAll}
    BY <1>0, <1>8 DEF vars
  <2> QED
    BY <2>1, CutStep
<1> QED
  BY <1>2, <1>3, <1>4, <1>5, <1>6, <1>7, <1>8 DEF Next

\* The types of BackendServer, for any requests and bounds (server/main.ts and the
\* handlers).
THEOREM TypeCorrect == Spec => []TypeOK
<1>1. IInv => TypeOK
  BY DEF IInv
<1> QED
  BY <1>1, InitIInv, NextIInv, PTL DEF Spec

\* A request that is refused for what it asks has changed nothing in AWS, whatever
\* fails, is repeated or is killed meanwhile (handlers/registerDevice.ts,
\* handlers/startCall.ts, http/errors.ts).
THEOREM RefusalsHaveNoEffect == Spec => []RefusedMeansNoEffect
<1>1. IInv => RefusedMeansNoEffect
  BY DEF IInv
<1> QED
  BY <1>1, InitIInv, NextIInv, PTL DEF Spec

\* A registration that was answered with success has its record, or one made later or
\* meanwhile, and every record has an endpoint that rings or is known not to
\* (handlers/registerDevice.ts, push/pushSender.ts).
THEOREM RegisteredDevicesRing == Spec => []RegisteredDeviceRings
<1>1. IInv => RegisteredDeviceRings
  BY DEF IInv
<1> QED
  BY <1>1, InitIInv, NextIInv, PTL DEF Spec

\* However often a start is repeated, by the SDK or by the client, and whatever is
\* killed, there is one contact for its key (handlers/startCall.ts).
THEOREM StartsMakeOneContact == Spec => []OneContactPerKey
<1>1. IInv => OneContactPerKey
  BY DEF IInv
<1> QED
  BY <1>1, InitIInv, NextIInv, PTL DEF Spec

----
(***************************************************************************)
(* What a contact says of its caller                                       *)
(***************************************************************************)

\* A contact has the attributes of the request that made it.
Described ==
  \A c \in contacts :
    /\ req[c.by].input \in Inputs
    /\ c.attributes = buildContactAttributes(req[c.by].input)

\* What a request asks for is settled when it is handled.
LEMMA InputsKept ==
  ASSUME IInv, Next
  PROVE  \A q \in Requests : req[q].pc # "unsent" => req'[q].input = req[q].input
<1>0. req \in [Requests -> RequestRecords]
  BY DEF IInv, TypeOK
<1>1. ASSUME NEW r \in Requests, NEW s
      PROVE  \A q \in Requests : send(r, s)[q].input = req[q].input
  BY <1>0 DEF send, RequestRecords
<1>2. ASSUME NEW r \in Requests, NEW p
      PROVE  \A q \in Requests : calling(r, p)[q].input = req[q].input
  BY <1>0 DEF calling, RequestRecords
<1>3. ASSUME NEW r \in Requests, NEW p, NEW a
      PROVE  \A q \in Requests : [req EXCEPT ![r].pc = p, ![r].arn = a][q].input = req[q].input
  BY <1>0 DEF RequestRecords
<1>4. \A q \in Requests : cutAll[q].input = req[q].input
  BY <1>0 DEF cutAll, RequestRecords
<1>5. ASSUME NEW r \in Requests, NEW x \in Inputs, readBodyFails(r, x) \/ handle(r, x)
      PROVE  \A q \in Requests : req[q].pc # "unsent" => req'[q].input = req[q].input
  <2>1. req[r].pc = "unsent" /\ \A q \in Requests : q # r => req'[q] = req[q]
    BY <1>0, <1>5 DEF readBodyFails, handle
  <2> QED
    BY <2>1
<1>6. ASSUME NEW r \in Requests, NEW n, effect(r, n), \A q \in Requests : n[q].input = req[q].input
      PROVE  \A q \in Requests : req'[q].input = req[q].input
  BY <1>1, <1>6 DEF effect
<1>7. ASSUME NEW r \in Requests, CallAws(r)
      PROVE  \A q \in Requests : req'[q].input = req[q].input
  <2>1. CASE createEndpoint(r)
    <3>1. \/ effect(r, [req EXCEPT ![r].pc = "put", ![r].arn = r])
          \/ \E q \in Requests, p \in {"put", "enable"} : req' = [req EXCEPT ![r].pc = p, ![r].arn = q]
      BY <2>1 DEF createEndpoint, knownEndpoints
    <3>2. CASE effect(r, [req EXCEPT ![r].pc = "put", ![r].arn = r])
      <4> DEFINE n == [req EXCEPT ![r].pc = "put", ![r].arn = r]
      <4>1. \A q \in Requests : n[q].input = req[q].input
        BY <1>3
      <4> HIDE DEF n
      <4>2. effect(r, n)
        BY <3>2 DEF n
      <4> QED
        BY <1>6, <4>1, <4>2
    <3>3. ASSUME NEW a \in Requests, NEW p \in {"put", "enable"},
                 req' = [req EXCEPT ![r].pc = p, ![r].arn = a]
          PROVE  \A q \in Requests : req'[q].input = req[q].input
      BY <1>0, <3>3 DEF RequestRecords
    <3> QED
      BY <3>1, <3>2, <3>3
  <2>2. CASE enableEndpoint(r)
    BY <1>2, <1>6, <2>2 DEF enableEndpoint
  <2>3. CASE putDevice(r) \/ startWebRtcContact(r) \/ stopContact(r) \/ participantCall(r)
    BY <1>1, <1>6, <2>3 DEF putDevice, startWebRtcContact, stopContact, participantCall
  <2>4. CASE stopFails(r) \/ outboundAnswers(r)
    BY <1>1, <2>4 DEF stopFails, outboundAnswers
  <2> QED
    BY <1>7, <2>1, <2>2, <2>3, <2>4 DEF CallAws
<1>8. ASSUME NEW r \in Requests, (\E name \in AwsErrors : callFails(r, name)) \/ deliveryFails(r)
      PROVE  \A q \in Requests : req'[q].input = req[q].input
  BY <1>1, <1>8 DEF callFails, deliveryFails
<1>9. ASSUME stopAsked \/ exits \/ killed \/ boot
      PROVE  \A q \in Requests : req'[q].input = req[q].input
  BY <1>4, <1>9 DEF stopAsked, exits, killed, boot
<1> QED
  BY <1>5, <1>7, <1>8, <1>9 DEF Next

\* Only a start makes a contact, and stopping one leaves what it says alone.
LEMMA ContactsMade ==
  ASSUME IInv, Next, NEW d \in contacts'
  PROVE  \/ \E c \in contacts : d.by = c.by /\ d.attributes = c.attributes
         \/ /\ d.by \in Requests /\ req[d.by].pc = "start"
            /\ d.attributes = buildContactAttributes(req[d.by].input)
<1>1. CASE contacts' = contacts
  BY <1>1
<1>2. ASSUME NEW r \in Requests, startWebRtcContact(r)
      PROVE  \/ d \in contacts
             \/ /\ d.by \in Requests /\ req[d.by].pc = "start"
                /\ d.attributes = buildContactAttributes(req[d.by].input)
  BY <1>2 DEF startWebRtcContact
<1>3. ASSUME NEW r \in Requests, stopContact(r)
      PROVE  \E c \in contacts : d.by = c.by /\ d.attributes = c.attributes
  BY <1>3 DEF stopContact
<1>4. ASSUME NEW r \in Requests, CallAws(r)
      PROVE  \/ contacts' = contacts \/ startWebRtcContact(r) \/ stopContact(r)
  BY <1>4 DEF CallAws, createEndpoint, enableEndpoint, putDevice, stopFails, participantCall,
     outboundAnswers, aws
<1> QED
  BY <1>1, <1>2, <1>3, <1>4
     DEF Next, readBodyFails, handle, callFails, deliveryFails, stopAsked, exits, killed, boot, aws

LEMMA NextDescribed == IInv /\ Described /\ [Next]_vars => Described'
<1> SUFFICES ASSUME IInv, Described, [Next]_vars PROVE Described'
  OBVIOUS
<1>1. CASE UNCHANGED vars
  BY <1>1 DEF vars, aws, Described
<1>2. CASE Next
  <2> SUFFICES ASSUME NEW d \in contacts'
               PROVE  /\ req'[d.by].input \in Inputs
                      /\ d.attributes = buildContactAttributes(req'[d.by].input)
    BY DEF Described
  <2>1. \A c \in contacts : c.by \in Requests /\ req[c.by].pc # "unsent"
    BY DEF IInv, TypeOK, Unsent
  <2>2. \A r \in Requests : req[r].pc = "start" => req[r].input \in Inputs
    BY DEF IInv, TypeOK, Staged, RequestRecords, Awaiting
  <2>3. CASE \E c \in contacts : d.by = c.by /\ d.attributes = c.attributes
    BY <1>2, <2>1, <2>3, InputsKept DEF Described
  <2>4. CASE /\ d.by \in Requests /\ req[d.by].pc = "start"
             /\ d.attributes = buildContactAttributes(req[d.by].input)
    BY <1>2, <2>2, <2>4, InputsKept
  <2> QED
    BY <1>2, <2>3, <2>4, ContactsMade
<1> QED
  BY <1>1, <1>2

LEMMA ContactsDescribed == Spec => []Described
<1>1. Init => Described
  BY DEF Init, Described
<1> QED
  BY <1>1, InitIInv, NextIInv, NextDescribed, PTL DEF Spec

\* Whatever the context of a start holds, the contact names its caller as the
\* authorizer does, and the context only adds allowed keys that neither the server nor
\* the device sets (buildContactAttributes, handlers/startCall.ts).
THEOREM TrustedAttributesWin == Spec => []TrustedWins
<1>1. Described => TrustedWins
  <2> SUFFICES ASSUME Described, NEW c \in contacts, NEW x, x = req[c.by].input
               PROVE  /\ \A k \in DOMAIN x.claims \ BadKeys :
                           x.claims[k].chars > 0 =>
                             k \in DOMAIN c.attributes /\ c.attributes[k].from = x.claims[k].from
                      /\ \A k \in DOMAIN c.attributes :
                           c.attributes[k].from = "context" =>
                             /\ k \in AllowedKeys
                             /\ k \notin DOMAIN fixedAttributes \cup DOMAIN x.device
    BY DEF TrustedWins
  <2>1. attributesRead(x) /\ c.attributes = buildContactAttributes(x)
    BY AttributeAssumption DEF Described
  <2>2. Built(c.attributes, criticalAttributes(x))
    BY <2>1, AttributesBuilt
  <2> QED
    BY <2>1, <2>2, CriticalFacts DEF Built
<1> QED
  BY <1>1, ContactsDescribed, PTL

\* However long the context of a start is, what it adds fits the budget of Connect,
\* byte for byte (buildContactAttributes).
THEOREM AttributesFit == Spec => []BudgetHolds
<1>1. Described => BudgetHolds
  <2> SUFFICES ASSUME Described, NEW c \in contacts
               PROVE  \/ totalBytes(c.attributes) <= MaxTotal
                      \/ c.attributes = criticalAttributes(req[c.by].input)
    BY DEF BudgetHolds
  <2>1. /\ attributesRead(req[c.by].input)
        /\ c.attributes = buildContactAttributes(req[c.by].input)
    BY AttributeAssumption DEF Described
  <2> QED
    BY <2>1, AttributesBuilt DEF Built
<1> QED
  BY <1>1, ContactsDescribed, PTL
====

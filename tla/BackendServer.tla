---- MODULE BackendServer ----
(***************************************************************************)
(* The backend as a process that serves requests: the container server     *)
(* (server/main.ts), the handlers of customer-initiated calls, of the      *)
(* participant routes and of device registration, and the AWS services     *)
(* that they call.                                                         *)
(*                                                                         *)
(* A handler runs from one await to the next in one step.  A call of AWS   *)
(* takes effect when the service executes it; its reply may be lost, and   *)
(* then the SDK repeats the call or gives up.  Of the outbound handlers    *)
(* there is only what they answer, and whether that may come after an      *)
(* effect: OutboundCalls models what they do.                              *)
(*                                                                         *)
(* The process may be killed at any time, or asked to stop: it then takes  *)
(* no more requests and exits when none is left, or when the grace period  *)
(* is over.                                                                *)
(***************************************************************************)
EXTENDS BackendRequests, FiniteSets

CONSTANTS
  Requests,  \* requests; an endpoint is named by the one that created it
  Inputs,    \* what may be asked for: request records
  Customers, \* customers
  PushTokens,\* push tokens
  Keys,      \* values of the Idempotency-Key header
  None,      \* nothing: no header, no record, no endpoint
  Deployments, \* sets of outbound settings to look at
  MaxMoves   \* failures of AWS and of deliveries, clients that leave, stops and kills,
             \* all together

Routes == {"health", "startCall", "endCall", "participant", "registerDevice",
           "startOutboundCall", "outboundCallAction"}
Platforms == {"iOS", "Android"}
Settings == {"tables", "apns", "fcm"}
Statuses == {200, 201, 204, 400, 404, 409, 410, 429, 500, 501, 502}

Endpoints == [platform : Platforms, token : PushTokens, user : Customers, enabled : BOOLEAN]
Devices == [platform : Platforms, token : PushTokens, arn : Requests, by : Requests]

ASSUME BackendAssumption ==
  /\ None \notin Requests \cup Keys /\ None \notin Customers /\ None \notin Inputs
  /\ None \notin Statuses /\ None \notin Endpoints /\ None \notin Devices
  /\ Keys \cap Requests = {}
  /\ MaxMoves \in Nat /\ Deployments \subseteq SUBSET Settings
  /\ \A x \in Inputs :
       /\ x.platform \in Platforms /\ x.pushToken \in PushTokens
       /\ x.customerId \in Customers /\ x.key \in Keys \cup {None}

ASSUME AttributeAssumption == \A x \in Inputs : attributesRead(x)

VARIABLES
  config,   \* the outbound settings of this deployment that are there
  process,  \* the server process
  req,      \* each request: control, input, status, endpoint found, requests over before it
  endpoint, \* SNS: platform endpoints
  device,   \* DynamoDB: the device record of each customer
  contacts, \* Connect: contacts started for customers who call
  touched,  \* history: requests of which some call took effect
  excused,  \* history: registrations whose endpoint SNS disabled after they had found it
  spent     \* a bound: moves so far

aws == <<endpoint, device, contacts, touched, excused>>
vars == <<config, process, req, aws, spent>>

Awaiting == {"create", "enable", "put", "start", "stop", "participant", "outbound"}
Over == {"answered", "cut"}


RequestRecords ==
  [pc : {"unsent"} \cup Awaiting \cup Over, input : Inputs \cup {None},
   status : Statuses \cup {None}, arn : Requests \cup {None}, before : SUBSET Requests]

TypeOK ==
  /\ config \subseteq Settings /\ process \in {"up", "closing", "down"}
  /\ spent \in 0 .. MaxMoves
  /\ req \in [Requests -> RequestRecords]
  /\ endpoint \in [Requests -> Endpoints \cup {None}]
  /\ device \in [Customers -> Devices \cup {None}]
  /\ \A c \in contacts : c.token \in Keys \cup Requests /\ c.by \in Requests
  /\ touched \subseteq Requests /\ excused \subseteq Requests

Init ==
  /\ config \in Deployments /\ process = "up" /\ spent = 0
  /\ req = [r \in Requests |-> [pc |-> "unsent", input |-> None, status |-> None,
                                arn |-> None, before |-> {}]]
  /\ endpoint = [r \in Requests |-> None]
  /\ device = [c \in Customers |-> None]
  /\ contacts = {} /\ touched = {} /\ excused = {}

----
counted == spent < MaxMoves /\ spent' = spent + 1
free == UNCHANGED spent

\* The answer is written in the step that decides it; whether the client is still
\* there to read it makes no difference to the server.
send(r, status) == [req EXCEPT ![r].pc = "answered", ![r].status = status]
calling(r, call) == [req EXCEPT ![r].pc = call]

(***************************************************************************)
(* The server                                                              *)
(***************************************************************************)
\* readBody fails: the client leaves, or the body is too large and the socket is
\* destroyed before the 413 is written.
readBodyFails(r, x) ==
  /\ process # "down" /\ req[r].pc = "unsent"
  /\ IF x.shape = "huge" /\ resolveRoute(x) \in Routes THEN free ELSE counted
  /\ req' = [req EXCEPT ![r].pc = "cut"]
  /\ UNCHANGED <<config, process, aws>>

isOutbound(route) == route \in {"registerDevice", "startOutboundCall", "outboundCallAction"}

\* loadOutboundConfig needs the tables; it is tried again at every request.
isConfigured(route) == isOutbound(route) => "tables" \in config

pushConfigured(platform) == (IF platform = "iOS" THEN "apns" ELSE "fcm") \in config

firstCall(route) ==
  IF route = "registerDevice" THEN "create"
  ELSE IF route = "startCall" THEN "start"
  ELSE IF route = "endCall" THEN "stop"
  ELSE IF route = "participant" THEN "participant"
  ELSE "outbound"

\* What becomes of a request: its answer, or its first call.
begun(x) ==
  LET route == resolveRoute(x)
      answered(status) == [pc |-> "answered", status |-> status]
  IN  IF route = "throws" THEN answered(500)
      ELSE IF route = "none" THEN answered(404)
      ELSE IF route = "health" THEN answered(200)
      ELSE IF ~isConfigured(route) THEN answered(501)
      ELSE IF refusal(x, route) # 0 THEN answered(refusal(x, route))
      ELSE IF route = "registerDevice" /\ ~pushConfigured(x.platform) THEN answered(501)
      ELSE [pc |-> firstCall(route), status |-> None]

\* A request whose body has arrived, on a connection that may be older than the
\* request to stop: the route, the wiring, the body, the first call.
handle(r, x) ==
  /\ free /\ process # "down" /\ req[r].pc = "unsent"
  /\ x.shape = "huge" => resolveRoute(x) \notin Routes
  /\ req' = [req EXCEPT ![r] =
       [pc |-> begun(x).pc, input |-> x, status |-> begun(x).status, arn |-> None,
        before |-> {q \in Requests : req[q].pc \in Over}]]
  /\ UNCHANGED <<config, process, aws>>

inFlight == {r \in Requests : req[r].pc \in Awaiting}

cutAll == [r \in Requests |-> IF r \in inFlight THEN [req[r] EXCEPT !.pc = "cut"] ELSE req[r]]

\* SIGTERM or SIGINT.
stopAsked ==
  /\ counted /\ process = "up" /\ process' = "closing" /\ UNCHANGED <<config, req, aws>>

\* server.close has nothing left to wait for, or the grace period is over.
exits ==
  /\ process = "closing" /\ (IF inFlight = {} THEN free ELSE counted)
  /\ process' = "down" /\ req' = cutAll /\ UNCHANGED <<config, aws>>

killed ==
  /\ counted /\ process # "down" /\ process' = "down" /\ req' = cutAll
  /\ UNCHANGED <<config, aws>>

boot ==
  /\ free /\ process = "down" /\ process' = "up" /\ UNCHANGED <<config, req, aws>>

----
(***************************************************************************)
(* Calls of AWS                                                            *)
(***************************************************************************)

\* The call of r has taken effect: the handler goes on, or the reply is lost and
\* the SDK repeats the call or gives up.
effect(r, next) ==
  /\ touched' = touched \cup {r}
  /\ \/ free /\ req' = next
     \/ counted /\ req' \in {req, send(r, mapAwsError("unavailable"))}
  /\ UNCHANGED <<config, process>>

\* A call fails without effect.
callFails(r, name) ==
  /\ counted /\ req[r].pc \in Awaiting \ {"outbound"}
  /\ req' = send(r, mapAwsError(name))
  /\ UNCHANGED <<config, process, aws>>

knownEndpoints(x) ==
  {q \in Requests : endpoint[q] # None /\ endpoint[q].platform = x.platform
                                       /\ endpoint[q].token = x.pushToken}

\* CreatePlatformEndpoint: a token has one endpoint.  The same endpoint again is
\* returned as it is, enabled or not; with another CustomUserData it is refused, and
\* the refusal names the endpoint.
createEndpoint(r) ==
  LET x == req[r].input
  IN  /\ req[r].pc = "create"
      /\ \/ /\ knownEndpoints(x) = {}
            /\ endpoint' = [endpoint EXCEPT ![r] =
                 [platform |-> x.platform, token |-> x.pushToken,
                  user |-> x.customerId, enabled |-> TRUE]]
            /\ effect(r, [req EXCEPT ![r].pc = "put", ![r].arn = r])
         \/ \E q \in knownEndpoints(x) :
              LET isSame == endpoint[q].user = x.customerId
              IN  /\ UNCHANGED <<endpoint, touched, config, process, spent>>
                  /\ req' = [req EXCEPT ![r].pc = IF isSame THEN "put" ELSE "enable",
                                        ![r].arn = q]
      /\ UNCHANGED <<device, contacts, excused>>

\* SetEndpointAttributes: the token and Enabled, not CustomUserData.
enableEndpoint(r) ==
  /\ req[r].pc = "enable"
  /\ endpoint' = [endpoint EXCEPT ![req[r].arn].token = req[r].input.pushToken,
                                  ![req[r].arn].enabled = TRUE]
  /\ effect(r, calling(r, "put"))
  /\ UNCHANGED <<device, contacts, excused>>

\* SNS disables an endpoint whose token the push service no longer knows.
deliveryFails(q) ==
  /\ counted /\ endpoint[q] # None /\ endpoint[q].enabled
  /\ endpoint' = [endpoint EXCEPT ![q].enabled = FALSE]
  /\ excused' = excused \cup {r \in Requests : req[r].arn = q}
  /\ UNCHANGED <<config, process, req, device, contacts, touched>>

deviceRecord(r) ==
  [platform |-> req[r].input.platform, token |-> req[r].input.pushToken,
   arn |-> req[r].arn, by |-> r]

\* Wrong variant: a record that is there stays.
putIfNew(r) ==
  /\ req[r].pc = "put"
  /\ device' = [device EXCEPT ![req[r].input.customerId] =
       IF @ = None THEN deviceRecord(r) ELSE @]
  /\ effect(r, send(r, 200))
  /\ UNCHANGED <<endpoint, contacts, excused>>

\* PutItem without a condition: the last one wins.
putDevice(r) ==
  /\ req[r].pc = "put"
  /\ device' = [device EXCEPT ![req[r].input.customerId] = deviceRecord(r)]
  /\ effect(r, send(r, 200))
  /\ UNCHANGED <<endpoint, contacts, excused>>

\* Wrong variant: the Idempotency-Key is not passed on.
ownToken(r) == r

\* ClientToken: the header, or one that the SDK makes for this call.
clientToken(r) == IF req[r].input.key = None THEN r ELSE req[r].input.key

\* StartWebRTCContact: a token has one contact.  A response without the fields of a
\* session is an upstream error.
startWebRtcContact(r) ==
  /\ req[r].pc = "start"
  /\ contacts' = IF \E c \in contacts : c.token = clientToken(r) THEN contacts
                 ELSE contacts \cup {[token |-> clientToken(r), by |-> r, live |-> TRUE,
                                      attributes |-> buildContactAttributes(req[r].input)]}
  /\ effect(r, send(r, 201))
  /\ UNCHANGED <<endpoint, device, excused>>

\* StopContact of a contact that a client knows of.  Of one that is over it may fail.
stopContact(r) ==
  /\ req[r].pc = "stop"
  /\ \E c \in contacts :
       /\ contacts' = (contacts \ {c}) \cup {[token |-> c.token, by |-> c.by, live |-> FALSE,
                                             attributes |-> c.attributes]}
       /\ effect(r, send(r, 204))
  /\ UNCHANGED <<endpoint, device, excused>>

stopFails(r) ==
  /\ free /\ req[r].pc = "stop" /\ \A c \in contacts : ~c.live
  /\ req' = send(r, mapAwsError("unavailable"))
  /\ UNCHANGED <<config, process, aws>>

\* CreateParticipantConnection or SendMessage.
participantCall(r) ==
  /\ req[r].pc = "participant"
  /\ effect(r, send(r, IF Last(normalizePath(req[r].input.path)) = "dtmf" THEN 200 ELSE 201))
  /\ UNCHANGED <<endpoint, device, contacts, excused>>

\* The outbound handlers look up the device, the agent or the call before they write,
\* start or stop anything.
lookupAnswers(route) == IF route = "startOutboundCall" THEN {404, 409} ELSE {404}

\* What they answer from then on.  An answer that comes too late times the call out, and
\* is told that the call is gone.
lateAnswers(x) ==
  LET path == normalizePath(x.path)
  IN  IF resolveRoute(x) = "startOutboundCall" THEN {201}
      ELSE IF x.method = "GET" THEN {200}
      ELSE IF Last(path) = "answer" THEN {200, 410} ELSE {204}

\* Any of their calls may fail, before or after one that has changed something; the view
\* of a call changes nothing.
outboundAnswers(r) ==
  LET x == req[r].input
  IN  /\ req[r].pc = "outbound"
      /\ \/ /\ free /\ \E s \in lookupAnswers(resolveRoute(x)) : req' = send(r, s)
            /\ UNCHANGED touched
         \/ /\ \/ free /\ \E s \in lateAnswers(x) : req' = send(r, s)
               \/ counted /\ \E name \in AwsErrors : req' = send(r, mapAwsError(name))
            /\ touched' = touched \/ (x.method # "GET" /\ touched' = touched \cup {r})
      /\ UNCHANGED <<config, process, endpoint, device, contacts, excused>>

----
CallAws(r) ==
  \/ createEndpoint(r) \/ enableEndpoint(r) \/ putDevice(r) \/ startWebRtcContact(r)
  \/ stopContact(r) \/ stopFails(r) \/ participantCall(r) \/ outboundAnswers(r)

Next ==
  \/ \E r \in Requests : \/ \E x \in Inputs : readBodyFails(r, x) \/ handle(r, x)
                         \/ CallAws(r)
                         \/ \E name \in AwsErrors : callFails(r, name)
                         \/ deliveryFails(r)
  \/ stopAsked \/ exits \/ killed \/ boot

Spec == Init /\ [][Next]_vars

----
(***************************************************************************)
(* Properties                                                              *)
(***************************************************************************)
KeyOf(r) == IF req[r].input.key = None THEN r ELSE req[r].input.key

answer(r) == req[r].status

\* Of the refusals only 429 and 502, which ask the client to try again, and the 410 of
\* an answer that came too late, may follow a call that has taken effect: a request
\* refused with another status has changed nothing (the handlers, mapAwsError).
RefusedMeansNoEffect ==
  \A r \in Requests : answer(r) \in Statuses \ {200, 201, 204, 410, 429, 502} => r \notin touched

registered(r) == answer(r) = 200 /\ resolveRoute(req[r].input) = "registerDevice"

\* Once a registration was answered with success, the record of its customer is its
\* own, or that of a registration that was not over when it was made (putDevice).
\* The endpoint of a record is that of its token and platform, and enabled unless
\* SNS disabled it after the registration, or while it was this customer's already.
RegisteredDeviceRings ==
  /\ \A r \in Requests : registered(r) =>
       LET d == device[req[r].input.customerId]
       IN  d # None /\ d.by \notin req[r].before
  /\ \A c \in Customers : device[c] # None =>
       LET d == device[c]
           e == endpoint[d.arn]
       IN  /\ e # None /\ e.token = d.token /\ e.platform = d.platform
           /\ e.enabled \/ d.by \in excused \/ e.user = c

\* Repeating a start never makes a second contact, neither in the SDK nor in the
\* client, before or after a restart; and what was answered 201 has its contact.
OneContactPerKey ==
  /\ \A c, d \in contacts : KeyOf(c.by) = KeyOf(d.by) => c = d
  /\ \A r \in Requests :
       answer(r) = 201 /\ resolveRoute(req[r].input) = "startCall" =>
         \E c \in contacts : KeyOf(c.by) = KeyOf(r)

\* What a contact says of its caller: a claim is never replaced by the device or by
\* the context, and only allowed keys come from the context (buildContactAttributes).
TrustedWins ==
  \A c \in contacts :
    LET x == req[c.by].input
    IN  /\ \A k \in DOMAIN x.claims \ BadKeys :
             x.claims[k].chars > 0 =>
               k \in DOMAIN c.attributes /\ c.attributes[k].from = x.claims[k].from
        /\ \A k \in DOMAIN c.attributes :
             c.attributes[k].from = "context" =>
               /\ k \in AllowedKeys
               /\ k \notin DOMAIN fixedAttributes \cup DOMAIN x.device

\* The attributes keep to the budget of Connect, in bytes, whatever the length of the
\* context, unless those that the context cannot override exceed it alone.
BudgetHolds ==
  \A c \in contacts :
    \/ totalBytes(c.attributes) <= MaxTotal
    \/ c.attributes = criticalAttributes(req[c.by].input)
====

---- MODULE BackendRequests ----
(***************************************************************************)
(* What the backend makes of a request before it calls anybody: its route, *)
(* the checks of its body, the contact attributes of a start and the       *)
(* status of a failure.                                                    *)
(*                                                                         *)
(* A request is a record: method, path, shape of the body, the fields of   *)
(* the body that pass their checks, and what the handlers use of it.  A    *)
(* path is the sequence of what follows each of its slashes, so "/" is     *)
(* <<"">>.  An attribute value is its origin, its number of characters and *)
(* the bytes that each of them takes.                                      *)
(***************************************************************************)
EXTENDS Naturals, Sequences, SequencesExt

CONSTANTS
  AllowedKeys,  \* ALLOWED_CLIENT_ATTRIBUTE_KEYS
  BadKeys,      \* attribute keys that Connect does not accept
  KeyBytes,     \* bytes of an attribute key (the same for all keys)
  MaxChars,     \* MAX_VALUE_BYTES, which the code compares with a number of characters
  MaxTotal      \* MAX_TOTAL_BYTES

ASSUME RequestAssumption ==
  /\ KeyBytes \in Nat /\ MaxChars \in Nat \ {0} /\ MaxTotal \in Nat

----
(***************************************************************************)
(* Routes                                                                  *)
(***************************************************************************)

\* An optional stage prefix and one trailing slash are dropped.
normalizePath(path) ==
  LET staged == IF Head(path) = "v1" THEN Tail(path) ELSE path
      bare   == IF Len(staged) > 1 /\ Last(staged) = "" THEN Front(staged) ELSE staged
  IN  IF bare = <<>> THEN <<"">> ELSE bare

FixedRoutes ==
  { <<"GET",  <<"health">>,               "health">>,
    <<"POST", <<"calls">>,                "startCall">>,
    <<"POST", <<"calls", "connections">>, "participant">>,
    <<"POST", <<"calls", "dtmf">>,        "participant">>,
    <<"POST", <<"devices">>,              "registerDevice">>,
    <<"POST", <<"calls", "outbound">>,    "startOutboundCall">> }

isCallAction(method, path) ==
  /\ Len(path) \in {3, 4} /\ path[1] = "calls" /\ path[2] = "outbound" /\ path[3] # ""
  /\ IF Len(path) = 3 THEN method = "GET"
     ELSE method = "POST" /\ path[4] \in {"answer", "decline"}

isEndCall(method, path) ==
  method = "DELETE" /\ Len(path) = 2 /\ path[1] = "calls" /\ path[2] # ""

\* An identifier that cannot be percent-decoded.
Malformed == "%"

\* The handler of a request, "none", or "throws".  Whether a call action can be
\* decoded is asked before its method is looked at.
resolveRoute(r) ==
  LET path == normalizePath(r.path)
      isCall == isCallAction("GET", path) \/ isCallAction("POST", path)
  IN  IF \E f \in FixedRoutes : f[1] = r.method /\ f[2] = path
      THEN (CHOOSE f \in FixedRoutes : f[1] = r.method /\ f[2] = path)[3]
      ELSE IF isCall /\ path[3] = Malformed THEN "throws"
      ELSE IF isCallAction(r.method, path) THEN "outboundCallAction"
      ELSE IF isEndCall(r.method, path)
           THEN IF path[2] = Malformed THEN "throws" ELSE "endCall"
      ELSE "none"

----
(***************************************************************************)
(* Bodies and failures                                                     *)
(***************************************************************************)
Shapes == {"absent", "notJson", "null", "object", "huge"}
Fields == {"callType", "platform", "pushToken", "customerId", "agentId",
           "participantToken", "connectionToken", "digits", "contactId"}

\* The fields that a handler checks; the participant handler goes by the path.
requiredFields(route, path) ==
  CASE route = "startCall"         -> {"callType", "platform"}
    [] route = "registerDevice"    -> {"platform", "pushToken", "customerId"}
    [] route = "startOutboundCall" -> {"agentId", "customerId", "callType"}
    [] route = "participant"       -> IF Last(path) = "dtmf" THEN {"connectionToken", "digits"}
                                      ELSE {"participantToken"}
    [] route = "endCall"           -> {"contactId"}
    [] OTHER                       -> {}

\* Names of the errors that the AWS SDK throws, as far as they are told apart.
AwsErrors == {"throttled", "denied", "unavailable"}

\* Wrong variant: what AWS denies is passed on.
mapAwsErrorLeaking(name) ==
  IF name = "throttled" THEN 429 ELSE IF name = "denied" THEN 403 ELSE 502

\* Wrong variant: what AWS denies is a bad request.
mapAwsErrorAsRequest(name) ==
  IF name = "throttled" THEN 429 ELSE IF name = "denied" THEN 400 ELSE 502

\* The status of anything thrown that is not an error of the application.
mapAwsError(name) == IF name = "throttled" THEN 429 ELSE 502

\* The status of a body that does not pass, 0 if it does.  JSON null parses, and
\* the first look into it throws a TypeError.
refusal(r, route) ==
  LET reads == route \in {"startCall", "registerDevice", "startOutboundCall", "participant"}
  IN  IF reads /\ r.shape \in {"absent", "notJson"} THEN 400
      ELSE IF reads /\ r.shape = "null" THEN mapAwsError("TypeError")
      ELSE IF requiredFields(route, normalizePath(r.path)) \subseteq r.good THEN 0
      ELSE 400

----
(***************************************************************************)
(* Contact attributes                                                      *)
(***************************************************************************)
AttributeValues(from) == [from : {from}, chars : Nat, width : Nat]

\* What the authorizer, parseDevice and parseContext leave: each value is of its own
\* origin, and no value of a device is blank.
attributesRead(r) ==
  /\ IsFiniteSet(DOMAIN r.claims) /\ IsFiniteSet(DOMAIN r.device)
  /\ \A k \in DOMAIN r.claims : r.claims[k] \in AttributeValues("claim")
  /\ \A k \in DOMAIN r.device : r.device[k] \in AttributeValues("device") /\ r.device[k].chars > 0
  /\ r.context \in Seq(STRING \X AttributeValues("context"))

truncated(v) == [v EXCEPT !.chars = IF @ > MaxChars THEN MaxChars ELSE @]

\* Pairs with a key that Connect refuses, or with a blank value, are skipped.
normalisePairs(f) ==
  [k \in {x \in DOMAIN f \ BadKeys : f[x].chars > 0} |-> truncated(f[k])]

serverValue == [from |-> "server", chars |-> 1, width |-> 1]
fixedAttributes == [k \in {"source", "correlationId"} |-> serverValue]

\* What f sets is set over g.
over(f, g) == [k \in DOMAIN f \cup DOMAIN g |-> IF k \in DOMAIN f THEN f[k] ELSE g[k]]

\* Claims win over the device, and the device over the rest.
criticalAttributes(r) ==
  over(normalisePairs(r.claims), over(normalisePairs(r.device), normalisePairs(fixedAttributes)))

\* Wrong variant: the key is not counted.
costOfValue(v) == v.chars * v.width

cost(v) == KeyBytes + v.chars * v.width

totalBytes(f) == MapThenSumSet(LAMBDA k : KeyBytes + f[k].chars * f[k].width, DOMAIN f)

\* Wrong variant: the context may override a critical attribute.
admitsAny(f, critical, k, v) == k \in AllowedKeys \ BadKeys /\ v.chars > 0

\* Context is best effort: allowed keys that are not critical.
admits(f, critical, k, v) ==
  /\ k \in AllowedKeys \ BadKeys /\ v.chars > 0
  /\ k \notin DOMAIN critical

\* What does not fit the budget is dropped.
addContext(f, critical, pair) ==
  LET k == pair[1]
      v == truncated(pair[2])
  IN  IF admits(f, critical, k, v) /\ totalBytes(f) + cost(v) <= MaxTotal
      THEN over([key \in {k} |-> v], f) ELSE f

\* The pairs of the context are looked at one after the other.
buildContactAttributes(r) ==
  LET critical == criticalAttributes(r)
      merged[n \in 0 .. Len(r.context)] ==
        IF n = 0 THEN critical ELSE addContext(merged[n - 1], critical, r.context[n])
  IN  merged[Len(r.context)]
====

---- MODULE CallController_proofs ----
(***************************************************************************)
(* Proofs about CallController: the types, one start at a time, and one    *)
(* contact per call, for any number of calls, hang-ups and attempts.       *)
(***************************************************************************)
EXTENDS CallController, TLAPS

\* Who is being started and was not crossed keeps the state active.  With the
\* guard of startCall this makes the check and the change of the state atomic.
StartIsActive == \A c \in starting \ crossed : state \in isActive

\* The controller, a hang-up, a DELETE or Connect knows of session s.
known(s) ==
  \/ contact[s] # "none" \/ s \in deletes \/ s = session
  \/ \E e \in Ends : hang[e].session = s

\* Every attempt of a call uses the key of the first.
OneKey ==
  /\ \A c \in Calls : op[c].key = 1
  /\ \A s \in Sessions : known(s) => s[2] = 1

Inv == TypeOK /\ StartIsActive /\ OneStart /\ OneKey

----
(***************************************************************************)
(* Messages and queues                                                     *)
(***************************************************************************)

\* Queues of messages stay queues of messages.
LEMMA QueueTypes ==
  ASSUME NEW q \in Seq(Messages)
  PROVE  /\ \A m \in Messages : Append(q, m) \in Seq(Messages)
         /\ q # <<>> => Head(q) \in Messages /\ Tail(q) \in Seq(Messages)
OBVIOUS

\* What a message carries depends on its kind.
LEMMA MessageTypes ==
  ASSUME NEW m \in Messages
  PROVE  /\ m.kind \in {"join", "joinFailed"} => m.of \in Calls
         /\ m.kind = "leave" => m.of \in Ends
         /\ m.kind = "state" => m.of \in CallState
BY DEF Messages

\* The messages that are made are messages.
LEMMA NewMessages ==
  /\ \A c \in Calls : [kind |-> "join", of |-> c] \in Messages
  /\ \A c \in Calls : [kind |-> "joinFailed", of |-> c] \in Messages
  /\ \A e \in Ends : [kind |-> "leave", of |-> e] \in Messages
  /\ \A s \in CallState : stateEvent(s) \in Messages
  /\ [kind |-> "error", of |-> "fatal"] \in Messages
BY DEF Messages, stateEvent

----
(***************************************************************************)
(* Types                                                                   *)
(***************************************************************************)

PCs == {"idle", "done", "threw", "threwEarly"} \cup Starting
OpType == [Calls -> [pc : PCs, attempt : 1 .. MaxAttempts, key : 1 .. MaxAttempts]]

\* A call that moves on keeps its type, its key, and the other calls alone.
LEMMA OpStep ==
  ASSUME op \in OpType, NEW c \in Calls, NEW p \in PCs,
         \/ op' = [op EXCEPT ![c].pc = p]
         \/ op' = [op EXCEPT ![c].pc = p, ![c].attempt = 1]
  PROVE  /\ op' \in OpType
         /\ op'[c].pc = p
         /\ \A d \in Calls : op'[d].key = op[d].key
         /\ \A d \in Calls \ {c} : op'[d] = op[d]
BY ControllerAssumption DEF OpType

\* So does one that tries again.
LEMMA RetryStep ==
  ASSUME op \in OpType, NEW c \in Calls, attemptsLeft(c), op' = [op EXCEPT ![c] = retry(c)]
  PROVE  /\ op' \in OpType
         /\ \A d \in Calls : op'[d].pc = op[d].pc /\ op'[d].key = op[d].key
BY ControllerAssumption DEF OpType, attemptsLeft, retry

\* A change of the state crosses calls only.
LEMMA StateStep ==
  ASSUME NEW s \in CallState, NEW but, setState(s, but), crossed \subseteq Calls
  PROVE  state' = s /\ crossed' \subseteq Calls /\ crossed \subseteq crossed'
BY DEF setState, starting

LEMMA InitTyped == Init => TypeOK
<1> SUFFICES ASSUME Init PROVE TypeOK
  OBVIOUS
<1>1. op \in OpType
  BY ControllerAssumption DEF Init, OpType, PCs
<1>2. looper \in Seq(Messages) /\ inbox \in Seq(Messages)
  BY DEF Init
<1> QED
  BY <1>1, <1>2 DEF Init, TypeOK, CallState, SessionOrNone, OpType, PCs

\* TypeOK with its parts named.
LEMMA TypeParts ==
  TypeOK <=> /\ state \in CallState /\ session \in SessionOrNone
             /\ op \in OpType
             /\ hang \in [Ends -> [pc : {"idle", "leaving", "done"}, session : SessionOrNone]]
             /\ contact \in [Sessions -> {"none", "live", "over"}]
             /\ deletes \subseteq Sessions
             /\ looper \in Seq(Messages) /\ inbox \in Seq(Messages)
             /\ media \in SessionOrNone
             /\ running \subseteq Sessions /\ coming \subseteq Sessions
             /\ crossed \subseteq Calls
BY DEF TypeOK, OpType, PCs

----
(***************************************************************************)
(* One start at a time, one key                                            *)
(***************************************************************************)

LEMMA InitInv == Init => Inv
<1> SUFFICES ASSUME Init PROVE Inv
  OBVIOUS
<1>1. TypeOK
  BY InitTyped
<1>2. starting = {}
  BY DEF Init, starting, Starting
<1>3. OneKey
  BY ControllerAssumption DEF Init, OneKey, known
<1> QED
  BY <1>1, <1>2, <1>3 DEF Inv, StartIsActive, OneStart

\* Who is being started after a call has moved on.
LEMMA StartingStep ==
  ASSUME op \in OpType, NEW c \in Calls, NEW p \in PCs,
         \/ op' = [op EXCEPT ![c].pc = p]
         \/ op' = [op EXCEPT ![c].pc = p, ![c].attempt = 1]
  PROVE  starting' = IF p \in Starting THEN starting \cup {c} ELSE starting \ {c}
<1>1. op'[c].pc = p /\ \A d \in Calls \ {c} : op'[d] = op[d]
  BY OpStep
<1> QED
  BY <1>1 DEF starting

\* What keeps "one start at a time" whenever no call starts: either the state
\* does not change, or setState crosses whoever is left behind.
LEMMA NoNewStart ==
  ASSUME StartIsActive, OneStart, starting' \subseteq starting,
         \/ state' = state /\ crossed' = crossed
         \/ \E s, but : setState(s, but) /\ starting' \cap but = {}
  PROVE  StartIsActive' /\ OneStart'
<1>1. crossed \subseteq crossed'
  BY DEF setState
<1>2. state' = state \/ state' \in isActive \/ starting' \subseteq crossed'
  BY DEF setState
<1> QED
  BY <1>1, <1>2 DEF StartIsActive, OneStart

\* The queue that a message is taken from, or put into.
LEMMA QueueStep ==
  ASSUME NEW q \in Seq(Messages), q # <<>>
  PROVE  Head(q) \in Messages /\ Tail(q) \in Seq(Messages)
BY QueueTypes

LEMMA StartStep ==
  ASSUME Inv, NEW c \in Calls, startCall(c)
  PROVE  Inv'
<1>0. TypeOK /\ op \in OpType
  BY TypeParts DEF Inv
<1>1. /\ op' = [op EXCEPT ![c].pc = "permission"] /\ "permission" \in PCs \cap Starting
      /\ setState("connecting", {}) /\ "connecting" \in CallState \cap isActive
      /\ state \notin isActive
  BY DEF startCall, PCs, Starting, CallState, isActive
<1>2. /\ op' \in OpType /\ \A d \in Calls : op'[d].key = op[d].key
      /\ starting' = starting \cup {c}
  BY <1>0, <1>1, OpStep, StartingStep
<1>3. state' = "connecting" /\ crossed' = crossed
  BY <1>1 DEF setState
<1>4. TypeOK'
  BY <1>0, <1>1, <1>2, <1>3 DEF startCall, connect, native, TypeOK, OpType, PCs
<1>5. starting \subseteq crossed
  BY <1>1 DEF Inv, StartIsActive
<1>6. StartIsActive' /\ OneStart'
  BY <1>1, <1>2, <1>3, <1>5 DEF StartIsActive, OneStart
<1>7. OneKey'
  BY <1>2 DEF Inv, OneKey, known, startCall, connect
<1> QED
  BY <1>4, <1>6, <1>7 DEF Inv

LEMMA PermissionStep ==
  ASSUME Inv, NEW c \in Calls, PermissionEnds(c)
  PROVE  Inv'
<1>0. TypeOK /\ op \in OpType
  BY TypeParts DEF Inv
<1>1. PICK p \in {"request", "threw", "threwEarly"} :
        /\ op' = [op EXCEPT ![c].pc = p]
        /\ \/ state' = state /\ crossed' = crossed
           \/ p = "threw" /\ setState("failed", {c})
  BY DEF PermissionEnds, PermissionGranted, PermissionDenied, PermissionThrows
<1>2. c \in starting /\ p \in PCs /\ (p \in Starting <=> p = "request") /\ "failed" \in CallState
  BY DEF PermissionEnds, PermissionGranted, PermissionDenied, PermissionThrows, starting,
     Starting, PCs, CallState
<1>3. /\ op' \in OpType /\ \A d \in Calls : op'[d].key = op[d].key
      /\ starting' \subseteq starting /\ (p = "threw" => starting' \cap {c} = {})
  BY <1>0, <1>1, <1>2, OpStep, StartingStep
<1>4. state' \in CallState /\ crossed' \subseteq Calls
  BY <1>0, <1>1, <1>2, StateStep, TypeParts
<1>5. UNCHANGED <<session, hang, connect, looper, inbox, native>>
  BY DEF PermissionEnds, PermissionGranted, PermissionDenied, PermissionThrows
<1>6. TypeOK'
  BY <1>0, <1>3, <1>4, <1>5 DEF connect, native, TypeOK, OpType, PCs
<1>7. StartIsActive' /\ OneStart'
  BY <1>1, <1>3, NoNewStart DEF Inv
<1>8. OneKey'
  BY <1>3, <1>5 DEF Inv, OneKey, known, connect
<1> QED
  BY <1>6, <1>7, <1>8 DEF Inv

\* The backend answers, fails, or refuses.
LEMMA RequestStep ==
  ASSUME Inv, NEW c \in Calls, RequestEnds(c)
  PROVE  Inv'
<1>0. TypeOK /\ op \in OpType /\ contact \in [Sessions -> {"none", "live", "over"}]
  BY TypeParts DEF Inv
<1>1. /\ sessionOf(c) \in Sessions /\ sessionOf(c)[2] = 1 /\ c \in starting
      /\ {"join", "threw"} \subseteq PCs /\ "join" \in Starting /\ "threw" \notin Starting
      /\ {"ringing", "failed"} \subseteq CallState
  BY <1>0, ControllerAssumption DEF RequestEnds, Received, AttemptFails, Refused, Inv, OneKey, sessionOf,
     Sessions, OpType, PCs, Starting, starting, CallState
<1>2. /\ startWebRtcContact(sessionOf(c)) \in [Sessions -> {"none", "live", "over"}]
      /\ \A s \in Sessions \ {sessionOf(c)} : startWebRtcContact(sessionOf(c))[s] = contact[s]
  BY <1>0, <1>1 DEF startWebRtcContact
<1>3. CASE Received(c)
  <2>1. /\ op' = [op EXCEPT ![c].pc = "join", ![c].attempt = 1]
        /\ contact' = startWebRtcContact(sessionOf(c)) /\ session' = sessionOf(c)
        /\ setState("ringing", {})
        /\ looper' = Append(looper, [kind |-> "join", of |-> c])
        /\ UNCHANGED <<hang, deletes, inbox, native>>
    BY <1>3 DEF Received
  <2>2. /\ op' \in OpType /\ \A d \in Calls : op'[d].key = op[d].key
        /\ starting' = starting
    <3>1. "join" \in PCs /\ "join" \in Starting /\ c \in starting
      BY <1>1
    <3>2. starting' = starting \cup {c}
      BY <1>0, <2>1, <3>1, StartingStep
    <3>3. op' \in OpType /\ \A d \in Calls : op'[d].key = op[d].key
      BY <1>0, <2>1, <3>1, OpStep
    <3> QED
      BY <3>1, <3>2, <3>3
  <2>3. state' \in CallState /\ crossed' \subseteq Calls
    BY <1>1, <2>1, StateStep DEF Inv, TypeOK
  <2>4. looper' \in Seq(Messages)
    BY <2>1, QueueTypes, NewMessages DEF Inv, TypeOK
  <2>5. TypeOK'
    BY <1>0, <1>1, <1>2, <2>1, <2>2, <2>3, <2>4 DEF native, TypeOK, OpType, PCs, SessionOrNone
  <2>6. StartIsActive' /\ OneStart'
    BY <2>1, <2>2, NoNewStart DEF Inv
  <2>7. OneKey'
    BY <1>1, <1>2, <2>1, <2>2 DEF Inv, OneKey, known
  <2> QED
    BY <2>5, <2>6, <2>7 DEF Inv
<1>4. CASE AttemptFails(c) \/ Refused(c)
  <2>1. /\ contact' \in {contact, startWebRtcContact(sessionOf(c))}
        /\ UNCHANGED <<session, hang, deletes, looper, inbox, native>>
        /\ \/ /\ attemptsLeft(c) /\ op' = [op EXCEPT ![c] = retry(c)]
              /\ state' = state /\ crossed' = crossed
           \/ op' = [op EXCEPT ![c].pc = "threw", ![c].attempt = 1] /\ setState("failed", {c})
    BY <1>4 DEF AttemptFails, Refused, connect
  <2>2. /\ op' \in OpType /\ \A d \in Calls : op'[d].key = op[d].key
        /\ starting' \subseteq starting
        /\ ~ (state' = state /\ crossed' = crossed) => starting' \cap {c} = {}
    <3>1. CASE attemptsLeft(c) /\ op' = [op EXCEPT ![c] = retry(c)] /\ state' = state /\ crossed' = crossed
      BY <1>0, <3>1, RetryStep DEF starting
    <3>2. CASE op' = [op EXCEPT ![c].pc = "threw", ![c].attempt = 1]
      BY <1>0, <1>1, <3>2, OpStep, StartingStep
    <3> QED
      BY <2>1, <3>1, <3>2
  <2>3. state' \in CallState /\ crossed' \subseteq Calls
    BY <1>1, <2>1, StateStep DEF Inv, TypeOK
  <2>5. TypeOK'
    BY <1>0, <1>2, <2>1, <2>2, <2>3 DEF native, TypeOK, OpType, PCs
  <2>6. StartIsActive' /\ OneStart'
    BY <2>1, <2>2, NoNewStart DEF Inv
  <2>7. OneKey'
    BY <1>1, <1>2, <2>1, <2>2 DEF Inv, OneKey, known
  <2> QED
    BY <2>5, <2>6, <2>7 DEF Inv
<1> QED
  BY <1>3, <1>4 DEF RequestEnds

\* A reply to join: the call is over with starting.
LEMMA JoinReplyStep ==
  ASSUME Inv, JoinReturns \/ JoinThrows
  PROVE  Inv'
<1> DEFINE c == Head(inbox).of
<1>0. TypeOK /\ op \in OpType /\ inbox \in Seq(Messages) /\ inbox # <<>>
  BY TypeParts DEF Inv, JoinReturns, JoinThrows
<1>1. /\ c \in Calls /\ Tail(inbox) \in Seq(Messages)
      /\ {"done", "threw"} \subseteq PCs \ Starting /\ "failed" \in CallState
  BY <1>0, QueueStep, MessageTypes DEF JoinReturns, JoinThrows, PCs, Starting, CallState
<1>2. PICK p \in {"done", "threw"} :
        /\ op' = [op EXCEPT ![c].pc = p]
        /\ \/ state' = state /\ crossed' = crossed
           \/ setState("failed", {c})
  BY DEF JoinReturns, JoinThrows
<1>3. UNCHANGED <<session, hang, connect, looper, native>> /\ inbox' = Tail(inbox)
  BY DEF JoinReturns, JoinThrows
<1>4. /\ op' \in OpType /\ \A d \in Calls : op'[d].key = op[d].key
      /\ starting' \subseteq starting /\ starting' \cap {c} = {}
  <2>1. c \in Calls /\ p \in PCs /\ p \notin Starting
    BY <1>1
  <2>2. starting' = starting \ {c}
    BY <1>0, <1>2, <2>1, StartingStep
  <2>3. op' \in OpType /\ \A d \in Calls : op'[d].key = op[d].key
    BY <1>0, <1>2, <2>1, OpStep
  <2> QED
    BY <2>2, <2>3
<1>5. state' \in CallState /\ crossed' \subseteq Calls
  BY <1>1, <1>2, StateStep DEF Inv, TypeOK
<1>6. TypeOK'
  BY <1>0, <1>1, <1>3, <1>4, <1>5 DEF connect, native, TypeOK, OpType, PCs
<1>7. StartIsActive' /\ OneStart'
  BY <1>2, <1>4, NoNewStart DEF Inv
<1>8. OneKey'
  BY <1>3, <1>4 DEF Inv, OneKey, known, connect
<1> QED
  BY <1>6, <1>7, <1>8 DEF Inv

\* endCall, the reply to leave, and native events start and stop no call.
LEMMA ControlStep ==
  ASSUME Inv, (\E e \in Ends : endCall(e)) \/ LeaveReturns \/ onNativeState \/ onNativeError
  PROVE  Inv'
<1>0. TypeOK
  BY DEF Inv
<1>1. UNCHANGED <<op, contact, native>> /\ starting' = starting
  BY DEF endCall, LeaveReturns, onNativeState, onNativeError, starting, connect
<1>2. PICK s \in CallState : setState(s, {}) \/ (state' = state /\ crossed' = crossed)
  <2>1. CASE LeaveReturns \/ onNativeError
    BY <2>1 DEF LeaveReturns, onNativeError, CallState
  <2>2. CASE \E e \in Ends : endCall(e)
    BY <2>2 DEF endCall, CallState
  <2>3. CASE onNativeState
    BY <1>0, <2>3, QueueStep, MessageTypes DEF onNativeState, TypeOK
  <2> QED
    BY <2>1, <2>2, <2>3
<1>3. state' \in CallState /\ crossed' \subseteq Calls
  BY <1>0, <1>2, StateStep DEF TypeOK
<1>4. /\ session' \in SessionOrNone /\ deletes' \subseteq Sessions
      /\ hang' \in [Ends -> [pc : {"idle", "leaving", "done"}, session : SessionOrNone]]
      /\ looper' \in Seq(Messages) /\ inbox' \in Seq(Messages)
  <2>1. CASE \E e \in Ends : endCall(e)
    <3>1. PICK e \in Ends : endCall(e)
      BY <2>1
    <3>2. looper' \in Seq(Messages)
      BY <1>0, <3>1, QueueTypes, NewMessages DEF endCall, TypeOK
    <3> QED
      BY <1>0, <3>1, <3>2 DEF endCall, TypeOK, connect
  <2>2. CASE LeaveReturns
    <3> DEFINE e == Head(inbox).of
    <3>1. e \in Ends /\ Tail(inbox) \in Seq(Messages)
      BY <1>0, <2>2, QueueStep, MessageTypes DEF LeaveReturns, TypeOK
    <3>2. /\ session' = NoSession /\ inbox' = Tail(inbox) /\ looper' = looper
          /\ deletes' = deletes \cup ({hang[e].session} \ {NoSession})
          /\ hang' = [hang EXCEPT ![e] = [pc |-> "done", session |-> NoSession]]
      BY <2>2 DEF LeaveReturns, captured
    <3> QED
      BY <1>0, <3>1, <3>2 DEF TypeOK, SessionOrNone
  <2>3. CASE onNativeState \/ onNativeError
    BY <1>0, <2>3, QueueStep DEF onNativeState, onNativeError, TypeOK, SessionOrNone, connect
  <2> QED
    BY <2>1, <2>2, <2>3
<1>5. TypeOK'
  BY <1>0, <1>1, <1>3, <1>4 DEF native, TypeOK
<1>6. StartIsActive' /\ OneStart'
  BY <1>1, <1>2, NoNewStart DEF Inv
<1>7. \A t \in Sessions : known(t)' => known(t)
  <2>1. CASE \E e \in Ends : endCall(e)
    BY <1>0, <2>1 DEF endCall, known, connect, TypeOK
  <2>2. CASE LeaveReturns
    <3> DEFINE e == Head(inbox).of
    <3>1. e \in Ends
      BY <1>0, <2>2, QueueStep, MessageTypes DEF LeaveReturns, TypeOK
    <3>2. /\ session' = NoSession
          /\ deletes' = deletes \cup ({hang[e].session} \ {NoSession})
          /\ hang' = [hang EXCEPT ![e] = [pc |-> "done", session |-> NoSession]]
      BY <2>2 DEF LeaveReturns, captured
    <3> QED
      BY <1>0, <1>1, <3>1, <3>2, ControllerAssumption DEF known, TypeOK
  <2>3. CASE onNativeState \/ onNativeError
    BY <1>1, <2>3, ControllerAssumption DEF onNativeState, onNativeError, known, connect
  <2> QED
    BY <2>1, <2>2, <2>3
<1>8. OneKey'
  BY <1>1, <1>7 DEF Inv, OneKey
<1> QED
  BY <1>5, <1>6, <1>8 DEF Inv

NativeTyped ==
  /\ looper \in Seq(Messages) /\ inbox \in Seq(Messages)
  /\ media \in SessionOrNone /\ running \subseteq Sessions /\ coming \subseteq Sessions

\* The main thread and Chime touch neither the calls nor Connect.
LEMMA NativeStep ==
  ASSUME Inv,
         MainThread \/ \E s \in Sessions : onAudioSessionStarted(s) \/ onAudioSessionStopped(s)
  PROVE  Inv'
<1>0. TypeOK
  BY DEF Inv
<1>1. UNCHANGED <<dart, connect>> /\ starting' = starting
  BY DEF MainThread, emit, join, joinThrows, startMediaThrows, leave, onAudioSessionStarted,
     onAudioSessionStopped, dart, starting
<1>2. \A q \in Seq(Messages) : Append(q, stateEvent("disconnected")) \in Seq(Messages)
  BY QueueTypes, NewMessages DEF CallState
<1>3. NativeTyped'
  <2>1. CASE emit
    BY <1>0, <2>1, QueueStep, QueueTypes DEF emit, Reply, native, TypeOK, NativeTyped
  <2>2. CASE join \/ startMediaThrows
    <3> DEFINE c == Head(looper).of
    <3>1. /\ c \in Calls /\ Head(looper) \in Messages /\ Tail(looper) \in Seq(Messages)
      BY <1>0, <2>2, QueueStep, MessageTypes DEF join, startMediaThrows, TypeOK
    <3>2. sessionOf(c) \in Sessions
      BY <1>0, <3>1 DEF TypeOK, sessionOf, Sessions
    <3>3. /\ media' = sessionOf(c)
          /\ running' \subseteq running \cup {media'} /\ coming' \subseteq coming \cup {media'}
          /\ looper' = Append(Tail(looper), stateEvent("connecting"))
          /\ \/ inbox' = Append(inbox, Head(looper))
             \/ inbox' = Append(inbox, [kind |-> "joinFailed", of |-> c])
      BY <2>2 DEF join, startMediaThrows, joinFailed, Reply
    <3>4. looper' \in Seq(Messages)
      BY <1>0, <3>1, <3>3, QueueTypes, NewMessages DEF TypeOK, CallState
    <3>5. inbox' \in Seq(Messages)
      <4>1. PICK m \in Messages : inbox' = Append(inbox, m)
        BY <3>1, <3>3, NewMessages
      <4> QED
        BY <1>0, <4>1, QueueTypes DEF TypeOK
    <3> QED
      BY <1>0, <3>2, <3>3, <3>4, <3>5 DEF TypeOK, SessionOrNone, NativeTyped
  <2>3. CASE joinThrows
    <3>1. /\ Head(looper).of \in Calls /\ Tail(looper) \in Seq(Messages)
      BY <1>0, <2>3, QueueStep, MessageTypes DEF joinThrows, TypeOK
    <3>2. inbox' \in Seq(Messages)
      BY <1>0, <2>3, <3>1, QueueTypes, NewMessages DEF joinThrows, joinFailed, Reply, TypeOK
    <3> QED
      BY <1>0, <2>3, <3>1, <3>2 DEF joinThrows, native, TypeOK, NativeTyped
  <2>4. CASE leave
    <3>1. Head(looper) \in Messages /\ Tail(looper) \in Seq(Messages)
      BY <1>0, <2>4, QueueStep DEF leave, TypeOK
    <3>2. inbox' \in Seq(Messages)
      BY <1>0, <2>4, <3>1, QueueTypes DEF leave, Reply, TypeOK
    <3> QED
      BY <1>0, <1>2, <2>4, <3>1, <3>2 DEF leave, stopMedia, TypeOK, SessionOrNone, NativeTyped
  <2>5. ASSUME NEW s \in Sessions, onAudioSessionStarted(s) PROVE NativeTyped'
    <3>1. looper' \in Seq(Messages)
      BY <1>0, <2>5, QueueTypes, NewMessages DEF onAudioSessionStarted, TypeOK, CallState
    <3> QED
      BY <1>0, <2>5, <3>1 DEF onAudioSessionStarted, TypeOK, NativeTyped
  <2>6. ASSUME NEW s \in Sessions, onAudioSessionStopped(s) PROVE NativeTyped'
    <3>1. Append(looper, [kind |-> "error", of |-> "fatal"]) \in Seq(Messages)
      BY <1>0, QueueTypes, NewMessages DEF TypeOK
    <3> QED
      BY <1>0, <1>2, <2>6, <3>1 DEF onAudioSessionStopped, stopMedia, TypeOK, SessionOrNone, NativeTyped
  <2> QED
    BY <2>1, <2>2, <2>3, <2>4, <2>5, <2>6 DEF MainThread
<1>4. TypeOK'
  BY <1>0, <1>1, <1>3 DEF dart, connect, TypeOK, NativeTyped
<1>5. StartIsActive' /\ OneStart' /\ OneKey'
  BY <1>1 DEF Inv, StartIsActive, OneStart, OneKey, known, dart, connect
<1> QED
  BY <1>4, <1>5 DEF Inv

\* Nor do the backend and the agent touch the calls.
LEMMA ContactStep ==
  ASSUME Inv, NEW s \in Sessions, deleteCall(s) \/ AgentEnds(s)
  PROVE  Inv'
<1>1. /\ UNCHANGED <<dart, looper, inbox, native>> /\ deletes' \subseteq deletes
      /\ contact' = [contact EXCEPT ![s] = "over"]
      /\ starting' = starting
  BY DEF deleteCall, AgentEnds, dart, starting
<1>2. known(s)
  BY DEF deleteCall, AgentEnds, known
<1>3. TypeOK'
  BY <1>1 DEF Inv, TypeOK, dart, native
<1>4. StartIsActive' /\ OneStart'
  BY <1>1 DEF Inv, StartIsActive, OneStart, dart
<1>5. \A t \in Sessions : known(t)' => known(t)
  BY <1>1, <1>2 DEF Inv, TypeOK, known, dart
<1>6. OneKey'
  BY <1>1, <1>5 DEF Inv, OneKey, dart
<1> QED
  BY <1>3, <1>4, <1>6 DEF Inv

\* Every step keeps the invariant.
LEMMA StepInv == Inv /\ [Next]_vars => Inv'
<1> SUFFICES ASSUME Inv, [Next]_vars PROVE Inv'
  OBVIOUS
<1>1. CASE \E c \in Calls : startCall(c) \/ PermissionEnds(c) \/ RequestEnds(c)
  BY <1>1, StartStep, PermissionStep, RequestStep
<1>2. CASE (\E e \in Ends : endCall(e)) \/ DartReceives
  BY <1>2, ControlStep, JoinReplyStep DEF DartReceives
<1>3. CASE MainThread \/ \E s \in Sessions : onAudioSessionStarted(s) \/ onAudioSessionStopped(s)
  BY <1>3, NativeStep
<1>4. CASE \E s \in Sessions : deleteCall(s) \/ AgentEnds(s)
  BY <1>4, ContactStep
<1>5. CASE UNCHANGED vars
  BY <1>5 DEF vars, dart, connect, native, Inv, TypeOK, StartIsActive, OneStart, OneKey, known, starting
<1> QED
  BY <1>1, <1>2, <1>3, <1>4, <1>5 DEF Next

----
(***************************************************************************)
(* Theorems                                                                *)
(***************************************************************************)

\* The invariant holds in every state.
THEOREM ControllerInvariance == Spec => []Inv
BY InitInv, StepInv, PTL DEF Spec

\* The variables keep their types.
THEOREM ControllerTypeCorrect == Spec => []TypeOK
<1>1. Inv => TypeOK
  BY DEF Inv
<1> QED
  BY <1>1, ControllerInvariance, PTL

\* No two calls are being started at once, unless the state was made inactive
\* during one of the starts.
THEOREM ControllerOneStart == Spec => []OneStart
<1>1. Inv => OneStart
  BY DEF Inv
<1> QED
  BY <1>1, ControllerInvariance, PTL

\* One call makes one contact, however often its request is repeated.
THEOREM ControllerOneContact == Spec => []OneContact
<1>1. Inv => OneContact
  BY DEF Inv, OneKey, known, OneContact, Sessions
<1> QED
  BY <1>1, ControllerInvariance, PTL

----
(***************************************************************************)
(* No media without a call                                                 *)
(***************************************************************************)
(* While nobody is crossed, the media that runs is that of the one call    *)
(* that the state shows.  The messages on their way have to say so: either *)
(* none of them ends a call whose media runs, or one will reach Dart       *)
(* before the reply to a join does, and so is fated to cross that start.   *)
(***************************************************************************)

isReply(m) == m.kind \in {"join", "joinFailed"}

\* A message to Dart that makes the state inactive.
ends(m) == m.kind \in {"leave", "error", "joinFailed"} \/ (m.kind = "state" /\ m.of \notin isActive)

\* About the looper's queue: it holds a join, at most one, nothing but hang-ups wait
\* behind it, nothing in it ends the call but hang-ups, which first end the media.
HasJoin(q) == \E k \in 1 .. Len(q) : q[k].kind = "join"
OneJoin(q) == \A j, k \in 1 .. Len(q) : q[j].kind = "join" /\ q[k].kind = "join" => j = k
JoinLast(q) ==
  \A j, k \in 1 .. Len(q) : q[k].kind = "join" /\ j > k => q[j].kind = "leave"
Harmless(q) == \A k \in 1 .. Len(q) : q[k].kind = "leave" \/ ~ends(q[k])

\* About Dart's queue: it holds a reply to join, at most one, nothing that ends a call,
\* or something that does ahead of every reply to join.
HasReply(q) == \E k \in 1 .. Len(q) : isReply(q[k])
OneReply(q) == \A j, k \in 1 .. Len(q) : isReply(q[j]) /\ isReply(q[k]) => j = k
NothingEnds(q) == \A k \in 1 .. Len(q) : ~ends(q[k])
EndsAhead(q) == \E k \in 1 .. Len(q) : ends(q[k]) /\ \A j \in 1 .. k : ~isReply(q[j])

\* Media runs for the session that the platform holds, and for no call that has yet to join.
MediaKept ==
  /\ running \subseteq {media} /\ coming \subseteq running
  /\ HasJoin(looper) => running = {} /\ ~HasReply(inbox)
  /\ \A c \in Calls : op[c].pc \in {"permission", "request"} => running = {}

\* Who joins is in the middle of starting.
JoinsKept ==
  /\ \A k \in 1 .. Len(looper) : looper[k].kind = "join" => op[looper[k].of].pc = "join"
  /\ \A k \in 1 .. Len(inbox) : isReply(inbox[k]) => op[inbox[k].of].pc = "join"

Common == MediaKept /\ OneJoin(looper) /\ OneReply(inbox) /\ JoinsKept

\* Who joins will be crossed.
Fated == (\E c \in Calls : op[c].pc = "join") /\ EndsAhead(inbox)

Orderly ==
  /\ JoinLast(looper)
  /\ running # {} => state \in isActive /\ Harmless(looper) /\ NothingEnds(inbox)

Kept == Common /\ (Fated \/ Orderly)

Calm == crossed = {} => Kept

----
\* What Tail and Append do to a queue.
LEMMA TailFacts ==
  ASSUME NEW q \in Seq(Messages), q # <<>>
  PROVE  /\ Len(q) \in Nat \ {0} /\ Head(q) = q[1]
         /\ Len(Tail(q)) = Len(q) - 1
         /\ \A k \in 1 .. Len(q) - 1 : Tail(q)[k] = q[k + 1]
OBVIOUS

LEMMA AppendFacts ==
  ASSUME NEW q \in Seq(Messages), NEW m \in Messages
  PROVE  /\ Len(q) \in Nat
         /\ Len(Append(q, m)) = Len(q) + 1
         /\ \A k \in 1 .. Len(q) : Append(q, m)[k] = q[k]
         /\ Append(q, m)[Len(q) + 1] = m
OBVIOUS

LEMMA AppendElements ==
  ASSUME NEW q \in Seq(Messages), NEW m \in Messages
  PROVE  \A k \in 1 .. Len(Append(q, m)) :
           (k \in 1 .. Len(q) /\ Append(q, m)[k] = q[k]) \/ Append(q, m)[k] = m
<1>1. \A k \in 1 .. Len(q) + 1 : k \in 1 .. Len(q) \/ k = Len(q) + 1
  BY AppendFacts
<1> QED
  BY <1>1, AppendFacts

\* A queue without its first message.
LEMMA TailKeeps ==
  ASSUME NEW q \in Seq(Messages), q # <<>>
  PROVE  /\ HasJoin(Tail(q)) => HasJoin(q)
         /\ HasReply(Tail(q)) => HasReply(q)
         /\ JoinLast(q) => JoinLast(Tail(q))
         /\ Harmless(q) => Harmless(Tail(q))
         /\ OneJoin(q) => OneJoin(Tail(q))
         /\ OneReply(q) => OneReply(Tail(q))
         /\ NothingEnds(q) => NothingEnds(Tail(q))
         /\ EndsAhead(q) /\ ~ends(Head(q)) => EndsAhead(Tail(q))
<1> DEFINE t == Tail(q)
<1>1. /\ Len(q) \in Nat \ {0} /\ Len(t) = Len(q) - 1 /\ Head(q) = q[1]
      /\ \A k \in 1 .. Len(t) : t[k] = q[k + 1] /\ k + 1 \in 1 .. Len(q)
  BY TailFacts
<1>2. \A j \in 1 .. Len(q) : j > 1 => j - 1 \in 1 .. Len(t) /\ t[j - 1] = q[j]
  BY <1>1
<1> HIDE DEF t
<1>3. /\ HasJoin(t) => HasJoin(q)
      /\ HasReply(t) => HasReply(q)
      /\ Harmless(q) => Harmless(t)
      /\ NothingEnds(q) => NothingEnds(t)
  BY <1>1 DEF HasJoin, HasReply, Harmless, NothingEnds
<1>4. JoinLast(q) => JoinLast(t)
  <2> SUFFICES ASSUME JoinLast(q), NEW j \in 1 .. Len(t), NEW k \in 1 .. Len(t),
                      t[k].kind = "join", j > k
               PROVE  t[j].kind = "leave"
    BY DEF JoinLast
  <2>1. /\ j + 1 \in 1 .. Len(q) /\ k + 1 \in 1 .. Len(q) /\ j + 1 > k + 1
        /\ q[k + 1].kind = "join" /\ t[j] = q[j + 1]
    BY <1>1
  <2> QED
    BY <2>1 DEF JoinLast
<1>5. OneJoin(q) => OneJoin(t)
  <2> SUFFICES ASSUME OneJoin(q), NEW j \in 1 .. Len(t), NEW k \in 1 .. Len(t),
                      t[j].kind = "join", t[k].kind = "join"
               PROVE  j = k
    BY DEF OneJoin
  <2>1. /\ q[j + 1].kind = "join" /\ q[k + 1].kind = "join"
        /\ j + 1 \in 1 .. Len(q) /\ k + 1 \in 1 .. Len(q)
    BY <1>1
  <2>2. j + 1 = k + 1
    BY <2>1 DEF OneJoin
  <2> QED
    BY <2>2
<1>6. OneReply(q) => OneReply(t)
  <2> SUFFICES ASSUME OneReply(q), NEW j \in 1 .. Len(t), NEW k \in 1 .. Len(t),
                      isReply(t[j]), isReply(t[k])
               PROVE  j = k
    BY DEF OneReply
  <2>1. isReply(q[j + 1]) /\ isReply(q[k + 1]) /\ j + 1 \in 1 .. Len(q) /\ k + 1 \in 1 .. Len(q)
    BY <1>1
  <2>2. j + 1 = k + 1
    BY <2>1 DEF OneReply
  <2> QED
    BY <2>2
<1>7. EndsAhead(q) /\ ~ends(Head(q)) => EndsAhead(t)
  <2> SUFFICES ASSUME EndsAhead(q), ~ends(Head(q)) PROVE EndsAhead(t)
    OBVIOUS
  <2>1. PICK k \in 1 .. Len(q) : ends(q[k]) /\ \A j \in 1 .. k : ~isReply(q[j])
    BY DEF EndsAhead
  <2>2. k > 1
    BY <1>1, <2>1
  <2>3. k - 1 \in 1 .. Len(t) /\ t[k - 1] = q[k]
    BY <1>2, <2>2
  <2>4. ASSUME NEW j \in 1 .. k - 1 PROVE ~isReply(t[j])
    <3>1. j \in 1 .. Len(t) /\ j + 1 \in 1 .. k
      BY <1>1, <2>3
    <3> QED
      BY <1>1, <2>1, <3>1
  <2> QED
    BY <2>1, <2>3, <2>4 DEF EndsAhead
<1> QED
  BY <1>3, <1>4, <1>5, <1>6, <1>7 DEF t

\* A queue with one more message.
LEMMA AppendKeeps ==
  ASSUME NEW q \in Seq(Messages), NEW m \in Messages
  PROVE  /\ HasJoin(Append(q, m)) => HasJoin(q) \/ m.kind = "join"
         /\ HasReply(Append(q, m)) => HasReply(q) \/ isReply(m)
         /\ JoinLast(q) /\ (m.kind = "leave" \/ ~HasJoin(q)) => JoinLast(Append(q, m))
         /\ Harmless(q) /\ (m.kind = "leave" \/ ~ends(m)) => Harmless(Append(q, m))
         /\ OneJoin(q) /\ ~(m.kind = "join" /\ HasJoin(q)) => OneJoin(Append(q, m))
         /\ OneReply(q) /\ ~(isReply(m) /\ HasReply(q)) => OneReply(Append(q, m))
         /\ NothingEnds(q) /\ ~ends(m) => NothingEnds(Append(q, m))
         /\ EndsAhead(q) => EndsAhead(Append(q, m))
         /\ ends(m) /\ ~isReply(m) /\ ~HasReply(q) => EndsAhead(Append(q, m))
<1> DEFINE a == Append(q, m)
<1>1. /\ Len(q) \in Nat /\ Len(a) = Len(q) + 1
      /\ \A k \in 1 .. Len(a) : (k \in 1 .. Len(q) /\ a[k] = q[k]) \/ (k = Len(q) + 1 /\ a[k] = m)
      /\ \A k \in 1 .. Len(q) : a[k] = q[k] /\ k \in 1 .. Len(a)
      /\ Len(a) \in 1 .. Len(a) /\ a[Len(a)] = m
  BY AppendFacts
<1> HIDE DEF a
<1>2. (HasJoin(a) => HasJoin(q) \/ m.kind = "join") /\ (HasReply(a) => HasReply(q) \/ isReply(m))
  BY <1>1 DEF HasJoin, HasReply
<1>3. JoinLast(q) /\ (m.kind = "leave" \/ ~HasJoin(q)) => JoinLast(a)
  BY <1>1 DEF JoinLast, HasJoin
<1>4. Harmless(q) /\ (m.kind = "leave" \/ ~ends(m)) => Harmless(a)
  BY <1>1 DEF Harmless
<1>5. OneJoin(q) /\ ~(m.kind = "join" /\ HasJoin(q)) => OneJoin(a)
  BY <1>1 DEF OneJoin, HasJoin
<1>6. OneReply(q) /\ ~(isReply(m) /\ HasReply(q)) => OneReply(a)
  BY <1>1 DEF OneReply, HasReply
<1>7. NothingEnds(q) /\ ~ends(m) => NothingEnds(a)
  BY <1>1 DEF NothingEnds
<1>8. EndsAhead(q) => EndsAhead(a)
  <2> SUFFICES ASSUME NEW k \in 1 .. Len(q), ends(q[k]), \A j \in 1 .. k : ~isReply(q[j])
               PROVE  EndsAhead(a)
    BY DEF EndsAhead
  <2>1. \A j \in 1 .. k : j \in 1 .. Len(q)
    BY <1>1
  <2> QED
    BY <1>1, <2>1 DEF EndsAhead
<1>9. ends(m) /\ ~isReply(m) /\ ~HasReply(q) => EndsAhead(a)
  BY <1>1 DEF EndsAhead, HasReply
<1> QED
  BY <1>2, <1>3, <1>4, <1>5, <1>6, <1>7, <1>8, <1>9 DEF a

\* A queue with no reply in it: what ends a call there is ahead of every reply.
LEMMA EndsBeforeReplies ==
  ASSUME NEW q \in Seq(Messages), ~HasReply(q)
  PROVE  NothingEnds(q) \/ EndsAhead(q)
<1>1. \A k \in 1 .. Len(q) : \A j \in 1 .. k : j \in 1 .. Len(q)
  BY Len(q) \in Nat
<1> QED
  BY <1>1 DEF NothingEnds, EndsAhead, HasReply

\* A join at the head of the looper is the only one, and if joins come last there, only
\* hang-ups are behind it.
LEMMA BehindJoin ==
  ASSUME NEW q \in Seq(Messages), q # <<>>, Head(q).kind = "join", OneJoin(q)
  PROVE  /\ HasJoin(q) /\ ~HasJoin(Tail(q)) /\ JoinLast(Tail(q)) /\ OneJoin(Tail(q))
         /\ JoinLast(q) => Harmless(Tail(q))
<1>1. /\ 1 \in 1 .. Len(q) /\ Head(q) = q[1]
      /\ \A k \in 1 .. Len(Tail(q)) :
            Tail(q)[k] = q[k + 1] /\ k + 1 \in 1 .. Len(q) /\ k + 1 > 1
  BY TailFacts
<1>2. HasJoin(q)
  BY <1>1 DEF HasJoin
<1>3. ~HasJoin(Tail(q))
  BY <1>1 DEF OneJoin, HasJoin
<1>4. JoinLast(Tail(q)) /\ OneJoin(Tail(q))
  BY <1>3 DEF HasJoin, JoinLast, OneJoin
<1>5. JoinLast(q) => Harmless(Tail(q))
  BY <1>1 DEF JoinLast, Harmless
<1> QED
  BY <1>2, <1>3, <1>4, <1>5

\* A message at the head of Dart's queue: no second reply follows a reply, and what
\* ends a call ahead of the replies is no reply.
LEMMA AtHead ==
  ASSUME NEW q \in Seq(Messages), q # <<>>
  PROVE  /\ isReply(Head(q)) => HasReply(q) /\ ~EndsAhead(q)
         /\ OneReply(q) /\ isReply(Head(q)) => ~HasReply(Tail(q))
         /\ NothingEnds(q) => ~ends(Head(q))
<1>1. /\ 1 \in 1 .. Len(q) /\ Head(q) = q[1]
      /\ \A k \in 1 .. Len(Tail(q)) : Tail(q)[k] = q[k + 1] /\ k + 1 \in 1 .. Len(q)
  BY TailFacts
<1>2. isReply(Head(q)) => HasReply(q) /\ ~EndsAhead(q)
  <2>1. \A k \in 1 .. Len(q) : 1 \in 1 .. k
    BY <1>1
  <2> QED
    BY <1>1, <2>1 DEF HasReply, EndsAhead
<1>3. OneReply(q) /\ isReply(Head(q)) => ~HasReply(Tail(q))
  <2> SUFFICES ASSUME OneReply(q), isReply(Head(q)), NEW k \in 1 .. Len(Tail(q)),
                      isReply(Tail(q)[k])
               PROVE  FALSE
    BY DEF HasReply
  <2>1. 1 = k + 1
    BY <1>1 DEF OneReply
  <2> QED
    BY <2>1
<1>4. NothingEnds(q) => ~ends(Head(q))
  BY <1>1 DEF NothingEnds
<1> QED
  BY <1>2, <1>3, <1>4

----
\* While nobody is crossed, one call is being started at most, and it keeps the
\* state active.
LEMMA Alone ==
  ASSUME Inv, crossed = {}
  PROVE  /\ \A c, d \in starting : c = d
         /\ starting # {} => state \in isActive
BY DEF Inv, OneStart, StartIsActive

\* The queues hold messages, and joins and their replies are about calls.
LEMMA Typed ==
  ASSUME Inv
  PROVE  /\ looper \in Seq(Messages) /\ inbox \in Seq(Messages) /\ op \in OpType
         /\ \A k \in 1 .. Len(looper) :
              looper[k] \in Messages /\ (looper[k].kind = "join" => looper[k].of \in Calls)
         /\ \A k \in 1 .. Len(inbox) :
              inbox[k] \in Messages /\ (isReply(inbox[k]) => inbox[k].of \in Calls)
<1>1. looper \in Seq(Messages) /\ inbox \in Seq(Messages) /\ op \in OpType
  BY TypeParts DEF Inv
<1>2. \A m \in Messages : (m.kind = "join" => m.of \in Calls) /\ (isReply(m) => m.of \in Calls)
  BY MessageTypes DEF isReply
<1> QED
  BY <1>1, <1>2

\* A call that has yet to join is the only one that is being started: no join, and no
\* reply to one, is on its way.
LEMMA NotJoining ==
  ASSUME Inv, Kept, \A c \in Calls : op[c].pc # "join"
  PROVE  ~HasJoin(looper) /\ ~HasReply(inbox) /\ ~Fated /\ Orderly
BY Typed DEF Kept, Common, JoinsKept, HasJoin, HasReply, Fated

LEMMA AloneEarly ==
  ASSUME Inv, Kept, crossed = {}, NEW c \in Calls, op[c].pc \in {"permission", "request"}
  PROVE  running = {} /\ \A d \in Calls : op[d].pc # "join"
BY Alone DEF Kept, Common, MediaKept, starting, Starting

\* A step of Dart that sends and receives nothing: it matters which calls wait for
\* their session, and whether a state that becomes inactive does so without media.
LEMMA Aside ==
  ASSUME Inv, Kept, UNCHANGED <<looper, inbox, native>>,
         \A c \in Calls : op[c].pc = "join" => op'[c].pc = "join",
         \A c \in Calls : op'[c].pc \in {"permission", "request"} => running = {},
         running # {} => state' = state
  PROVE  Kept'
<1>1. JoinsKept'
  BY Typed DEF Kept, Common, JoinsKept
<1>2. Common'
  BY <1>1 DEF Kept, Common, MediaKept, native
<1>3. Fated' \/ Orderly'
  BY DEF Kept, Fated, Orderly, native
<1> QED
  BY <1>2, <1>3 DEF Kept

\* A call is only started when the state is inactive, and so without media.
LEMMA KeptStart ==
  ASSUME Inv, Kept, crossed = {}, NEW c \in Calls, startCall(c)
  PROVE  Kept'
<1>1. /\ op[c].pc = "idle" /\ state \notin isActive /\ UNCHANGED <<looper, inbox, native>>
      /\ op' = [op EXCEPT ![c].pc = "permission"]
  BY DEF startCall
<1>2. \A d \in Calls : op[d].pc # "join"
  BY <1>1, Alone DEF starting, Starting
<1>3. running = {}
  BY <1>1, <1>2, NotJoining DEF Orderly
<1>4. \A d \in Calls : op[d].pc = "join" => op'[d].pc = "join"
  BY <1>2
<1> QED
  BY <1>1, <1>3, <1>4, Aside

\* Permissions and failing requests: the call has no media yet.
LEMMA KeptEarly ==
  ASSUME Inv, Kept, crossed = {}, NEW c \in Calls,
         PermissionEnds(c) \/ AttemptFails(c) \/ Refused(c)
  PROVE  Kept'
<1>1. op[c].pc \in {"permission", "request"} /\ UNCHANGED <<looper, inbox, native>>
  BY DEF PermissionEnds, PermissionGranted, PermissionDenied, PermissionThrows, AttemptFails, Refused
<1>2. running = {} /\ \A d \in Calls : op[d].pc # "join"
  BY <1>1, AloneEarly
<1> QED
  BY <1>1, <1>2, Aside

\* The session is received: nobody else is joining.
LEMMA KeptReceived ==
  ASSUME Inv, Kept, crossed = {}, NEW c \in Calls, Received(c)
  PROVE  Kept'
<1> DEFINE m == [kind |-> "join", of |-> c]
<1>1. /\ op[c].pc = "request" /\ looper' = Append(looper, m)
      /\ op' = [op EXCEPT ![c].pc = "join", ![c].attempt = 1] /\ UNCHANGED <<inbox, native>>
  BY DEF Received
<1>2. running = {} /\ \A d \in Calls : op[d].pc # "join"
  BY <1>1, AloneEarly
<1>3. ~HasJoin(looper) /\ ~HasReply(inbox) /\ Orderly
  BY <1>2, NotJoining
<1>4. m \in Messages /\ m.kind = "join"
  BY NewMessages
<1>5. JoinLast(looper') /\ OneJoin(looper')
  BY <1>1, <1>3, <1>4, Typed, AppendKeeps DEF Kept, Common, Orderly
<1>6. JoinsKept'
  <2>1. op'[c].pc = "join"
    BY <1>1, Typed, OpStep DEF PCs, Starting
  <2>2. \A k \in 1 .. Len(looper') : looper'[k].kind = "join" => looper'[k].of = c
    BY <1>1, <1>3, <1>4, Typed, AppendFacts DEF HasJoin
  <2> QED
    BY <1>1, <1>3, <2>1, <2>2 DEF JoinsKept, HasReply
<1>7. MediaKept'
  BY <1>1, <1>2, <1>3 DEF Kept, Common, MediaKept, native
<1>8. Orderly'
  BY <1>1, <1>2, <1>5 DEF Orderly, native
<1> QED
  BY <1>1, <1>5, <1>6, <1>7, <1>8 DEF Kept, Common

\* The reply to join: nothing ends a call ahead of it, and a failed one comes without
\* running media.
LEMMA KeptJoinReply ==
  ASSUME Inv, Kept, crossed = {}, JoinReturns \/ JoinThrows
  PROVE  Kept'
<1> DEFINE c == Head(inbox).of
<1>1. /\ inbox # <<>> /\ isReply(Head(inbox)) /\ inbox' = Tail(inbox) /\ UNCHANGED <<looper, native>>
      /\ \E p \in {"done", "threw"} : op' = [op EXCEPT ![c].pc = p]
      /\ Head(inbox).kind = "join" => state' = state
  BY DEF JoinReturns, JoinThrows, isReply
<1>2. c \in Calls
  BY <1>1, Typed, QueueStep, MessageTypes DEF isReply
<1>3. op'[c].pc \notin {"permission", "request"} /\ \A d \in Calls \ {c} : op'[d] = op[d]
  <2>1. {"done", "threw"} \subseteq PCs
    BY DEF PCs
  <2> QED
    BY <1>1, <1>2, <2>1, Typed, OpStep
<1>4. HasReply(inbox) /\ ~EndsAhead(inbox) /\ ~HasReply(Tail(inbox)) /\ ~HasJoin(looper)
  BY <1>1, Typed, AtHead DEF Kept, Common, MediaKept
<1>5. Orderly
  BY <1>4 DEF Kept, Fated
<1>6. running # {} => ~ends(Head(inbox))
  BY <1>1, <1>5, Typed, AtHead DEF Orderly
<1>7. running # {} => state' = state
  BY <1>1, <1>6 DEF isReply, ends
<1>8. OneReply(inbox') /\ (NothingEnds(inbox) => NothingEnds(inbox'))
  BY <1>1, Typed, TailKeeps DEF Kept, Common
<1>9. JoinsKept'
  BY <1>1, <1>4 DEF JoinsKept, HasReply, HasJoin
<1>10. MediaKept'
  BY <1>1, <1>2, <1>3, <1>4 DEF Kept, Common, MediaKept, native
<1>11. Orderly'
  BY <1>1, <1>5, <1>7, <1>8 DEF Orderly, native
<1> QED
  BY <1>1, <1>8, <1>9, <1>10, <1>11 DEF Kept, Common

\* Whoever hangs up waits for the main thread.
LEMMA KeptEndCall ==
  ASSUME Inv, Kept, NEW e \in Ends, endCall(e)
  PROVE  Kept'
<1> DEFINE m == [kind |-> "leave", of |-> e]
<1>1. looper' = Append(looper, m) /\ UNCHANGED <<state, op, inbox, native>>
  BY DEF endCall
<1>2. m \in Messages /\ m.kind = "leave"
  BY NewMessages
<1>3. /\ OneJoin(looper') /\ (HasJoin(looper') => HasJoin(looper))
      /\ JoinLast(looper) => JoinLast(looper')
      /\ Harmless(looper) => Harmless(looper')
  BY <1>1, <1>2, Typed, AppendKeeps DEF Kept, Common
<1>4. JoinsKept'
  <2>1. \A k \in 1 .. Len(looper') :
           (k \in 1 .. Len(looper) /\ looper'[k] = looper[k]) \/ looper'[k] = m
    <3> HIDE DEF m
    <3> QED
      BY <1>1, <1>2, Typed, AppendElements
  <2> QED
    BY <1>1, <1>2, <2>1 DEF Kept, Common, JoinsKept
<1>5. Common'
  BY <1>1, <1>3, <1>4 DEF Kept, Common, MediaKept, native
<1>6. Fated' \/ Orderly'
  BY <1>1, <1>3 DEF Kept, Fated, Orderly, native
<1> QED
  BY <1>5, <1>6 DEF Kept

\* A message to Dart makes the state inactive without media only: ahead of the reply to
\* a join it crosses that call.
LEMMA KeptReceive ==
  ASSUME Inv, Kept, crossed' = {}, LeaveReturns \/ onNativeState \/ onNativeError
  PROVE  Kept'
<1>1. /\ inbox # <<>> /\ inbox' = Tail(inbox) /\ UNCHANGED <<op, looper, native>>
      /\ \E s \in CallState : setState(s, {}) /\ (s \in isActive <=> ~ends(Head(inbox)))
  <2>1. CASE LeaveReturns \/ onNativeError
    BY <2>1 DEF LeaveReturns, onNativeError, ends, CallState, isActive
  <2>2. CASE onNativeState
    <3>1. Head(inbox).of \in CallState
      BY <2>2, Typed, QueueStep, MessageTypes DEF onNativeState
    <3> QED
      BY <2>2, <3>1 DEF onNativeState, ends
  <2> QED
    BY <2>1, <2>2
<1>2. /\ OneReply(inbox') /\ (HasReply(inbox') => HasReply(inbox))
      /\ NothingEnds(inbox) => NothingEnds(inbox') /\ ~ends(Head(inbox))
      /\ EndsAhead(inbox) /\ ~ends(Head(inbox)) => EndsAhead(inbox')
  BY <1>1, Typed, TailKeeps, AtHead DEF Kept, Common
<1>3. JoinsKept'
  BY <1>1, Typed, TailFacts DEF Kept, Common, JoinsKept
<1>4. Common'
  BY <1>1, <1>2, <1>3 DEF Kept, Common, MediaKept, native
<1>5. CASE Fated
  <2>1. starting # {}
    BY <1>5 DEF Fated, starting, Starting
  <2>2. ~ends(Head(inbox))
    BY <1>1, <2>1 DEF setState
  <2>3. Fated'
    BY <1>1, <1>2, <1>5, <2>2 DEF Fated
  <2> QED
    BY <1>4, <2>3 DEF Kept
<1>6. CASE Orderly
  <2>1. running # {} => state' \in isActive
    BY <1>1, <1>2, <1>6 DEF Orderly, setState
  <2>2. Orderly'
    BY <1>1, <1>2, <1>6, <2>1 DEF Orderly, native
  <2> QED
    BY <1>4, <2>2 DEF Kept
<1> QED
  BY <1>5, <1>6 DEF Kept

\* An event passes from the looper to Dart.
LEMMA KeptEmit ==
  ASSUME Inv, Kept, emit
  PROVE  Kept'
<1> DEFINE m == Head(looper)
<1>1. /\ looper # <<>> /\ m.kind \in {"state", "error"} /\ looper' = Tail(looper)
      /\ inbox' = Append(inbox, m) /\ UNCHANGED <<state, op, native>>
  BY DEF emit, Reply, dart
<1>2. m \in Messages /\ ~isReply(m) /\ m.kind # "leave"
  BY <1>1, Typed, QueueStep DEF isReply
<1>3. Harmless(looper) => ~ends(m)
  BY <1>1, <1>2, Typed, TailFacts DEF Harmless
<1>4. /\ OneJoin(looper') /\ (HasJoin(looper') => HasJoin(looper))
      /\ JoinLast(looper) => JoinLast(looper')
      /\ Harmless(looper) => Harmless(looper')
  BY <1>1, Typed, TailKeeps DEF Kept, Common
<1>5. /\ OneReply(inbox') /\ (HasReply(inbox') => HasReply(inbox))
      /\ EndsAhead(inbox) => EndsAhead(inbox')
      /\ NothingEnds(inbox) /\ ~ends(m) => NothingEnds(inbox')
  <2> HIDE DEF m
  <2> QED
    BY <1>1, <1>2, Typed, AppendKeeps DEF Kept, Common
<1>6. JoinsKept'
  <2>1. \A k \in 1 .. Len(looper') : looper'[k].kind = "join" => op'[looper'[k].of].pc = "join"
    BY <1>1, Typed, TailFacts DEF Kept, Common, JoinsKept
  <2>2. \A k \in 1 .. Len(inbox') : isReply(inbox'[k]) => op'[inbox'[k].of].pc = "join"
    <3> HIDE DEF m
    <3> QED
      BY <1>1, <1>2, Typed, AppendElements DEF Kept, Common, JoinsKept
  <2> QED
    BY <2>1, <2>2 DEF JoinsKept
<1>7. Common'
  BY <1>1, <1>4, <1>5, <1>6 DEF Kept, Common, MediaKept, native
<1>8. Fated' \/ Orderly'
  BY <1>1, <1>3, <1>4, <1>5 DEF Kept, Fated, Orderly, native
<1> QED
  BY <1>7, <1>8 DEF Kept

\* What the platform knows when it executes a join: no media runs, no reply is on its
\* way, and the call, being started, keeps the state active.
LEMMA AtJoin ==
  ASSUME Inv, Kept, crossed = {}, looper # <<>>, Head(looper).kind = "join"
  PROVE  /\ running = {} /\ coming = {} /\ ~HasReply(inbox) /\ state \in isActive
         /\ Head(looper) \in Messages /\ Head(looper).of \in Calls
         /\ op[Head(looper).of].pc = "join"
         /\ \A c \in Calls : op[c].pc \notin {"permission", "request"}
         /\ Tail(looper) \in Seq(Messages) /\ ~HasJoin(Tail(looper))
         /\ JoinLast(Tail(looper)) /\ OneJoin(Tail(looper))
         /\ Fated \/ Harmless(Tail(looper))
<1> DEFINE c == Head(looper).of
<1>1. Head(looper) \in Messages /\ c \in Calls /\ Tail(looper) \in Seq(Messages)
  BY Typed, QueueStep, MessageTypes
<1>2. op[c].pc = "join"
  BY Typed, TailFacts DEF Kept, Common, JoinsKept
<1>3. state \in isActive /\ \A d \in Calls : op[d].pc \notin {"permission", "request"}
  BY <1>1, <1>2, Alone DEF starting, Starting
<1>4. /\ HasJoin(looper) /\ ~HasJoin(Tail(looper))
      /\ JoinLast(Tail(looper)) /\ OneJoin(Tail(looper))
      /\ JoinLast(looper) => Harmless(Tail(looper))
  BY Typed, BehindJoin DEF Kept, Common
<1>5. running = {} /\ coming = {} /\ ~HasReply(inbox)
  BY <1>4 DEF Kept, Common, MediaKept
<1> QED
  BY <1>1, <1>2, <1>3, <1>4, <1>5 DEF Kept, Orderly

\* Its reply joins Dart's queue.
LEMMA JoinAnswered ==
  ASSUME Inv, Kept, crossed = {}, looper # <<>>, Head(looper).kind = "join",
         UNCHANGED op, ~HasJoin(looper'),
         NEW m \in Messages, isReply(m), m.of = Head(looper).of, inbox' = Append(inbox, m)
  PROVE  OneReply(inbox') /\ JoinsKept' /\ (EndsAhead(inbox) => EndsAhead(inbox'))
<1>1. ~HasReply(inbox) /\ op[m.of].pc = "join"
  BY AtJoin
<1>2. OneReply(inbox') /\ (EndsAhead(inbox) => EndsAhead(inbox'))
  BY <1>1, Typed, AppendKeeps DEF Kept, Common
<1>3. JoinsKept'
  BY <1>1, Typed, AppendElements DEF Kept, Common, JoinsKept, HasJoin
<1> QED
  BY <1>2, <1>3

\* The join is executed: what ends a call is either in Dart's queue already, ahead of
\* the reply, or a hang-up that will end this session.
LEMMA KeptJoin ==
  ASSUME Inv, Kept, crossed = {}, join
  PROVE  Kept'
<1> DEFINE m == Head(looper)
           s == stateEvent("connecting")
<1>1. /\ looper # <<>> /\ m.kind = "join" /\ looper' = Append(Tail(looper), s)
      /\ inbox' = Append(inbox, m) /\ UNCHANGED <<state, op>>
      /\ running' = running \cup {media'} /\ coming' = coming \cup {media'}
  BY DEF join, Reply, dart
<1>2. /\ m \in Messages /\ isReply(m) /\ Tail(looper) \in Seq(Messages)
      /\ s \in Messages /\ ~ends(s) /\ s.kind = "state" /\ ~ends(m)
  BY <1>1, AtJoin, NewMessages DEF isReply, ends, stateEvent, isActive, CallState
<1>3. /\ ~HasJoin(looper') /\ OneJoin(looper') /\ JoinLast(looper')
      /\ Harmless(Tail(looper)) => Harmless(looper')
  BY <1>1, <1>2, AtJoin, AppendKeeps
<1>4. OneReply(inbox') /\ JoinsKept' /\ (EndsAhead(inbox) => EndsAhead(inbox'))
  <2>1. m.of = Head(looper).of
    OBVIOUS
  <2> HIDE DEF m
  <2> QED
    BY <1>1, <1>2, <1>3, <2>1, JoinAnswered DEF m
<1>5. Common'
  BY <1>1, <1>3, <1>4, AtJoin DEF Common, MediaKept
<1>6. CASE EndsAhead(inbox)
  <2>1. m.of \in Calls /\ op'[m.of].pc = "join"
    BY <1>1, AtJoin
  <2> QED
    BY <1>4, <1>5, <1>6, <2>1 DEF Kept, Fated
<1>7. CASE NothingEnds(inbox)
  <2>1. NothingEnds(inbox')
    <3> HIDE DEF m
    <3> QED
      BY <1>1, <1>2, <1>7, Typed, AppendKeeps
  <2>2. Harmless(Tail(looper))
    BY <1>1, <1>7, AtJoin DEF Fated, EndsAhead, NothingEnds
  <2>3. Orderly'
    BY <1>1, <1>3, <2>1, <2>2, AtJoin DEF Orderly
  <2> QED
    BY <1>5, <2>3 DEF Kept
<1> QED
  BY <1>1, <1>6, <1>7, AtJoin, EndsBeforeReplies, Typed

\* The join throws, before or after the session is assigned: no media runs, and none does.
LEMMA KeptJoinThrows ==
  ASSUME Inv, Kept, crossed = {}, joinThrows \/ startMediaThrows
  PROVE  Kept'
<1> DEFINE s == stateEvent("connecting")
<1>1. /\ looper # <<>> /\ Head(looper).kind = "join"
      /\ looper' = Tail(looper) \/ looper' = Append(Tail(looper), s)
      /\ inbox' = Append(inbox, joinFailed) /\ UNCHANGED <<state, op, running, coming>>
  BY DEF joinThrows, startMediaThrows, Reply, dart, native
<1>2. /\ joinFailed \in Messages /\ isReply(joinFailed) /\ joinFailed.of = Head(looper).of
      /\ s \in Messages /\ s.kind = "state"
  BY <1>1, AtJoin, NewMessages DEF joinFailed, isReply, stateEvent, CallState
<1>3. ~HasJoin(looper') /\ OneJoin(looper') /\ JoinLast(looper')
  <2> HIDE DEF s
  <2>1. /\ Tail(looper) \in Seq(Messages) /\ ~HasJoin(Tail(looper))
        /\ JoinLast(Tail(looper)) /\ OneJoin(Tail(looper))
    BY <1>1, AtJoin
  <2>2. /\ ~HasJoin(Append(Tail(looper), s)) /\ OneJoin(Append(Tail(looper), s))
        /\ JoinLast(Append(Tail(looper), s))
    BY <1>2, <2>1, AppendKeeps
  <2> QED
    BY <1>1, <2>1, <2>2
<1>4. OneReply(inbox') /\ JoinsKept'
  BY <1>1, <1>2, <1>3, JoinAnswered
<1>5. running' = {} /\ coming' = {}
  BY <1>1, AtJoin
<1>6. Common' /\ Orderly'
  BY <1>3, <1>4, <1>5 DEF Common, MediaKept, Orderly
<1> QED
  BY <1>6 DEF Kept

\* The media is torn down: what is said of running media holds no more.  The event that
\* is posted goes behind a join only where that call is fated already.
LEMMA KeptStopMedia ==
  ASSUME Inv, Kept, NEW q \in Seq(Messages), NEW stopped, stopMedia(q, stopped),
         UNCHANGED <<state, op>>, running' = {},
         OneJoin(q), JoinLast(looper) => JoinLast(q), HasJoin(q) => HasJoin(looper),
         \A k \in 1 .. Len(q) : q[k].kind = "join" => op[q[k].of].pc = "join",
         \/ inbox' = inbox
         \/ \E m \in Messages : inbox' = Append(inbox, m) /\ ~isReply(m),
         Fated' \/ ~HasJoin(q)
  PROVE  Kept'
<1> DEFINE d == stateEvent("disconnected")
<1>1. coming' = coming \ stopped /\ running' = running \ stopped
      /\ (looper' = q \/ looper' = Append(q, d))
  BY DEF stopMedia
<1>2. d \in Messages /\ d.kind = "state"
  BY NewMessages DEF CallState, stateEvent
<1>3. /\ OneJoin(looper') /\ (HasJoin(looper') => HasJoin(looper))
      /\ JoinLast(looper) /\ ~HasJoin(q) => JoinLast(looper')
      /\ \A k \in 1 .. Len(looper') : looper'[k].kind = "join" => op[looper'[k].of].pc = "join"
  <2> HIDE DEF d
  <2>1. CASE looper' = Append(q, d)
    <3>1. \A k \in 1 .. Len(looper') : (k \in 1 .. Len(q) /\ looper'[k] = q[k]) \/ looper'[k] = d
      BY <1>2, <2>1, AppendElements
    <3> QED
      BY <1>2, <2>1, <3>1, AppendKeeps
  <2> QED
    BY <1>1, <2>1
<1>4. /\ OneReply(inbox') /\ (HasReply(inbox') => HasReply(inbox))
      /\ EndsAhead(inbox) => EndsAhead(inbox')
  BY Typed, AppendKeeps DEF Kept, Common
<1>5. JoinsKept'
  <2>1. \A k \in 1 .. Len(inbox') : isReply(inbox'[k]) => op'[inbox'[k].of].pc = "join"
    <3>1. CASE inbox' = inbox
      BY <3>1 DEF Kept, Common, JoinsKept
    <3>2. ASSUME NEW m \in Messages, inbox' = Append(inbox, m), ~isReply(m)
          PROVE  \A k \in 1 .. Len(inbox') : isReply(inbox'[k]) => op'[inbox'[k].of].pc = "join"
      BY <3>2, Typed, AppendElements DEF Kept, Common, JoinsKept
    <3> QED
      BY <3>1, <3>2
  <2> QED
    BY <1>3, <2>1 DEF JoinsKept
<1>6. MediaKept'
  BY <1>1, <1>3, <1>4 DEF Kept, Common, MediaKept
<1>7. Common'
  BY <1>3, <1>4, <1>5, <1>6 DEF Common
<1>8. Fated => Fated'
  BY <1>4 DEF Fated
<1>9. Orderly /\ ~HasJoin(q) => Orderly'
  BY <1>3 DEF Orderly
<1> QED
  BY <1>7, <1>8, <1>9 DEF Kept

\* A hang-up ends the media.  Where a join waits behind it, no media runs; the reply to
\* the hang-up reaches Dart before the one to that join.
LEMMA KeptLeave ==
  ASSUME Inv, Kept, leave
  PROVE  Kept'
<1> DEFINE m == Head(looper)
           q == Tail(looper)
<1>1. /\ looper # <<>> /\ m.kind = "leave" /\ stopMedia(q, {media})
      /\ inbox' = Append(inbox, m) /\ UNCHANGED <<state, op>>
  BY DEF leave, Reply, dart
<1>2. m \in Messages /\ ~isReply(m) /\ ends(m) /\ q \in Seq(Messages)
  BY <1>1, Typed, QueueStep DEF isReply, ends
<1>3. running' = {}
  BY <1>1 DEF Kept, Common, MediaKept, stopMedia
<1>4. OneJoin(q) /\ (JoinLast(looper) => JoinLast(q)) /\ (HasJoin(q) => HasJoin(looper))
  BY <1>1, Typed, TailKeeps DEF Kept, Common
<1>5. \A k \in 1 .. Len(q) : q[k].kind = "join" => op[q[k].of].pc = "join"
  BY <1>1, Typed, TailFacts DEF Kept, Common, JoinsKept
<1>6. HasJoin(q) => Fated'
  <2> SUFFICES ASSUME HasJoin(q) PROVE Fated'
    OBVIOUS
  <2>1. HasJoin(looper) /\ ~HasReply(inbox)
    BY <1>4 DEF Kept, Common, MediaKept
  <2>2. \E c \in Calls : op'[c].pc = "join"
    BY <1>1, <2>1, Typed DEF Kept, Common, JoinsKept, HasJoin
  <2>3. EndsAhead(inbox')
    <3> HIDE DEF m
    <3> QED
      BY <1>1, <1>2, <2>1, Typed, AppendKeeps
  <2> QED
    BY <2>2, <2>3 DEF Fated
<1> HIDE DEF q, m
<1> QED
  BY <1>1, <1>2, <1>3, <1>4, <1>5, <1>6, KeptStopMedia

\* The session of the call comes up.
LEMMA KeptStarted ==
  ASSUME Inv, Kept, NEW s \in Sessions, onAudioSessionStarted(s)
  PROVE  Kept'
<1> DEFINE m == stateEvent("connected")
<1>1. /\ s \in coming /\ coming' = coming \ {s} /\ looper' = Append(looper, m)
      /\ UNCHANGED <<state, op, inbox, media, running>>
  BY DEF onAudioSessionStarted, dart
<1>2. m \in Messages /\ ~ends(m) /\ m.kind = "state"
  BY NewMessages DEF CallState, stateEvent, ends, isActive
<1>3. ~HasJoin(looper)
  BY <1>1 DEF Kept, Common, MediaKept
<1>4. /\ OneJoin(looper') /\ ~HasJoin(looper')
      /\ JoinLast(looper) => JoinLast(looper')
      /\ Harmless(looper) => Harmless(looper')
  BY <1>1, <1>2, <1>3, Typed, AppendKeeps DEF Kept, Common
<1>5. JoinsKept'
  BY <1>1, <1>4 DEF Kept, Common, JoinsKept, HasJoin
<1>6. Common'
  BY <1>1, <1>4, <1>5 DEF Kept, Common, MediaKept
<1>7. Fated' \/ Orderly'
  BY <1>1, <1>4 DEF Kept, Fated, Orderly
<1> QED
  BY <1>6, <1>7 DEF Kept

\* It ends: it is that of the call, as no other media runs.
LEMMA KeptStopped ==
  ASSUME Inv, Kept, NEW s \in Sessions, onAudioSessionStopped(s)
  PROVE  Kept'
<1> DEFINE e == [kind |-> "error", of |-> "fatal"]
<1>1. s \in running /\ UNCHANGED <<state, op, inbox>>
  BY DEF onAudioSessionStopped, dart
<1>2. PICK q \in {looper, Append(looper, e)} : stopMedia(q, {s, media})
  BY DEF onAudioSessionStopped
<1>3. ~HasJoin(looper) /\ running' = {}
  BY <1>1, <1>2 DEF Kept, Common, MediaKept, stopMedia
<1>4. e \in Messages /\ e.kind = "error"
  BY NewMessages
<1>5. q \in Seq(Messages) /\ ~HasJoin(q) /\ OneJoin(q) /\ (JoinLast(looper) => JoinLast(q))
  <2> HIDE DEF e
  <2>1. Append(looper, e) \in Seq(Messages)
    BY <1>4, Typed
  <2>2. /\ ~HasJoin(Append(looper, e)) /\ OneJoin(Append(looper, e))
        /\ JoinLast(looper) => JoinLast(Append(looper, e))
    BY <1>3, <1>4, Typed, AppendKeeps DEF Kept, Common
  <2> QED
    BY <1>3, <2>1, <2>2, Typed DEF Kept, Common
<1>6. \A k \in 1 .. Len(q) : q[k].kind = "join" => op[q[k].of].pc = "join"
  BY <1>5 DEF HasJoin
<1> QED
  BY <1>1, <1>2, <1>3, <1>5, <1>6, KeptStopMedia

\* Every step keeps it as long as nobody is crossed, and nobody is ever redeemed.
LEMMA StepCalm == Inv /\ Calm /\ [Next]_vars => Calm'
<1> SUFFICES ASSUME Inv, Calm, [Next]_vars, crossed' = {} PROVE Kept'
  BY DEF Calm
<1>1. crossed = {}
  <2>1. ASSUME NEW s, NEW but, setState(s, but) PROVE crossed \subseteq crossed'
    BY <2>1 DEF setState
  <2>2. crossed \subseteq crossed' \/ UNCHANGED dart
    BY <2>1 DEF Next, startCall, PermissionEnds, PermissionGranted, PermissionDenied, PermissionThrows,
       RequestEnds, Received, AttemptFails, Refused, endCall, DartReceives, JoinReturns, JoinThrows,
       LeaveReturns, onNativeState, onNativeError, MainThread, emit, join, joinThrows,
       startMediaThrows, leave, onAudioSessionStarted, onAudioSessionStopped, deleteCall, AgentEnds, vars
  <2> QED
    BY <2>2 DEF dart
<1>2. Kept
  BY <1>1 DEF Calm
<1>3. ASSUME UNCHANGED <<state, op, looper, inbox, native>> PROVE Kept'
  BY <1>2, <1>3, Aside DEF Kept, Common, MediaKept
<1>4. CASE \E c \in Calls : startCall(c) \/ PermissionEnds(c) \/ RequestEnds(c)
  BY <1>1, <1>2, <1>4, KeptStart, KeptEarly, KeptReceived DEF RequestEnds
<1>5. CASE (\E e \in Ends : endCall(e)) \/ DartReceives
  BY <1>1, <1>2, <1>5, KeptEndCall, KeptJoinReply, KeptReceive DEF DartReceives
<1>6. CASE MainThread
  BY <1>1, <1>2, <1>6, KeptEmit, KeptJoin, KeptJoinThrows, KeptLeave DEF MainThread
<1>7. CASE \E s \in Sessions : onAudioSessionStarted(s) \/ onAudioSessionStopped(s)
  BY <1>2, <1>7, KeptStarted, KeptStopped
<1>8. CASE \E s \in Sessions : deleteCall(s) \/ AgentEnds(s)
  BY <1>3, <1>8 DEF deleteCall, AgentEnds, dart
<1>9. CASE UNCHANGED vars
  BY <1>3, <1>9 DEF vars, dart
<1> QED
  BY <1>4, <1>5, <1>6, <1>7, <1>8, <1>9 DEF Next

LEMMA InitCalm == Init => Calm
BY DEF Init, Calm, Kept, Common, MediaKept, JoinsKept, Orderly, JoinLast, OneJoin, OneReply, HasJoin

\* The messages on their way fit the media that runs, unless somebody was crossed.
THEOREM ControllerCalm == Spec => []Calm
BY ControllerInvariance, InitCalm, StepCalm, PTL DEF Spec

\* No media runs behind a controller that shows no call, at no time, unless the state
\* was made inactive while some call was being started.
THEOREM ControllerNoHiddenMedia == Spec => []NoHiddenMedia
<1>1. Inv /\ Calm => NoHiddenMedia
  <2> SUFFICES ASSUME Inv, Calm, running # {}, state \notin isActive, crossed = {}
               PROVE  FALSE
    BY DEF NoHiddenMedia
  <2>1. Fated
    BY DEF Calm, Kept, Orderly
  <2>2. starting # {}
    BY <2>1 DEF Fated, starting, Starting
  <2> QED
    BY <2>2, Alone
<1> QED
  BY <1>1, ControllerInvariance, ControllerCalm, PTL

\* No media runs on behind the session of a newer call, with the same exception.
THEOREM ControllerNoLostMedia == Spec => []NoLostMedia
<1>1. Calm => NoLostMedia
  BY DEF Calm, Kept, Common, MediaKept, NoLostMedia
<1> QED
  BY <1>1, ControllerCalm, PTL
====

---- MODULE CallController ----
(***************************************************************************)
(* The call controller of the mobile library, its backend client, and the  *)
(* Android media session it drives in standalone mode.                     *)
(*                                                                         *)
(* Dart runs one continuation after the other: an action of the Dart side  *)
(* is the code between two awaits.  Method calls and posted events go      *)
(* through the queue of the Android main thread, their replies and the     *)
(* events that are sent through the message queue of Dart.  Chime calls    *)
(* its observers at any time.                                              *)
(*                                                                         *)
(* Standalone mode is callKitEnabled = false; an answered incoming call    *)
(* always goes through Telecom and is not modelled here.  A call is named  *)
(* by the invocation of startCall, a session is the contact that its       *)
(* Idempotency-Key stands for in Connect.                                  *)
(***************************************************************************)
EXTENDS Naturals, Sequences

CONSTANTS
  Calls,       \* invocations of startCall
  Ends,        \* invocations of endCall
  MaxAttempts, \* of one startCall at the backend
  Faults,      \* what may go wrong in this instance
  NoSession    \* Dart's and Kotlin's null

FaultKinds == {
  "permissionThrows", \* the permission plugin throws instead of answering
  "requestError",     \* a request fails: refused, throttled, lost, timed out
  "joinError",        \* join throws, before or after the session is assigned
  "mediaError" }      \* Chime ends the session with an error

Sessions == Calls \X (1 .. MaxAttempts)

ASSUME ControllerAssumption ==
  /\ MaxAttempts \in Nat \ {0}
  /\ Faults \subseteq FaultKinds
  /\ NoSession \notin Sessions

CallState  == {"idle", "connecting", "ringing", "connected", "reconnecting",
               "disconnected", "failed"}
isActive   == {"connecting", "ringing", "connected", "reconnecting"}
isTerminal == {"disconnected", "failed"}

VARIABLES
  state,    \* CallState of the controller
  session,  \* _session
  op,       \* each startCall: control, attempt, key
  hang,     \* each endCall: control and the session it captured
  contact,  \* each contact in Connect
  deletes,  \* DELETE requests on their way
  looper,   \* Android main thread: method calls and posted events
  inbox,    \* messages to Dart: replies and events
  media,    \* ChimeCallManager.meetingSession
  running,  \* sessions whose media Chime runs: microphone on, observed
  coming,   \* those of them whose connection is being set up
  crossed   \* history: calls being started when the state became inactive

dart    == <<state, session, op, hang, crossed>>
connect == <<contact, deletes>>
native  == <<media, running, coming>>
vars == <<dart, connect, looper, inbox, native>>

SessionOrNone == Sessions \cup {NoSession}
Starting == {"permission", "request", "join"}

Messages ==
  [kind : {"join", "joinFailed"}, of : Calls] \cup [kind : {"leave"}, of : Ends]
    \cup [kind : {"state"}, of : CallState] \cup [kind : {"error"}, of : {"fatal"}]

TypeOK ==
  /\ state \in CallState /\ session \in SessionOrNone
  /\ op \in [Calls -> [pc : {"idle", "done", "threw", "threwEarly"} \cup Starting,
                       attempt : 1 .. MaxAttempts, key : 1 .. MaxAttempts]]
  /\ hang \in [Ends -> [pc : {"idle", "leaving", "done"}, session : SessionOrNone]]
  /\ contact \in [Sessions -> {"none", "live", "over"}]
  /\ deletes \subseteq Sessions
  /\ looper \in Seq(Messages) /\ inbox \in Seq(Messages)
  /\ media \in SessionOrNone /\ running \subseteq Sessions /\ coming \subseteq Sessions
  /\ crossed \subseteq Calls

Init ==
  /\ state = "idle" /\ session = NoSession
  /\ op = [c \in Calls |-> [pc |-> "idle", attempt |-> 1, key |-> 1]]
  /\ hang = [e \in Ends |-> [pc |-> "idle", session |-> NoSession]]
  /\ contact = [s \in Sessions |-> "none"]
  /\ deletes = {} /\ looper = <<>> /\ inbox = <<>>
  /\ media = NoSession /\ running = {} /\ coming = {} /\ crossed = {}

----
starting == {c \in Calls : op[c].pc \in Starting}

sessionOf(c) == <<c, op[c].key>>

\* The state becomes s; if s is not active, who is being started is crossed.
setState(s, but) ==
  /\ state' = s
  /\ crossed' = IF s \in isActive THEN crossed ELSE crossed \cup (starting \ but)

Reply(m) == inbox' = Append(inbox, m)
stateEvent(s) == [kind |-> "state", of |-> s]

\* StartWebRTCContact with a client token: one contact per token.
startWebRtcContact(s) ==
  [contact EXCEPT ![s] = IF @ = "none" THEN "live" ELSE @]

----
(***************************************************************************)
(* startCall                                                               *)
(***************************************************************************)

\* Wrong variant: the state only changes when the permission was granted.
startCallLate(c) ==
  /\ op[c].pc = "idle" /\ state \notin isActive
  /\ op' = [op EXCEPT ![c].pc = "permission"]
  /\ UNCHANGED <<state, crossed, session, hang, connect, looper, inbox, native>>

startCall(c) ==
  /\ op[c].pc = "idle" /\ state \notin isActive
  /\ setState("connecting", {})
  /\ op' = [op EXCEPT ![c].pc = "permission"]
  /\ UNCHANGED <<session, hang, connect, looper, inbox, native>>

PermissionGranted(c) ==
  /\ op[c].pc = "permission"
  /\ op' = [op EXCEPT ![c].pc = "request"]
  /\ UNCHANGED <<state, crossed, session, hang, connect, looper, inbox, native>>

PermissionDenied(c) ==
  /\ op[c].pc = "permission"
  /\ op' = [op EXCEPT ![c].pc = "threw"]
  /\ setState("failed", {c})
  /\ UNCHANGED <<session, hang, connect, looper, inbox, native>>

\* A permission request that throws is not caught: the state stays connecting.
PermissionThrows(c) ==
  /\ "permissionThrows" \in Faults
  /\ op[c].pc = "permission"
  /\ op' = [op EXCEPT ![c].pc = "threwEarly"]
  /\ UNCHANGED <<state, crossed, session, hang, connect, looper, inbox, native>>

\* The backend answers with a session, which is stored and joined.
Received(c) ==
  /\ op[c].pc = "request"
  /\ contact' = startWebRtcContact(sessionOf(c))
  /\ session' = sessionOf(c)
  /\ setState("ringing", {})
  /\ op' = [op EXCEPT ![c].pc = "join", ![c].attempt = 1]
  /\ looper' = Append(looper, [kind |-> "join", of |-> c])
  /\ UNCHANGED <<hang, deletes, inbox, native>>

\* Wrong variants: a key of its own for each attempt; one attempt too many.
retryWithNewKey(c) == [pc |-> "request", attempt |-> op[c].attempt + 1, key |-> op[c].attempt + 1]
oneMore(c) == op[c].attempt <= MaxAttempts

\* The next attempt, under the same Idempotency-Key.
retry(c) == [op[c] EXCEPT !.attempt = @ + 1]

attemptsLeft(c) == op[c].attempt < MaxAttempts

\* An attempt is throttled, answered by a 5xx, lost or timed out; the contact
\* may have been started all the same.
AttemptFails(c) ==
  /\ "requestError" \in Faults
  /\ op[c].pc = "request"
  /\ contact' \in {contact, startWebRtcContact(sessionOf(c))}
  /\ IF attemptsLeft(c)
     THEN op' = [op EXCEPT ![c] = retry(c)] /\ UNCHANGED <<state, crossed>>
     ELSE op' = [op EXCEPT ![c].pc = "threw", ![c].attempt = 1] /\ setState("failed", {c})
  /\ UNCHANGED <<session, hang, deletes, looper, inbox, native>>

\* Wrong variant: a refusal that no catch turns into a state.
refusedUncaught(c) ==
  /\ "requestError" \in Faults
  /\ op[c].pc = "request"
  /\ op' = [op EXCEPT ![c].pc = "threw", ![c].attempt = 1]
  /\ UNCHANGED <<state, crossed, session, hang, connect, looper, inbox, native>>

\* A 4xx is not repeated.
Refused(c) ==
  /\ "requestError" \in Faults
  /\ op[c].pc = "request"
  /\ op' = [op EXCEPT ![c].pc = "threw", ![c].attempt = 1]
  /\ setState("failed", {c})
  /\ UNCHANGED <<session, hang, connect, looper, inbox, native>>

JoinReturns ==
  /\ inbox # <<>> /\ Head(inbox).kind = "join"
  /\ op' = [op EXCEPT ![Head(inbox).of].pc = "done"]
  /\ inbox' = Tail(inbox)
  /\ UNCHANGED <<state, crossed, session, hang, connect, looper, native>>

\* The session is kept.
JoinThrows ==
  /\ inbox # <<>> /\ Head(inbox).kind = "joinFailed"
  /\ op' = [op EXCEPT ![Head(inbox).of].pc = "threw"]
  /\ setState("failed", {Head(inbox).of})
  /\ inbox' = Tail(inbox)
  /\ UNCHANGED <<session, hang, connect, looper, native>>

----
(***************************************************************************)
(* endCall and native events                                               *)
(***************************************************************************)
endCall(e) ==
  /\ hang[e].pc = "idle"
  /\ hang' = [hang EXCEPT ![e] = [pc |-> "leaving", session |-> session]]
  /\ looper' = Append(looper, [kind |-> "leave", of |-> e])
  /\ UNCHANGED <<state, crossed, session, op, connect, inbox, native>>

\* Wrong variant: the contact to stop is looked up after the media has stopped.
sessionNow(e) == session

\* The session to stop was captured before the await.
captured(e) == hang[e].session

\* The DELETE is not awaited.
LeaveReturns ==
  /\ inbox # <<>> /\ Head(inbox).kind = "leave"
  /\ LET e == Head(inbox).of
     IN  /\ deletes' = deletes \cup ({captured(e)} \ {NoSession})
         /\ hang' = [hang EXCEPT ![e] = [pc |-> "done", session |-> NoSession]]
  /\ session' = NoSession
  /\ setState("disconnected", {})
  /\ inbox' = Tail(inbox)
  /\ UNCHANGED <<op, contact, looper, native>>

\* Events say nothing about the call they belong to.
onNativeState ==
  /\ inbox # <<>> /\ Head(inbox).kind = "state"
  /\ setState(Head(inbox).of, {})
  /\ session' = IF Head(inbox).of \in isTerminal THEN NoSession ELSE session
  /\ inbox' = Tail(inbox)
  /\ UNCHANGED <<op, hang, connect, looper, native>>

onNativeError ==
  /\ inbox # <<>> /\ Head(inbox).kind = "error"
  /\ setState("failed", {})
  /\ session' = NoSession
  /\ inbox' = Tail(inbox)
  /\ UNCHANGED <<op, hang, connect, looper, native>>

----
(***************************************************************************)
(* The Android main thread and the media session                           *)
(***************************************************************************)

\* A posted event is sent to Dart.
emit ==
  /\ looper # <<>> /\ Head(looper).kind \in {"state", "error"}
  /\ looper' = Tail(looper)
  /\ Reply(Head(looper))
  /\ UNCHANGED <<dart, connect, native>>

\* The session that was there is forgotten, not stopped.
join ==
  /\ looper # <<>> /\ Head(looper).kind = "join"
  /\ media' = sessionOf(Head(looper).of)
  /\ running' = running \cup {media'} /\ coming' = coming \cup {media'}
  /\ looper' = Append(Tail(looper), stateEvent("connecting"))
  /\ Reply(Head(looper))
  /\ UNCHANGED <<dart, connect>>

joinFailed == [kind |-> "joinFailed", of |-> Head(looper).of]

\* The session is unusable, which is found out before anything changes.
joinThrows ==
  /\ "joinError" \in Faults
  /\ looper # <<>> /\ Head(looper).kind = "join"
  /\ looper' = Tail(looper) /\ Reply(joinFailed)
  /\ UNCHANGED <<dart, connect, native>>

\* Wrong variant: the media is started before the foreground service.
startMediaThrowsLate ==
  /\ "joinError" \in Faults
  /\ looper # <<>> /\ Head(looper).kind = "join"
  /\ media' = sessionOf(Head(looper).of)
  /\ running' = running \cup {media'} /\ coming' = coming \cup {media'}
  /\ looper' = Append(Tail(looper), stateEvent("connecting")) /\ Reply(joinFailed)
  /\ UNCHANGED <<dart, connect>>

\* The foreground service, or the audio, does not start: join throws when the session
\* is assigned and `connecting` is posted, and leaves both behind.
startMediaThrows ==
  /\ "joinError" \in Faults
  /\ looper # <<>> /\ Head(looper).kind = "join"
  /\ media' = sessionOf(Head(looper).of)
  /\ looper' = Append(Tail(looper), stateEvent("connecting")) /\ Reply(joinFailed)
  /\ UNCHANGED <<dart, connect, running, coming>>

\* Whatever session there is by now is torn down, once.
stopMedia(queue, stopped) ==
  /\ media' = NoSession
  /\ running' = running \ stopped /\ coming' = coming \ stopped
  /\ looper' = IF media = NoSession THEN queue ELSE Append(queue, stateEvent("disconnected"))

leave ==
  /\ looper # <<>> /\ Head(looper).kind = "leave"
  /\ stopMedia(Tail(looper), {media})
  /\ Reply(Head(looper))
  /\ UNCHANGED <<dart, connect>>

\* A connection that drops and recovers is not modelled: the controller
\* treats reconnecting as it treats connected.
onAudioSessionStarted(s) ==
  /\ s \in coming /\ coming' = coming \ {s}
  /\ looper' = Append(looper, stateEvent("connected"))
  /\ UNCHANGED <<dart, connect, inbox, media, running>>

\* The meeting of s is over, or fails.  The observer is the same object for
\* every session, so the end of an older one tears down the current one.
onAudioSessionStopped(s) ==
  /\ s \in running
  /\ \/ contact[s] = "over" /\ stopMedia(looper, {s, media})
     \/ /\ "mediaError" \in Faults
        /\ stopMedia(Append(looper, [kind |-> "error", of |-> "fatal"]), {s, media})
  /\ UNCHANGED <<dart, connect, inbox>>

----
(***************************************************************************)
(* The backend and Connect                                                 *)
(***************************************************************************)

\* DELETE /calls/{contactId}: StopContact.  It is sent once and may get lost:
\* nothing says that this action is ever taken.
deleteCall(s) ==
  /\ s \in deletes
  /\ deletes' = deletes \ {s}
  /\ contact' = [contact EXCEPT ![s] = "over"]
  /\ UNCHANGED <<dart, looper, inbox, native>>

\* The agent ends the contact.
AgentEnds(s) ==
  /\ contact[s] = "live"
  /\ contact' = [contact EXCEPT ![s] = "over"]
  /\ UNCHANGED <<dart, deletes, looper, inbox, native>>

----
RequestEnds(c) == Received(c) \/ AttemptFails(c) \/ Refused(c)
PermissionEnds(c) == PermissionGranted(c) \/ PermissionDenied(c) \/ PermissionThrows(c)
DartReceives == JoinReturns \/ JoinThrows \/ LeaveReturns \/ onNativeState \/ onNativeError
MainThread == emit \/ join \/ joinThrows \/ startMediaThrows \/ leave

Next ==
  \/ \E c \in Calls : startCall(c) \/ PermissionEnds(c) \/ RequestEnds(c)
  \/ \E e \in Ends : endCall(e)
  \/ DartReceives \/ MainThread
  \/ \E s \in Sessions : onAudioSessionStarted(s) \/ onAudioSessionStopped(s)
  \/ \E s \in Sessions : deleteCall(s) \/ AgentEnds(s)

Spec == Init /\ [][Next]_vars

(***************************************************************************)
(* Threads run what is queued, requests and permission dialogs end, and a  *)
(* connection that is being set up comes up unless the session ends.       *)
(***************************************************************************)
Fairness ==
  /\ WF_vars(\E c \in Calls : PermissionEnds(c) \/ RequestEnds(c))
  /\ WF_vars(DartReceives) /\ WF_vars(MainThread)
  /\ WF_vars(\E s \in Sessions : onAudioSessionStarted(s))

FairSpec == Spec /\ Fairness

----
(***************************************************************************)
(* Properties                                                              *)
(***************************************************************************)

\* No call is started while another is being started, unless the state was
\* made inactive during one of the starts (by a hang-up, a terminal event or
\* an older call that failed): the check of the state and its change are one
\* step, before the first await.
OneStart ==
  \A c, d \in starting : c = d \/ c \in crossed \/ d \in crossed

\* However often an attempt is repeated, and whether or not the ones that seemed
\* to fail were carried out, one call makes one contact.
OneContact ==
  \A s, t \in Sessions :
    s[1] = t[1] /\ contact[s] # "none" /\ contact[t] # "none" => s = t

\* The microphone is never on behind a controller that shows no call, not even for the
\* time that a message is on its way, unless the state was made inactive while some call
\* was being started.
NoHiddenMedia == running # {} /\ state \notin isActive => crossed # {}

\* No media session is left running behind the one of a newer call, where
\* nothing but its own end can stop it, unless the state was made inactive
\* while some call was being started.
NoLostMedia == running \ {media} # {} => crossed # {}

\* Who hangs up asks the backend to release the agent: the contact of the
\* session that the controller had when endCall was called is stopped, even if
\* the media, or the session, is gone before the platform has left.
HangUpStopsContact ==
  \A e \in Ends, s \in Sessions :
    (hang[e] = [pc |-> "leaving", session |-> s]) ~> (s \in deletes)

\* The platform holds a session whose media never started.
stillborn == media # NoSession /\ media \notin running

\* Every start comes up or fails: the controller does not stay in connecting, whatever its
\* requests and its media do, but in two cases: the permission request threw, or the
\* media did not start, and the `connecting` that join had posted came after its failure.
ConnectingEnds ==
  (state = "connecting") ~>
    (state # "connecting" \/ stillborn \/ \E c \in Calls : op[c].pc = "threwEarly")

\* What the controller's own documentation says and the code does not do: a
\* call rings after it was connecting, not after it was ended.
RingingFollowsConnecting ==
  [][state' = "ringing" /\ state # "ringing" => state = "connecting"]_vars
====

---- MODULE RnApp ----
(***************************************************************************)
(* The React Native port: the call screen (ConnectCallScreen) in its app   *)
(* (ConnectCallApp), the controller that the app makes, the backend client *)
(* and the native call below them.                                         *)
(*                                                                         *)
(* JavaScript runs one continuation after the other: an action of that     *)
(* side is the code between two awaits.  Native calls wait in the queue of *)
(* the native modules; their replies reach JavaScript in their order, and  *)
(* so do the events, but events go through the main looper first: a reply  *)
(* may overtake an event.                                                  *)
(*                                                                         *)
(* The app makes a controller when it is mounted and again when a prop of  *)
(* the host changes, and disposes of the one before; the native call,      *)
(* which belongs to no controller, lives on.  The app always has the       *)
(* system show the call (callKitEnabled), so leaving asks Telecom, which   *)
(* tears down later, and the system may end a call at any time.            *)
(*                                                                         *)
(* A call is named by the invocation of startCall or answerIncomingCall,   *)
(* and so is its session and its contact: every attempt of a start carries *)
(* the same Idempotency-Key.                                               *)
(***************************************************************************)
EXTENDS Naturals, Sequences, FiniteSets

CONSTANTS
  Sessions,       \* calls, each with its session and its contact
  NoSession,      \* null
  Ends,           \* invocations of endCall
  Tones,          \* invocations of sendDtmf
  MaxControllers, \* controllers made in one life of the app
  MaxMoves,       \* controllers, hang-ups, digits, failures, ends of calls by
                  \* others, all together
  MaxAttempts,    \* of one startCall at the backend
  EnabledTypes,   \* call types the host enables
  Faults          \* what may go wrong in this instance

FaultKinds == {"permissionThrows", "requestError", "joinError", "toneError"}
CallTypes == {"audio", "video"}

CallState  == {"idle", "connecting", "ringing", "connected", "reconnecting",
               "disconnected", "failed"}
isActive   == {"connecting", "ringing", "connected", "reconnecting"}
isTerminal == {"disconnected", "failed"}

ASSUME RnAssumption ==
  /\ NoSession \notin Sessions
  /\ MaxControllers \in Nat \ {0} /\ MaxAttempts \in Nat \ {0} /\ MaxMoves \in Nat
  /\ EnabledTypes \subseteq CallTypes /\ EnabledTypes # {}
  /\ Faults \subseteq FaultKinds

Calls == Sessions
Controllers == 1 .. MaxControllers

VARIABLES
  ctl,      \* each controller: state, session, token
  cur,      \* the controller made last, which is that of the screen
  screen,   \* the call screen: mounted, state, video button, first controller
  op,       \* each call: control, controller, kind, attempt
  hang,     \* each endCall: control, controller, captured session
  tone,     \* each sendDtmf: control, controller, captured session, token used
  calls,    \* native calls that wait for the thread of the native modules
  inbox,    \* replies that wait for JavaScript
  posted,   \* events on their way to JavaScript
  media,    \* meetingSession of the native call manager
  coming,   \* whether it is still connecting
  camera,   \* the call whose screen made it send local video, if it does
  ending,   \* whether Telecom was asked to end the call
  running,  \* sessions whose end the native call manager will hear of
  contact,  \* each contact in Connect
  heard,    \* history: <<call, contact>>, digits of a call that another contact took
  spoiled,  \* history: calls that failed, or that another call made inactive
  adrift,   \* history: calls whose controller was disposed of under them
  spent,    \* a bound: moves so far
  late      \* history: sessions whose participant token came after their call

js == <<ctl, cur, screen, op, hang, tone, spoiled, adrift, late>>
connect == <<contact, heard>>
native == <<media, coming, camera, ending, running>>
vars == <<js, connect, calls, inbox, posted, native, spent>>

SessionOrNone == Sessions \cup {NoSession}

Starting == {"request", "join"}
NativeCalls ==
  [kind : {"join", "video"}, of : Calls] \cup [kind : {"leave"}, of : Ends]
Replies == NativeCalls \cup [kind : {"joinFailed"}, of : Calls]
Events == [kind : {"state", "error"},
           of : {"connecting", "connected", "disconnected", "failed"}, about : Sessions]

TypeOK ==
  /\ spent \in 0 .. MaxMoves
  /\ ctl \in [Controllers -> [state : CallState, session : SessionOrNone, token : SessionOrNone]]
  /\ cur \in 0 .. MaxControllers
  /\ screen \in [mounted : BOOLEAN, state : CallState, video : BOOLEAN, since : 0 .. MaxControllers]
  /\ op \in [Calls -> [pc : {"idle", "video", "done", "threw", "threwEarly"} \cup Starting,
                       by : Controllers, kind : CallTypes \cup {"incoming"},
                       attempt : 1 .. MaxAttempts]]
  /\ hang \in [Ends -> [pc : {"idle", "leaving", "done"}, by : Controllers,
                        session : SessionOrNone]]
  /\ tone \in [Tones -> [pc : {"idle", "connect", "send", "reconnect", "resend", "done", "threw"},
                         by : Controllers, session : SessionOrNone, token : SessionOrNone]]
  /\ calls \in Seq(NativeCalls) /\ inbox \in Seq(Replies) /\ posted \in Seq(Events)
  /\ media \in SessionOrNone /\ coming \in BOOLEAN /\ camera \in SessionOrNone /\ ending \in BOOLEAN
  /\ running \subseteq Sessions
  /\ contact \in [Sessions -> {"none", "live", "over"}]
  /\ heard \subseteq Sessions \X Sessions
  /\ spoiled \subseteq Calls /\ adrift \subseteq Calls /\ late \subseteq Sessions

Init ==
  /\ ctl = [i \in Controllers |-> [state |-> "idle", session |-> NoSession, token |-> NoSession]]
  /\ cur = 0
  /\ screen = [mounted |-> FALSE, state |-> "idle", video |-> FALSE, since |-> 0]
  /\ op = [c \in Calls |-> [pc |-> "idle", by |-> 1, kind |-> "audio",
                            attempt |-> 1]]
  /\ hang = [e \in Ends |-> [pc |-> "idle", by |-> 1, session |-> NoSession]]
  /\ tone = [t \in Tones |-> [pc |-> "idle", by |-> 1, session |-> NoSession,
                              token |-> NoSession]]
  /\ calls = <<>> /\ inbox = <<>> /\ posted = <<>>
  /\ media = NoSession /\ coming = FALSE /\ camera = NoSession /\ ending = FALSE /\ running = {}
  /\ contact = [s \in Sessions |-> "none"] /\ heard = {}
  /\ spoiled = {} /\ adrift = {} /\ late = {} /\ spent = 0

----
starting == {c \in Calls : op[c].pc \in Starting}

\* A bound: what the host, the user, the system and the agent do, and what fails.
counted == spent < MaxMoves /\ spent' = spent + 1
free == UNCHANGED spent
goesWrong(kind) == kind \in Faults

isInCall(i) == ctl[i].state \in isActive

\* Wrong variant: every change of the state resets the video button.
shownWithReset(i, s) ==
  IF screen.mounted /\ i = cur /\ ctl[i].state # s
  THEN [screen EXCEPT !.state = s, !.video = FALSE] ELSE screen

\* What the screen shows when its controller's state becomes s: it hears of a
\* change only, and a change to a terminal state resets the video button.
shown(i, s) ==
  IF screen.mounted /\ i = cur /\ ctl[i].state # s
  THEN [screen EXCEPT !.state = s,
                      !.video = @ /\ ~(s \in isTerminal /\ screen.state # s)]
  ELSE screen

\* The calls that controller i has, holds a token of, or is starting.
inHand(i) == ({ctl[i].session, ctl[i].token} \ {NoSession}) \cup {c \in starting : op[c].by = i}

\* Controller i's state becomes s, because of the call `by`.
setState(i, s, by) ==
  /\ screen' = shown(i, s)
  /\ spoiled' = IF s \in isActive THEN spoiled
                ELSE spoiled \cup ((inHand(i) \cup {media}) \ {NoSession, by})

native_unchanged == UNCHANGED <<calls, inbox, posted, native>>

----
(***************************************************************************)
(* The host presents, reconfigures and dismisses the call screen           *)
(***************************************************************************)

\* parseEnabledCallTypes and soleCallType: a single enabled type is dialled at once.
soleType == IF EnabledTypes = {"audio"} THEN {"audio"}
            ELSE IF EnabledTypes = {"video"} THEN {"video"} ELSE {}

newCall(c, i, kind) ==
  [op EXCEPT ![c] = [pc |-> "request", by |-> i, kind |-> kind, attempt |-> 1]]
returned(pc) == [pc |-> pc, by |-> 1, kind |-> "audio", attempt |-> 1]

\* Mounting makes a controller, idle whatever call there is, and a screen that
\* reads its state; a sole call type is dialled (a bound: as long as a call is left).
Present ==
  /\ counted /\ ~screen.mounted /\ cur < MaxControllers
  /\ cur' = cur + 1
  /\ IF soleType = {}
     THEN /\ screen' = [mounted |-> TRUE, state |-> "idle", video |-> FALSE, since |-> cur + 1]
          /\ UNCHANGED <<op, ctl>>
     ELSE \E c \in Calls, type \in soleType :
            /\ op[c].pc = "idle" /\ op' = newCall(c, cur + 1, type)
            /\ ctl' = [ctl EXCEPT ![cur + 1].state = "connecting"]
            /\ screen' = [mounted |-> TRUE, state |-> "connecting", video |-> FALSE,
                          since |-> cur + 1]
  /\ UNCHANGED <<hang, tone, spoiled, adrift, late, connect>> /\ native_unchanged

\* dispose: no more events (onNativeEvent is cur's alone); the call is not ended.
dispose(i) == adrift' = adrift \cup inHand(i)

\* A prop that the controller depends on changes: it is replaced, the screen stays.
Reconfigure ==
  /\ counted /\ screen.mounted /\ cur < MaxControllers
  /\ dispose(cur) /\ cur' = cur + 1
  /\ UNCHANGED <<ctl, screen, op, hang, tone, spoiled, late, connect>> /\ native_unchanged

Dismiss ==
  /\ free /\ screen.mounted /\ dispose(cur)
  /\ screen' = [mounted |-> FALSE, state |-> "idle", video |-> FALSE, since |-> 0]
  /\ UNCHANGED <<ctl, cur, op, hang, tone, spoiled, late, connect>> /\ native_unchanged

----
(***************************************************************************)
(* startCall and answerIncomingCall                                        *)
(***************************************************************************)

\* The call buttons are there while the screen shows no call.
startCall(c, type) ==
  /\ free /\ screen.mounted /\ screen.state \notin isActive /\ type \in EnabledTypes
  /\ op[c].pc = "idle" /\ ~isInCall(cur)
  /\ op' = newCall(c, cur, type)
  /\ ctl' = [ctl EXCEPT ![cur].state = "connecting"] /\ setState(cur, "connecting", c)
  /\ UNCHANGED <<cur, hang, tone, adrift, late, connect>> /\ native_unchanged

\* The host's handler of an answered ring, or of a parked answer.
answerIncomingCall(c) ==
  /\ free /\ screen.mounted /\ op[c].pc = "idle" /\ ~isInCall(cur)
  /\ op' = newCall(c, cur, "incoming")
  /\ ctl' = [ctl EXCEPT ![cur].state = "connecting"] /\ setState(cur, "connecting", c)
  /\ UNCHANGED <<cur, hang, tone, adrift, late, connect>> /\ native_unchanged

\* Nobody can tell the permission dialog from the request that follows it: one
\* control state stands for both.
fail(c, pc) ==
  /\ op' = [op EXCEPT ![c] = returned(pc)]
  /\ ctl' = [ctl EXCEPT ![op[c].by].state = "failed"] /\ setState(op[c].by, "failed", NoSession)

\* Microphone, and camera for video; other refusals do not matter.
PermissionDenied(c) ==
  /\ counted /\ op[c].pc = "request" /\ op[c].attempt = 1 /\ fail(c, "threw")
  /\ UNCHANGED <<cur, hang, tone, adrift, late, connect>> /\ native_unchanged

\* A permission request that throws is not caught: the state stays connecting.
PermissionThrows(c) ==
  /\ counted /\ goesWrong("permissionThrows")
  /\ op[c].pc = "request" /\ op[c].attempt = 1
  /\ op' = [op EXCEPT ![c] = returned("threwEarly")]
  /\ UNCHANGED <<ctl, cur, screen, hang, tone, spoiled, adrift, late, connect>>
  /\ native_unchanged

\* StartWebRTCContact: one contact per Idempotency-Key.
startWebRtcContact(c) == [contact EXCEPT ![c] = IF @ = "none" THEN "live" ELSE @]

\* The session is stored and joined; an answered call was ringing already.
Received(c) ==
  /\ free /\ op[c].pc = "request" /\ contact' = startWebRtcContact(c)
  /\ LET i == op[c].by
     IN  IF op[c].kind = "incoming"
         THEN ctl' = [ctl EXCEPT ![i].session = c] /\ UNCHANGED <<screen, spoiled>>
         ELSE /\ ctl' = [ctl EXCEPT ![i].session = c, ![i].state = "ringing"]
              /\ setState(i, "ringing", c)
  /\ op' = [op EXCEPT ![c].pc = "join", ![c].attempt = 1]
  /\ calls' = Append(calls, [kind |-> "join", of |-> c])
  /\ UNCHANGED <<cur, hang, tone, adrift, late, heard, inbox, posted, native>>

\* Wrong variant: one attempt too many.
oneMore(c) == op[c].kind # "incoming" /\ op[c].attempt <= MaxAttempts

\* Only a start is repeated.
attemptsLeft(c) == op[c].kind # "incoming" /\ op[c].attempt < MaxAttempts

\* An attempt is throttled, answered by a 5xx, lost or timed out, whether or
\* not the contact was started.
AttemptFails(c) ==
  /\ counted /\ goesWrong("requestError") /\ op[c].pc = "request"
  /\ contact' \in {contact, startWebRtcContact(c)}
  /\ IF attemptsLeft(c)
     THEN op' = [op EXCEPT ![c].attempt = @ + 1] /\ UNCHANGED <<ctl, screen, spoiled>>
     ELSE fail(c, "threw")
  /\ UNCHANGED <<cur, hang, tone, adrift, late, heard>> /\ native_unchanged

\* A 4xx, and a 2xx whose body cannot be read, are not repeated.
Refused(c) ==
  /\ counted /\ goesWrong("requestError") /\ op[c].pc = "request"
  /\ contact' \in {contact, startWebRtcContact(c)}
  /\ fail(c, "threw")
  /\ UNCHANGED <<cur, hang, tone, adrift, late, heard>> /\ native_unchanged

\* The screen goes on to switch the camera on for a video call it started.
JoinReturns ==
  /\ free /\ inbox # <<>> /\ Head(inbox).kind = "join"
  /\ LET c == Head(inbox).of
         films == op[c].kind = "video"
     IN  /\ op' = [op EXCEPT ![c] = IF films THEN [@ EXCEPT !.pc = "video"] ELSE returned("done")]
         /\ calls' = IF films THEN Append(calls, [kind |-> "video", of |-> c]) ELSE calls
  /\ inbox' = Tail(inbox)
  /\ UNCHANGED <<ctl, cur, screen, hang, tone, spoiled, adrift, late, connect, posted, native>>

\* The session is kept.
JoinThrows ==
  /\ free /\ inbox # <<>> /\ Head(inbox).kind = "joinFailed"
  /\ fail(Head(inbox).of, "threw")
  /\ inbox' = Tail(inbox)
  /\ UNCHANGED <<cur, hang, tone, adrift, late, connect, calls, posted, native>>

\* The video button of the screen that started the call, if it is still there.
VideoReturns ==
  /\ free /\ inbox # <<>> /\ Head(inbox).kind = "video"
  /\ LET c == Head(inbox).of
     IN  /\ op' = [op EXCEPT ![c] = returned("done")]
         /\ screen' = [screen EXCEPT !.video = @ \/ (screen.mounted /\ op[c].by >= screen.since)]
  /\ inbox' = Tail(inbox)
  /\ UNCHANGED <<ctl, cur, hang, tone, spoiled, adrift, late, connect, calls, posted, native>>

----
(***************************************************************************)
(* endCall and native events                                               *)
(***************************************************************************)

\* Wrong variant: the participant token of the call stays.
overKeepingToken(i, s) == [ctl EXCEPT ![i].state = s, ![i].session = NoSession]

\* A call is over for controller i: state, session and participant token.
over(i, s) ==
  [ctl EXCEPT ![i].state = s, ![i].session = NoSession, ![i].token = NoSession]

\* The hang-up button is there while the screen shows a call.
endCall(e) ==
  /\ counted /\ screen.mounted /\ screen.state \in isActive /\ hang[e].pc = "idle"
  /\ hang' = [hang EXCEPT ![e] = [pc |-> "leaving", by |-> cur, session |-> ctl[cur].session]]
  /\ calls' = Append(calls, [kind |-> "leave", of |-> e])
  /\ UNCHANGED <<ctl, cur, screen, op, tone, spoiled, adrift, late, connect, inbox, posted, native>>

\* The DELETE of the session, if there was one, is sent and not awaited: it may
\* arrive whenever the contact is live (ContactEnds), or never.
LeaveReturns ==
  /\ free /\ inbox # <<>> /\ Head(inbox).kind = "leave"
  /\ LET e == Head(inbox).of
         i == hang[e].by
     IN  /\ hang' = [hang EXCEPT ![e] = [pc |-> "done", by |-> 1, session |-> NoSession]]
         /\ ctl' = over(i, "disconnected") /\ setState(i, "disconnected", hang[e].session)
  /\ inbox' = Tail(inbox)
  /\ UNCHANGED <<cur, op, tone, adrift, late, contact, heard, calls, posted, native>>

\* An event does not tell the call that it is about; without a screen there is
\* no controller to hear them.
onNativeEvent ==
  /\ free /\ posted # <<>> /\ posted' = Tail(posted)
  /\ LET s == Head(posted).of
     IN  IF ~screen.mounted
         THEN UNCHANGED <<ctl, screen, spoiled>>
         ELSE /\ ctl' = IF s \in isTerminal THEN over(cur, s) ELSE [ctl EXCEPT ![cur].state = s]
              /\ setState(cur, s, Head(posted).about)
  /\ UNCHANGED <<cur, op, hang, tone, adrift, late, connect, calls, inbox, native>>

----
(***************************************************************************)
(* sendDtmf                                                                *)
(***************************************************************************)

toneOver(t, pc) ==
  tone' = [tone EXCEPT ![t] = [pc |-> pc, by |-> 1, session |-> NoSession, token |-> NoSession]]

\* A key of the keypad: the participant connection is made on first use.
sendDtmf(t) ==
  /\ counted /\ screen.mounted /\ screen.state \in isActive /\ tone[t].pc = "idle"
  /\ ctl[cur].session # NoSession
  /\ tone' = [tone EXCEPT ![t] =
       [pc |-> IF ctl[cur].token = NoSession THEN "connect" ELSE "send", by |-> cur,
        session |-> ctl[cur].session, token |-> ctl[cur].token]]
  /\ UNCHANGED <<ctl, cur, screen, op, hang, spoiled, adrift, late, connect>>
  /\ native_unchanged

\* createParticipantConnection answers: the token is stored, whatever call the
\* controller has by now, and used.
Connected(t) ==
  /\ free /\ tone[t].pc \in {"connect", "reconnect"} /\ contact[tone[t].session] = "live"
  /\ LET s == tone[t].session
         i == tone[t].by
     IN  /\ ctl' = [ctl EXCEPT ![i].token = s]
         /\ late' = IF ctl[i].session = s THEN late ELSE late \cup {s}
         /\ tone' = [tone EXCEPT ![t].token = s,
                     ![t].pc = IF @ = "connect" THEN "send" ELSE "resend"]
  /\ UNCHANGED <<cur, screen, op, hang, spoiled, adrift, connect>> /\ native_unchanged

failing(s) == contact[s] # "live" \/ goesWrong("toneError")

ConnectFails(t) ==
  /\ free /\ tone[t].pc \in {"connect", "reconnect"} /\ failing(tone[t].session)
  /\ toneOver(t, "threw")
  /\ UNCHANGED <<ctl, cur, screen, op, hang, spoiled, adrift, late, connect>>
  /\ native_unchanged

\* The digits of one call are taken by the contact of another.
hearDigits(t) ==
  heard \cup (IF tone[t].session = tone[t].token THEN {} ELSE {<<tone[t].session, tone[t].token>>})

DigitsTaken(t) ==
  /\ free /\ tone[t].pc \in {"send", "resend"} /\ contact[tone[t].token] = "live"
  /\ heard' = hearDigits(t) /\ toneOver(t, "done")
  /\ UNCHANGED <<ctl, cur, screen, op, hang, spoiled, adrift, late, contact>>
  /\ native_unchanged

\* An error of the backend, which may have sent the digits, makes sendDtmf try
\* again once with a new connection; an error of the network does not.
DigitsFail(t) ==
  /\ free /\ tone[t].pc \in {"send", "resend"} /\ failing(tone[t].token)
  /\ heard' \in {heard} \cup (IF contact[tone[t].token] = "live" THEN {hearDigits(t)} ELSE {})
  /\ \/ toneOver(t, "threw")
     \/ tone[t].pc = "send" /\ tone' = [tone EXCEPT ![t].pc = "reconnect"]
  /\ UNCHANGED <<ctl, cur, screen, op, hang, spoiled, adrift, late, contact>>
  /\ native_unchanged

----
(***************************************************************************)
(* The native call: ChimeCallManager under Telecom                         *)
(***************************************************************************)
stateEvent(s, c) == [kind |-> "state", of |-> s, about |-> c]

Execute(m, reply) ==
  /\ calls # <<>> /\ Head(calls) = m
  /\ calls' = Tail(calls) /\ inbox' = Append(inbox, reply)
  /\ UNCHANGED <<js, connect>>

\* The session that was there is forgotten, not stopped: the manager still observes it.
join(c) ==
  /\ free /\ LET m == [kind |-> "join", of |-> c] IN Execute(m, m)
  /\ media' = c /\ coming' = TRUE /\ camera' = NoSession
  /\ running' = running \cup {c}
  /\ posted' = Append(posted, stateEvent("connecting", c))
  /\ UNCHANGED ending

\* The session cannot be used, which is found out before anything changes.
joinThrows(c) ==
  /\ counted /\ goesWrong("joinError")
  /\ Execute([kind |-> "join", of |-> c], [kind |-> "joinFailed", of |-> c])
  /\ UNCHANGED <<posted, native>>

\* Wrong variant: a hang-up before the media has started is ignored.
leaveOnceStarted(e) ==
  /\ free /\ LET m == [kind |-> "leave", of |-> e] IN Execute(m, m)
  /\ ending' = (ending \/ (media # NoSession /\ ~coming))
  /\ UNCHANGED <<posted, media, coming, camera, running>>

\* Telecom is asked to end the call, if there is one; whether it ever calls back
\* for a call that it has not accepted yet is left open.
leave(e) ==
  /\ free /\ LET m == [kind |-> "leave", of |-> e] IN Execute(m, m)
  /\ ending' = (ending \/ media # NoSession)
  /\ UNCHANGED <<posted, media, coming, camera, running>>

\* It names no call: whatever session there is by now sends video.
setLocalVideoEnabled(c) ==
  /\ free /\ LET m == [kind |-> "video", of |-> c] IN Execute(m, m)
  /\ camera' = IF media = NoSession THEN camera ELSE c
  /\ UNCHANGED <<posted, media, coming, ending, running>>

\* Whatever session there is by now is torn down, once.
stopMedia ==
  /\ media' = NoSession /\ coming' = FALSE /\ camera' = NoSession
  /\ posted' = IF media = NoSession THEN posted
               ELSE Append(posted, stateEvent("disconnected", media))
  /\ running' = running \ {media}
  /\ UNCHANGED <<js, connect, calls, inbox>>

\* Telecom has ended the call as it was asked to.
onDisconnect == ending /\ ending' = FALSE /\ stopMedia /\ free

\* Telecom refuses the call, or somebody hangs up in the system's call screen.
SystemEnds == media # NoSession /\ stopMedia /\ UNCHANGED ending /\ counted

onAudioSessionStarted ==
  /\ free /\ coming /\ coming' = FALSE /\ posted' = Append(posted, stateEvent("connected", media))
  /\ UNCHANGED <<js, connect, calls, inbox, media, camera, ending, running>>

\* The meeting of s is over (ContactEnds, which stands for a lost meeting too),
\* with an error unless its status is OK.  The observer is the same object for every
\* session: whatever call there is by now is ended.
onAudioSessionStopped(s) ==
  /\ free /\ s \in running /\ running' = running \ {s} /\ contact[s] = "over"
  /\ ending' = (ending \/ media # NoSession)
  /\ \/ UNCHANGED posted
     \/ posted' = Append(posted, [kind |-> "error", of |-> "failed", about |-> s])
  /\ UNCHANGED <<js, connect, calls, inbox, media, coming, camera>>

----
(***************************************************************************)
(* The backend and Connect                                                 *)
(***************************************************************************)

\* The agent ends the contact, or a DELETE /calls/{contactId} arrives.
ContactEnds(s) ==
  /\ counted /\ contact[s] = "live" /\ contact' = [contact EXCEPT ![s] = "over"]
  /\ UNCHANGED <<js, heard, calls, inbox, posted, native>>

----
Host == Present \/ Reconfigure \/ Dismiss
CallStep(c) ==
  \/ PermissionDenied(c) \/ PermissionThrows(c)
  \/ Received(c) \/ AttemptFails(c) \/ Refused(c)
ToneStep(t) == Connected(t) \/ ConnectFails(t) \/ DigitsTaken(t) \/ DigitsFail(t)
Receive == JoinReturns \/ JoinThrows \/ VideoReturns \/ LeaveReturns \/ onNativeEvent
NativeModules ==
  \/ \E c \in Calls : join(c) \/ joinThrows(c) \/ setLocalVideoEnabled(c)
  \/ \E e \in Ends : leave(e)

Next ==
  \/ Host \/ Receive \/ NativeModules \/ onDisconnect \/ SystemEnds \/ onAudioSessionStarted
  \/ \E c \in Calls, type \in CallTypes : startCall(c, type)
  \/ \E c \in Calls : answerIncomingCall(c) \/ CallStep(c)
  \/ \E e \in Ends : endCall(e)
  \/ \E t \in Tones : sendDtmf(t) \/ ToneStep(t)
  \/ \E s \in Sessions : onAudioSessionStopped(s) \/ ContactEnds(s)

Spec == Init /\ [][Next]_vars

----
(***************************************************************************)
(* Properties                                                              *)
(***************************************************************************)

\* Nothing is on its way between JavaScript and the native call.
Quiet ==
  /\ calls = <<>> /\ inbox = <<>> /\ posted = <<>> /\ starting = {} /\ ~ending
  /\ \A e \in Ends : hang[e].pc # "leaving"

\* The contact of one call takes the digits typed for another only when its token
\* came after its call was over, or one of the two calls failed or was made
\* inactive by another call (over, sendDtmf).
DigitsReachTheirCall ==
  \A p \in heard : p[2] \in late \/ {p[1], p[2]} \cap spoiled # {}

onScreen == screen.mounted /\ screen.state \in isActive

\* Once nothing is on its way, media runs below a screen that shows no call only
\* if the controller of the call was disposed of, or became inactive because of
\* another call (fail, endCall, onNativeEvent).
NoHiddenMedia ==
  Quiet /\ media # NoSession /\ ~onScreen => media \in adrift \cup spoiled

\* Likewise, the camera sends only while the video button of the screen is on, but
\* for such a call, and a call whose camera was switched on for such a call (start).
CameraShown ==
  Quiet /\ camera # NoSession /\ ~screen.video => {media, camera} \cap (adrift \cup spoiled) # {}
====

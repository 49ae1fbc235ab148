---- MODULE AndroidRing ----
(***************************************************************************)
(* The incoming-call ring on an Android device: the singleton              *)
(* ConnectIncomingCallCenter, its notification, its ring timeout on the    *)
(* main looper, the plugin that forwards its events to Dart, and the app   *)
(* code that reacts to them through the controller.                        *)
(*                                                                         *)
(* The methods of the center hold its lock, so each of them is one action. *)
(* Pushes are reported on a thread of FCM; everything else runs on the     *)
(* main thread, one piece of work after the other.  The ring timeout needs *)
(* two actions: once the looper has taken it from its queue it can no      *)
(* longer be removed, although it may still wait for the lock.             *)
(***************************************************************************)
EXTENDS Sequences

CONSTANTS
  Calls,    \* incoming calls, one push and one callId each
  NoCall    \* Kotlin's null

ASSUME NoCallAssumption == NoCall \notin Calls

Outcomes == {"incomingCallAnswered", "incomingCallDeclined", "incomingCallMissed"}
Events   == [type : Outcomes, call : Calls]

VARIABLES
  current,   \* the ringing call
  answered,
  timeout,   \* the Runnable (named by its call) that cancelTimeout removes
  pending,   \* the call whose answer is parked until Dart asks for it
  looper,    \* ring timeouts waiting in the queue of the main looper
  main,      \* the ring timeout that the main thread is executing
  shown,     \* the call that the notification shows
  taps,      \* notification actions on their way to the receiver
  engine,    \* of the plugin: no engine, attached, Dart subscribed
  emits,     \* events posted to the main looper for the event sink
  drained,   \* this engine's Dart code has asked for a parked answer
  heard,     \* events and parked answers that reached Dart
  declining, \* calls that Dart has declined
  \* history, read by the properties only
  reported,  \* calls that were reported
  outcomes,  \* events that were dispatched
  rungOut,   \* calls whose own ring time has passed
  raced      \* calls reported while an old ring timeout could still run

center  == <<current, answered, timeout, pending>>
dart    == <<drained, heard, declining>>
history == <<reported, outcomes, rungOut, raced>>
vars == <<center, looper, main, shown, taps, engine, emits, dart, history>>

CallOrNone == Calls \cup {NoCall}

TypeOK ==
  /\ current \in CallOrNone /\ timeout \in CallOrNone /\ pending \in CallOrNone
  /\ main \in CallOrNone /\ shown \in CallOrNone
  /\ answered \in BOOLEAN /\ drained \in BOOLEAN
  /\ looper \subseteq Calls
  /\ taps \subseteq {"answer", "decline"}
  /\ engine \in {"off", "attached", "listening"}
  /\ emits \in Seq(Events)
  /\ heard \subseteq Events /\ outcomes \subseteq Events
  /\ declining \subseteq Calls /\ reported \subseteq Calls
  /\ rungOut \subseteq Calls /\ raced \subseteq Calls

Init ==
  /\ current = NoCall /\ answered = FALSE /\ timeout = NoCall /\ pending = NoCall
  /\ looper = {} /\ main = NoCall /\ shown = NoCall /\ taps = {}
  /\ engine = "off" /\ emits = <<>> /\ drained = FALSE
  /\ heard = {} /\ declining = {}
  /\ reported = {} /\ outcomes = {} /\ rungOut = {} /\ raced = {}

----
\* Wrong variants stand before what they vary, here an event by a name that
\* Dart does not know.
unknownEvent(t, c) == [type |-> "missed", call |-> c]

event(t, c) == [type |-> t, call |-> c]

\* The plugin's listener posts the event for the event sink; with no engine
\* attached an answer is parked and anything else dropped.
dispatch(e) ==
  /\ outcomes' = outcomes \cup {e}
  /\ IF engine # "off"
     THEN emits' = Append(emits, e) /\ UNCHANGED pending
     ELSE /\ pending' = IF e.type = "incomingCallAnswered" THEN e.call ELSE pending
          /\ UNCHANGED emits

\* removeCallbacks of the Runnable that the field still knows.
cancelTimeout == looper' = looper \ {timeout} /\ timeout' = NoCall

\* Wrong variants: the call or its notification survives.
stopShowing == shown' = NoCall /\ UNCHANGED current
keepShowing == current' = NoCall /\ UNCHANGED shown

\* What dismiss, answer, decline and timeout share.
stopRinging == shown' = NoCall /\ current' = NoCall

ringing == current # NoCall /\ ~answered

----
\* Wrong variants: the timeout of the call that is replaced is not cancelled,
\* or it is cancelled after the new one has taken its place.
reportWithoutCancel(c) ==
  /\ c \notin reported
  /\ reported' = reported \cup {c}
  /\ current' = c /\ answered' = FALSE /\ shown' = c
  /\ looper' = looper \cup {c} /\ timeout' = c
  /\ UNCHANGED <<pending, main, taps, engine, emits, dart, outcomes, rungOut, raced>>

reportCancelLast(c) ==
  /\ c \notin reported
  /\ reported' = reported \cup {c}
  /\ current' = c /\ answered' = FALSE /\ shown' = c
  /\ UNCHANGED looper /\ timeout' = NoCall
  /\ UNCHANGED <<pending, main, taps, engine, emits, dart, outcomes, rungOut, raced>>

\* A push arrives; it replaces a call that is still ringing.
reportIncomingCall(c) ==
  /\ c \notin reported
  /\ reported' = reported \cup {c}
  /\ current' = c /\ answered' = FALSE /\ shown' = c
  /\ looper' = (looper \ {timeout}) \cup {c} /\ timeout' = c
  /\ raced' = IF main # NoCall \/ looper \ {timeout} # {} THEN raced \cup {c} ELSE raced
  /\ UNCHANGED <<pending, main, taps, engine, emits, dart, outcomes, rungOut>>

\* The ring time of c is over and the main looper starts its timeout.
TimerDue(c) ==
  /\ main = NoCall /\ c \in looper
  /\ main' = c /\ looper' = looper \ {c}
  /\ rungOut' = rungOut \cup {c}
  /\ UNCHANGED <<center, shown, taps, engine, emits, dart, reported, outcomes, raced>>

\* The timeout gets the lock.  It ends whatever call is ringing by now.
onTimeout ==
  /\ main # NoCall
  /\ main' = NoCall
  /\ IF ringing
     THEN /\ stopRinging
          /\ timeout' = NoCall
          /\ dispatch(event("incomingCallMissed", current))
     ELSE UNCHANGED <<current, timeout, pending, shown, emits, outcomes>>
  /\ UNCHANGED <<answered, looper, taps, engine, dart, reported, rungOut, raced>>

\* The user taps an action of the notification.  The intent of an action does
\* not say which call was shown.
Tap(a) ==
  /\ shown # NoCall
  /\ taps' = taps \cup {a}
  /\ UNCHANGED <<center, looper, main, shown, engine, emits, dart, history>>

onAnswerAction ==
  /\ main = NoCall /\ "answer" \in taps
  /\ taps' = taps \ {"answer"}
  /\ IF ringing
     THEN /\ answered' = TRUE
          /\ cancelTimeout
          /\ stopRinging
          /\ dispatch(event("incomingCallAnswered", current))
     ELSE UNCHANGED <<center, looper, shown, emits, outcomes>>
  /\ UNCHANGED <<main, engine, dart, reported, rungOut, raced>>

onDeclineAction ==
  /\ main = NoCall /\ "decline" \in taps
  /\ taps' = taps \ {"decline"}
  /\ IF ringing
     THEN /\ cancelTimeout
          /\ stopRinging
          /\ dispatch(event("incomingCallDeclined", current))
     ELSE UNCHANGED <<current, timeout, pending, looper, shown, emits, outcomes>>
  /\ UNCHANGED <<answered, main, engine, dart, reported, rungOut, raced>>

----
(***************************************************************************)
(* The plugin and the Dart side                                            *)
(***************************************************************************)

\* Wrong variant: a new engine starts with a clean slate.
attachAndReset ==
  /\ main = NoCall /\ engine = "off"
  /\ engine' = "attached" /\ drained' = FALSE /\ pending' = NoCall
  /\ UNCHANGED <<current, answered, timeout, looper, main, shown, taps, emits,
                 heard, declining, history>>

onAttachedToEngine ==
  /\ main = NoCall /\ engine = "off"
  /\ engine' = "attached" /\ drained' = FALSE
  /\ UNCHANGED <<center, looper, main, shown, taps, emits, heard, declining, history>>

\* The controller subscribes to the event channel.
onListen ==
  /\ main = NoCall /\ engine = "attached"
  /\ engine' = "listening"
  /\ UNCHANGED <<center, looper, main, shown, taps, emits, dart, history>>

\* A closed app forgets the declines it has heard and not yet handled.
onDetachedFromEngine ==
  /\ main = NoCall /\ engine # "off"
  /\ engine' = "off" /\ emits' = <<>>
  /\ heard' = {e \in heard : e.type # "incomingCallDeclined"}
  /\ UNCHANGED <<center, looper, main, shown, taps, drained, declining, history>>

\* A posted event runs; without a sink it is gone.
emit ==
  /\ main = NoCall /\ emits # <<>>
  /\ emits' = Tail(emits)
  /\ heard' = IF engine = "listening" THEN heard \cup {Head(emits)} ELSE heard
  /\ UNCHANGED <<center, looper, main, shown, taps, engine, drained, declining, history>>

\* Wrong variant: the parked answer is handed over and kept.
peekPendingAnsweredCall == pending' = pending

\* The parked answer is handed over once.
consumePendingAnsweredCall == pending' = NoCall

\* The app asks for a parked answer once, when it has started.
handlePendingIncomingCall ==
  /\ main = NoCall /\ engine = "listening" /\ ~drained
  /\ drained' = TRUE
  /\ consumePendingAnsweredCall
  /\ heard' = IF pending = NoCall THEN heard
              ELSE heard \cup {event("incomingCallAnswered", pending)}
  /\ UNCHANGED <<current, answered, timeout, looper, main, shown, taps, engine,
                 emits, declining, history>>

\* dismissIncomingCall has no callId: it ends whatever call is ringing.
dismissIncomingCall ==
  IF ringing
  THEN stopRinging /\ cancelTimeout
  ELSE UNCHANGED <<current, timeout, looper, shown>>

\* The app declines c, because it heard that the user did so on the
\* notification or because the user does so in the app.  The ring is
\* dismissed, then the backend is told.
declineIncomingCall(c) ==
  /\ main = NoCall /\ engine = "listening"
  /\ c = current \/ event("incomingCallDeclined", c) \in heard
  /\ c \notin declining
  /\ declining' = declining \cup {c}
  /\ dismissIncomingCall
  /\ UNCHANGED <<answered, pending, main, taps, engine, emits, drained, heard,
                 reported, outcomes, rungOut, raced>>

----
Next ==
  \/ \E c \in Calls : reportIncomingCall(c) \/ TimerDue(c) \/ declineIncomingCall(c)
  \/ \E a \in {"answer", "decline"} : Tap(a)
  \/ onTimeout \/ onAnswerAction \/ onDeclineAction
  \/ onAttachedToEngine \/ onListen \/ onDetachedFromEngine
  \/ emit \/ handlePendingIncomingCall

Spec == Init /\ [][Next]_vars

(***************************************************************************)
(* Time passes and the main thread does its work.  An answer brings the    *)
(* app to the foreground, so an engine attaches, and it is not closed      *)
(* every time just before its Dart code gets to run.                       *)
(***************************************************************************)
Fairness ==
  /\ \A c \in Calls : WF_vars(TimerDue(c))
  /\ WF_vars(onTimeout) /\ WF_vars(onAnswerAction) /\ WF_vars(onDeclineAction)
  /\ WF_vars(pending # NoCall /\ onAttachedToEngine)
  /\ SF_vars(onListen) /\ WF_vars(emit) /\ SF_vars(handlePendingIncomingCall)

FairSpec == Spec /\ Fairness

----
(***************************************************************************)
(* Properties                                                              *)
(***************************************************************************)
posted == {emits[i] : i \in DOMAIN emits}

\* The user and the app are told one thing about a call: it is not answered
\* and then missed, or declined and then answered, however a tap, a timeout
\* and the next push interleave.
OneOutcome ==
  \A e, f \in outcomes : e.call = f.call => e.type = f.type

\* The notification on the screen is the one of the call that an answer would
\* take, and there is none when no call rings.
RingIsVisible == shown = current /\ (current # NoCall => ~answered)

\* A call is only reported missed after its own ring time, unless it was
\* reported while the timeout of an earlier call could still run.
OwnTimeout ==
  \A c \in Calls :
    event("incomingCallMissed", c) \in outcomes /\ c \notin raced => c \in rungOut

\* A call that rings has its own timeout ahead of it.
TimeoutArmed == current # NoCall => current \in looper \cup {main}

\* An answer that is parked was not handed to Dart as well: the app would
\* exchange the callId a second time.
ParkedOnce ==
  pending # NoCall =>
    event("incomingCallAnswered", pending) \notin heard \cup posted

\* A phone does not ring for ever.
RingStops == \A c \in Calls : (current = c) ~> (current # c)

\* An answer that was parked, or posted to a Dart side that listens, reaches
\* the app, unless the user answers another call before or closes the app.
AnswerTaken ==
  \A c \in Calls :
    LET a == event("incomingCallAnswered", c)
    IN  /\ (pending = c) ~> (a \in heard \/ pending \notin {c, NoCall})
        /\ (a \in posted /\ engine = "listening") ~> (a \in heard \/ engine # "listening")

\* The inductive invariant behind the safety properties.
Fresh ==   \* a call that rings has had no outcome yet
  /\ current # NoCall => current \in reported
  /\ \A e \in outcomes : e.call \in reported /\ e.call # current

Alone ==   \* no other timeout threatens a call that was not raced
  /\ current # NoCall /\ current \notin raced
       => looper \subseteq {current} /\ main \in {NoCall, current}
  /\ main # NoCall => main \in rungOut

Traced ==  \* whatever is parked, posted or heard was dispatched
  /\ heard \cup posted \subseteq outcomes
  /\ pending # NoCall => event("incomingCallAnswered", pending) \in outcomes

Inv ==
  /\ TypeOK /\ RingIsVisible /\ TimeoutArmed /\ Fresh /\ Alone /\ Traced
  /\ OneOutcome /\ OwnTimeout /\ ParkedOnce

\* What comments and documents say and the code does not do.

\* The answer is forwarded to the Flutter side or parked until the engine
\* attaches: as long as the app is not closed it is with Dart, on its way or
\* parked.
AnswerKept ==
  \A e \in outcomes : e.type = "incomingCallAnswered" /\ engine # "off" =>
    e \in heard \cup posted \/ pending = e.call
====
